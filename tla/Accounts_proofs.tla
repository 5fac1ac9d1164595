------------------------------ MODULE Accounts_proofs ------------------------------
(***************************************************************************)
(* Theorems about Accounts, for any users, requests and number of sessions. *)
(***************************************************************************)
EXTENDS Accounts, FiniteSetTheorems, TLAPS

-----------------------------------------------------------------------------
(* The inductive invariant. *)

\* A removal that goes ahead is that of a member, and if it is that of an owner
\* it saw another owner.
Granted(r) ==
    /\ r.roles[r.user] # "none"
    /\ r.roles[r.user] = "owner" => \E v \in Users \ {r.user} : r.roles[v] = "owner"

\* What a request in flight refers to is there.
RequestOK(r) ==
    /\ r.pc \notin {"idle", "done"} => r.user \in Users
    /\ r.pc \in {"asked", "list"} => r.op \in {"add", "role", "remove"}
    /\ r.pc \in {"update", "locked"} => r.op = "reset"
    /\ r.pc = "read" /\ r.op \in {"refresh", "logout"} => r.id \in Sessions
    /\ r.pc \in {"read", "update", "locked"} /\ r.op = "reset" => r.id \in DOMAIN mail
    /\ r.pc \in {"asked", "list", "read"} /\ r.op \in {"add", "role", "remove"} =>
          r.org \in Users
    /\ r.pc = "list" => r.op = "remove" /\ r.roles[r.user] = "owner"
    /\ r.pc = "read" /\ r.op = "remove" => Granted(r)
    /\ r.rows \subseteq Sessions

\* The resets of a session's user whose UPDATE has begun and passes it over.
Missing(s) ==
    {c \in Calls : /\ Updating(c) /\ call[c].user = session[s].user
                   /\ s \notin call[c].rows}

ResetOK ==
    \A s \in Sessions : Active(s) =>
        session[s].after >= account[session[s].user].resets + Cardinality(Missing(s))

\* One active session of a line, and none when the line was ended.
LineOK ==
    /\ \A s \in Sessions : session[s].line \in Sessions
    /\ ended \subseteq Sessions
    /\ \A s, t \in Sessions :
          Active(s) /\ Active(t) /\ session[s].line = session[t].line
          /\ session[s].line \notin forked => s = t
    /\ \A s \in Sessions : Active(s) /\ session[s].line \notin forked =>
          session[s].line \notin ended

KeyOK ==
    /\ \A k \in DOMAIN key : key[k].line \in DOMAIN key
    /\ \A j, k \in DOMAIN key :
          key[j].active /\ key[k].active /\ key[j].line = key[k].line
          /\ key[j].line \notin respawned => j = k

Inv ==
    /\ TypeOK /\ \A c \in Calls : RequestOK(call[c])
    /\ ResetOK /\ LineOK /\ KeyOK

-----------------------------------------------------------------------------
(* Lemmas about the values. *)

Account == [here : BOOLEAN, password : BOOLEAN, linked : BOOLEAN, resets : Nat]
Session == [user : Users, state : {"active", "revoked", "expired"},
            line : 1..MaxSessions, after : Nat]
Mail    == [user : Users, state : {"active", "used"}]
Key     == [org : Users, active : BOOLEAN, line : Nat \ {0}]
Request == [pc : {"idle", "asked", "list", "read", "issue", "update", "locked", "done"},
            op : {"none", "signup", "login", "oauth", "switch", "refresh", "logout", "reset",
                  "add", "role", "remove"},
            user : Users \cup {NoUser}, org : Users \cup {NoUser}, id : Nat,
            role : Roles \cup {"none"}, roles : [Users -> Roles \cup {"none"}],
            found : BOOLEAN, gone : BOOLEAN, rows : SUBSET (1..MaxSessions)]

LEMMA Types ==
    TypeOK <=>
    /\ account \in [Users -> Account] /\ member \in [Users -> [Users -> Roles \cup {"none"}]]
    /\ session \in Seq(Session) /\ Len(session) <= MaxSessions
    /\ mail \in Seq(Mail) /\ key \in Seq(Key) /\ call \in [Calls -> Request]
    /\ forked \subseteq 1..MaxSessions /\ ended \subseteq 1..MaxSessions
    /\ respawned \subseteq Nat
  BY DEF TypeOK, Account, Session, Mail, Key, Request

LEMMA Row ==
    ASSUME NEW S, NEW q \in Seq(S), NEW i \in DOMAIN q
    PROVE  q[i] \in S /\ i \in Nat /\ i \in 1..Len(q) /\ Len(q) \in Nat
  OBVIOUS

LEMMA SessionType ==
    ASSUME TypeOK, NEW s \in Sessions
    PROVE  /\ s \in 1..Len(session) /\ Len(session) \in Nat /\ session[s] \in Session
           /\ session[s].user \in Users /\ session[s].line \in 1..MaxSessions
           /\ session[s].after \in Nat /\ account[session[s].user].resets \in Nat
<1>1. s \in 1..Len(session) /\ Len(session) \in Nat /\ session[s] \in Session
  BY Types, Row DEF Sessions
<1>2. \A u \in Users : account[u].resets \in Nat
  BY Types DEF Account
<1> QED
  BY <1>1, <1>2 DEF Session

LEMMA MailType == ASSUME TypeOK, NEW m \in DOMAIN mail PROVE mail[m] \in Mail /\ m \in Nat
  BY Types, Row

LEMMA KeyType ==
    ASSUME TypeOK, NEW k \in DOMAIN key
    PROVE  key[k] \in Key /\ k \in Nat /\ key[k].org \in Users /\ key[k].line \in Nat \ {0}
<1>1. key[k] \in Key /\ k \in Nat
  BY Types, Row
<1> QED
  BY <1>1 DEF Key

\* A row that is written, and one that is added.
LEMMA Write ==
    ASSUME NEW S, NEW q \in Seq(S), NEW i \in DOMAIN q, NEW r \in S
    PROVE  /\ [q EXCEPT ![i] = r] \in Seq(S)
           /\ Len([q EXCEPT ![i] = r]) = Len(q) /\ DOMAIN [q EXCEPT ![i] = r] = DOMAIN q
           /\ \A j \in DOMAIN q : [q EXCEPT ![i] = r][j] = IF j = i THEN r ELSE q[j]
  OBVIOUS

LEMMA Add ==
    ASSUME NEW S, NEW q \in Seq(S), NEW r \in S
    PROVE  /\ Append(q, r) \in Seq(S) /\ Len(Append(q, r)) = Len(q) + 1
           /\ DOMAIN q = 1..Len(q) /\ DOMAIN Append(q, r) = 1..(Len(q) + 1)
           /\ Append(q, r)[Len(q) + 1] = r
           /\ \A j \in DOMAIN q : Append(q, r)[j] = q[j]
  OBVIOUS

LEMMA DoneType ==
    /\ NoCall \in Request /\ NoCall.pc = "idle" /\ NoCall.rows = {}
    /\ Done \in Request /\ Done.pc = "done" /\ Done.rows = {}
    /\ RequestOK(Done) /\ RequestOK(NoCall)
<1>1. NoRoles \in [Users -> Roles \cup {"none"}]
  BY DEF NoRoles
<1>2. NoCall \in Request /\ NoCall.pc = "idle" /\ NoCall.rows = {}
  BY <1>1 DEF NoCall, Request
<1>3. Done \in Request /\ Done.pc = "done" /\ Done.rows = {}
  BY <1>2 DEF Done, Request
<1> QED
  BY <1>2, <1>3 DEF RequestOK

-----------------------------------------------------------------------------
(* Requests that begin. *)

\* Another request changes only when a member is removed: gone is set, or the
\* role of somebody else is forgotten.
RolesKept(r, q) ==
    /\ r.pc \notin {"asked", "list"} => q.roles = r.roles
    /\ r.pc = "list" => q.roles[r.user] = r.roles[r.user]

OthersSame(c) ==
    /\ call' \in [Calls -> Request]
    /\ \A d \in Calls \ {c} :
          /\ call'[d].pc = call[d].pc /\ call'[d].op = call[d].op
          /\ call'[d].user = call[d].user /\ call'[d].org = call[d].org
          /\ call'[d].id = call[d].id /\ call'[d].rows = call[d].rows
          /\ RolesKept(call[d], call'[d])

Opens(c) ==
    /\ OthersSame(c) /\ RequestOK(call'[c]) /\ call[c].pc = "idle"
    /\ call'[c].pc \in {"read", "issue", "asked"}
    /\ UNCHANGED <<tables, history>>

LEMMA GoOpens ==
    ASSUME TypeOK, NEW c \in Calls, NEW r \in Request, RequestOK(r),
           r.pc \in {"read", "issue", "asked"}, Go(c, r), UNCHANGED <<tables, history>>
    PROVE  Opens(c)
  BY Types DEF Go, Opens, OthersSame, RolesKept

LEMMA BeginOpens ==
    ASSUME TypeOK, NEW c \in Calls, Begin(c)
    PROVE  \/ Opens(c)
           \/ \E u \in Users : Forgot(c, u)
           \/ \E o \in Users : CreateKey(c, o)
           \/ \E k \in DOMAIN key : RevokeKey(c, k) \/ RotateKey(c, k)
<1>1. /\ NoCall \in Request /\ NoCall.rows = {}
  BY DoneType
<1>2. ASSUME NEW u \in Users, SignUp(c, u) PROVE Opens(c)
  <2> DEFINE r == [NoCall EXCEPT !.pc = "read", !.op = "signup", !.user = u]
  <2>1. r \in Request /\ r.pc = "read" /\ r.op = "signup" /\ r.user = u /\ r.rows = {}
    BY <1>1 DEF Request
  <2>2. Go(c, r)
    BY <1>2 DEF SignUp
  <2> HIDE DEF r
  <2>3. RequestOK(r)
    BY <2>1 DEF RequestOK
  <2> QED
    BY <1>2, <2>1, <2>2, <2>3, GoOpens DEF SignUp
<1>3. ASSUME NEW u \in Users, LogIn(c, u) PROVE Opens(c)
  <2> DEFINE r == [NoCall EXCEPT !.pc = "issue", !.op = "login", !.user = u]
  <2>1. r \in Request /\ r.pc = "issue" /\ r.op = "login" /\ r.user = u /\ r.rows = {}
    BY <1>1 DEF Request
  <2>2. Go(c, r)
    BY <1>3 DEF LogIn
  <2> HIDE DEF r
  <2>3. RequestOK(r)
    BY <2>1 DEF RequestOK
  <2> QED
    BY <1>3, <2>1, <2>2, <2>3, GoOpens DEF LogIn
<1>4. ASSUME NEW u \in Users, SignInWithGoogle(c, u) PROVE Opens(c)
  <2> DEFINE r == [NoCall EXCEPT !.pc = "issue", !.op = "oauth", !.user = u]
             q == [NoCall EXCEPT !.pc = "read", !.op = "oauth", !.user = u,
                                 !.found = account[u].here]
  <2>1. r \in Request /\ r.pc = "issue" /\ r.op = "oauth" /\ r.user = u /\ r.rows = {}
    BY <1>1 DEF Request
  <2>2. account[u].here \in BOOLEAN
    BY Types DEF Account
  <2>3. q \in Request /\ q.pc = "read" /\ q.op = "oauth" /\ q.user = u /\ q.rows = {}
    BY <1>1, <2>2 DEF Request
  <2> HIDE DEF r, q
  <2>4. Go(c, r) \/ Go(c, q)
    BY <1>4 DEF SignInWithGoogle, r, q
  <2>5. RequestOK(r) /\ RequestOK(q)
    BY <2>1, <2>3 DEF RequestOK
  <2> QED
    BY <1>4, <2>1, <2>3, <2>4, <2>5, GoOpens DEF SignInWithGoogle
<1>5. ASSUME NEW o \in Users, NEW u \in Users, SwitchOrganization(c, u, o) PROVE Opens(c)
  <2> DEFINE r == [NoCall EXCEPT !.pc = "issue", !.op = "switch", !.user = u]
  <2>1. r \in Request /\ r.pc = "issue" /\ r.op = "switch" /\ r.user = u /\ r.rows = {}
    BY <1>1 DEF Request
  <2>2. Go(c, r)
    BY <1>5 DEF SwitchOrganization
  <2> HIDE DEF r
  <2>3. RequestOK(r)
    BY <2>1 DEF RequestOK
  <2> QED
    BY <1>5, <2>1, <2>2, <2>3, GoOpens DEF SwitchOrganization
<1>6. ASSUME NEW s \in Sessions, Refresh(c, s) PROVE Opens(c)
  <2> DEFINE r == [NoCall EXCEPT !.pc = "read", !.op = "refresh", !.user = session[s].user,
                                 !.id = s]
  <2>1. session[s].user \in Users /\ s \in Nat
    BY SessionType
  <2>2. /\ r \in Request /\ r.pc = "read" /\ r.op = "refresh" /\ r.id = s /\ r.rows = {}
        /\ r.user \in Users
    BY <1>1, <2>1 DEF Request
  <2>3. Go(c, r)
    BY <1>6 DEF Refresh
  <2> HIDE DEF r
  <2>4. RequestOK(r)
    BY <2>2 DEF RequestOK
  <2> QED
    BY <1>6, <2>2, <2>3, <2>4, GoOpens DEF Refresh
<1>7. ASSUME NEW s \in Sessions, LogOut(c, s) PROVE Opens(c)
  <2> DEFINE r == [NoCall EXCEPT !.pc = "read", !.op = "logout", !.user = session[s].user,
                                 !.id = s]
  <2>1. session[s].user \in Users /\ s \in Nat
    BY SessionType
  <2>2. /\ r \in Request /\ r.pc = "read" /\ r.op = "logout" /\ r.id = s /\ r.rows = {}
        /\ r.user \in Users
    BY <1>1, <2>1 DEF Request
  <2>3. Go(c, r)
    BY <1>7 DEF LogOut
  <2> HIDE DEF r
  <2>4. RequestOK(r)
    BY <2>2 DEF RequestOK
  <2> QED
    BY <1>7, <2>2, <2>3, <2>4, GoOpens DEF LogOut
<1>8. ASSUME NEW m \in DOMAIN mail, ResetPassword(c, m) PROVE Opens(c)
  <2> DEFINE r == [NoCall EXCEPT !.pc = "read", !.op = "reset", !.user = mail[m].user, !.id = m]
  <2>1. mail[m].user \in Users /\ m \in Nat
    BY MailType DEF Mail
  <2>2. /\ r \in Request /\ r.pc = "read" /\ r.op = "reset" /\ r.id = m /\ r.rows = {}
        /\ r.user \in Users
    BY <1>1, <2>1 DEF Request
  <2>3. Go(c, r)
    BY <1>8 DEF ResetPassword
  <2> HIDE DEF r
  <2>4. RequestOK(r)
    BY <2>2 DEF RequestOK
  <2> QED
    BY <1>8, <2>2, <2>3, <2>4, GoOpens DEF ResetPassword
<1>9. ASSUME NEW o \in Users, NEW u \in Users, NEW role \in Roles \cup {"none"},
             NEW op \in {"add", "role", "remove"}, Ask(c, op, o, u, role)
      PROVE  Opens(c)
  <2>1. PICK m \in Users :
          Go(c, [NoCall EXCEPT !.pc = "asked", !.op = op, !.org = o, !.user = u, !.role = role,
                               !.roles[m] = member[o][m]])
    BY <1>9 DEF Ask
  <2>2. NoRoles \in [Users -> Roles \cup {"none"}] /\ NoCall.roles = NoRoles
    BY DEF NoRoles, NoCall
  <2>3. member[o][m] \in Roles \cup {"none"}
    BY Types
  <2> DEFINE q == [NoRoles EXCEPT ![m] = member[o][m]]
             r == [NoCall EXCEPT !.pc = "asked", !.op = op, !.org = o, !.user = u, !.role = role,
                                 !.roles = q]
  <2>4. q \in [Users -> Roles \cup {"none"}]
    BY <2>2, <2>3
  <2>5. Go(c, r)
    BY <2>1, <2>2
  <2> HIDE DEF q
  <2>6. /\ r \in Request /\ r.pc = "asked" /\ r.op = op /\ r.org = o /\ r.user = u
        /\ r.rows = {}
    BY <1>1, <2>4 DEF Request
  <2> HIDE DEF r
  <2>7. RequestOK(r)
    BY <2>6 DEF RequestOK
  <2> QED
    BY <1>9, <2>5, <2>6, <2>7, GoOpens DEF Ask
<1>10. ASSUME NEW o \in Users, NEW u \in Users,
              RemoveMember(c, o, u) \/ \E role \in Roles : AddMember(c, o, u, role)
                                                           \/ ChangeRole(c, o, u, role)
       PROVE  Opens(c)
  BY <1>9, <1>10 DEF RemoveMember, AddMember, ChangeRole
<1> QED
  BY <1>2, <1>3, <1>4, <1>5, <1>6, <1>7, <1>8, <1>10 DEF Begin

-----------------------------------------------------------------------------
(* What keeps each part of the invariant. *)

LEMMA TypesNext ==
    TypeOK' <=>
    /\ account' \in [Users -> Account] /\ member' \in [Users -> [Users -> Roles \cup {"none"}]]
    /\ session' \in Seq(Session) /\ Len(session') <= MaxSessions
    /\ mail' \in Seq(Mail) /\ key' \in Seq(Key) /\ call' \in [Calls -> Request]
    /\ forked' \subseteq 1..MaxSessions /\ ended' \subseteq 1..MaxSessions
    /\ respawned' \subseteq Nat
  BY DEF TypeOK, Account, Session, Mail, Key, Request

LEMMA RequestsKeep ==
    ASSUME Inv, NEW c \in Calls, OthersSame(c), RequestOK(call[c])',
           Sessions \subseteq Sessions', DOMAIN mail \subseteq DOMAIN mail'
    PROVE  (\A d \in Calls : RequestOK(call[d]))'
<1>1. ASSUME NEW d \in Calls \ {c} PROVE RequestOK(call[d])'
  <2>1. RequestOK(call[d])
    BY DEF Inv
  <2> QED
    BY <2>1 DEF RequestOK, Granted, OthersSame, RolesKept
<1> QED
  BY <1>1

\* No reset begins or ends.
LocksSame ==
    \A d \in Calls :
        /\ Updating(d)' <=> Updating(d)
        /\ Updating(d) =>
              call'[d].user = call[d].user /\ call'[d].rows = call[d].rows

LEMMA LocksKept ==
    ASSUME NEW c \in Calls, OthersSame(c), ~Updating(c), ~Updating(c)'
    PROVE  LocksSame
  BY DEF OthersSame, LocksSame, Updating

\* A step outside the resets: what it issues counts the resets begun.
LEMMA ResetKeep ==
    ASSUME Inv, LocksSame,
           \A u \in Users : account'[u].resets = account[u].resets,
           \A s \in Sessions : /\ session'[s].user = session[s].user
                               /\ session'[s].after = session[s].after
                               /\ session'[s].state = "active" => session[s].state = "active",
           \A s \in Sessions' \ Sessions : /\ session'[s].user \in Users
                                          /\ session'[s].after = ResetsBegun(session'[s].user)
    PROVE  ResetOK'
<1> SUFFICES ASSUME NEW s \in Sessions', session'[s].state = "active"
             PROVE  session'[s].after >= account'[session'[s].user].resets
                                           + Cardinality(Missing(s)')
  BY DEF ResetOK, Active
<1>1. Missing(s)' = {d \in Calls : /\ Updating(d) /\ call[d].user = session'[s].user
                                   /\ s \notin call[d].rows}
  BY DEF Missing, LocksSame
<1>2. CASE s \in Sessions
  <2>1. Missing(s)' = Missing(s)
    BY <1>1, <1>2 DEF Missing
  <2>2. session[s].user \in Users
    BY <1>2, SessionType DEF Inv
  <2> QED
    BY <1>2, <2>1, <2>2 DEF Inv, ResetOK, Active
<1>3. CASE s \notin Sessions
  <2> DEFINE u == session'[s].user
  <2>1. \A d \in Calls : s \notin call[d].rows
    BY <1>3 DEF Inv, RequestOK
  <2>2. Missing(s)' = {d \in Calls : Updating(d) /\ call[d].user = u}
    BY <1>1, <2>1
  <2>3. u \in Users /\ session'[s].after = ResetsBegun(u)
    BY <1>3
  <2>4. account'[u].resets = account[u].resets /\ account[u].resets \in Nat
    BY <2>3, Types DEF Inv, Account
  <2>5. IsFiniteSet(Missing(s)')
    BY <2>2, AccountsAssumption, FS_Subset
  <2>6. Cardinality(Missing(s)') \in Nat
    BY <2>5, FS_CardinalityType
  <2> QED
    BY <2>2, <2>3, <2>4, <2>6 DEF ResetsBegun
<1> QED
  BY <1>2, <1>3

LEMMA LineKeep ==
    ASSUME Inv, Sessions \subseteq Sessions', forked \subseteq forked',
           ended \subseteq ended', ended' \subseteq Sessions,
           \A s \in Sessions : /\ session'[s].line = session[s].line
                               /\ session'[s].state = "active" => session[s].state = "active"
                               /\ session'[s].state = "active" /\ session'[s].line \notin forked'
                                  /\ session'[s].line \in ended' => session'[s].line \in ended,
           \A s \in Sessions' \ Sessions :
               /\ session'[s].line \in Sessions'
               /\ session'[s].line \notin forked' => session'[s].line \notin ended'
               /\ \A t \in Sessions' :
                     session'[t].state = "active" /\ session'[t].line = session'[s].line
                     /\ session'[s].line \notin forked' => t = s
    PROVE  LineOK'
<1>1. (\A s \in Sessions : session[s].line \in Sessions)' /\ (ended \subseteq Sessions)'
  BY DEF Inv, LineOK
<1>2. ASSUME NEW s \in Sessions', NEW t \in Sessions', session'[s].state = "active",
             session'[t].state = "active", session'[s].line = session'[t].line,
             session'[s].line \notin forked'
      PROVE  s = t
  BY <1>2 DEF Inv, LineOK, Active
<1>3. ASSUME NEW s \in Sessions', session'[s].state = "active", session'[s].line \notin forked'
      PROVE  session'[s].line \notin ended'
  BY <1>3 DEF Inv, LineOK, Active
<1> QED
  BY <1>1, <1>2, <1>3 DEF LineOK, Active

LEMMA KeySame == ASSUME Inv, UNCHANGED <<key, respawned>> PROVE KeyOK'
  BY DEF Inv, KeyOK

\* A step that writes no session.
LEMMA SessionsSame ==
    ASSUME Inv, UNCHANGED <<session, forked, ended>>, LocksSame,
           \A u \in Users : account'[u].resets = account[u].resets
    PROVE  LineOK' /\ ResetOK' /\ Sessions' = Sessions
<1>1. LineOK' /\ Sessions' = Sessions
  BY DEF Inv, LineOK, Sessions, Active
<1> QED
  BY <1>1, ResetKeep

-----------------------------------------------------------------------------
(* Each action keeps the invariant. *)

\* A request that ends, or begins and ends in one step.
LEMMA Ends ==
    ASSUME TypeOK, NEW c \in Calls, End(c) \/ Go(c, Done)
    PROVE  /\ OthersSame(c) /\ call'[c] = Done
           /\ call'[c].pc = "done" /\ call'[c].rows = {} /\ RequestOK(call[c])'
<1>1. OthersSame(c) /\ call'[c] = Done
  BY Types, DoneType DEF End, Go, OthersSame, RolesKept
<1>2. Done.pc = "done" /\ Done.rows = {}
  BY DoneType
<1> QED
  BY <1>1, <1>2 DEF RequestOK

\* A step of a request that leaves the sessions, their history and the keys.
LEMMA Elsewhere ==
    ASSUME Inv, NEW c \in Calls, OthersSame(c), RequestOK(call[c])',
           call[c].pc \notin {"update", "locked"}, call'[c].pc \notin {"update", "locked"},
           UNCHANGED <<session, key, history>>,
           \A u \in Users : account'[u].resets = account[u].resets,
           account' \in [Users -> Account],
           member' \in [Users -> [Users -> Roles \cup {"none"}]],
           mail' \in Seq(Mail), DOMAIN mail \subseteq DOMAIN mail'
    PROVE  Inv'
<1>1. LineOK' /\ ResetOK' /\ Sessions' = Sessions
  BY LocksKept, SessionsSame DEF Updating, history
<1>2. KeyOK'
  BY KeySame DEF history
<1>3. (\A d \in Calls : RequestOK(call[d]))'
  BY <1>1, RequestsKeep
<1>4. TypeOK'
  BY Types, TypesNext DEF Inv, OthersSame, history
<1> QED
  BY <1>1, <1>2, <1>3, <1>4 DEF Inv

LEMMA OpensInv ==
    ASSUME Inv, NEW c \in Calls, Opens(c)
    PROVE  Inv'
<1>1. RequestOK(call[c])'
  BY DEF Opens, RequestOK, tables, Sessions
<1>2. call[c].pc = "idle" /\ call'[c].pc \in {"read", "issue", "asked"} /\ OthersSame(c)
      /\ UNCHANGED <<account, member, session, mail, key, history>>
  BY DEF Opens, tables
<1> QED
  BY <1>1, <1>2, Elsewhere, Types DEF Inv

LEMMA RefuseInv ==
    ASSUME Inv, NEW c \in Calls, call[c].pc \notin {"update", "locked"}, Refuse(c)
    PROVE  Inv'
<1>1. /\ OthersSame(c) /\ call'[c].pc = "done" /\ RequestOK(call[c])'
      /\ UNCHANGED <<account, member, session, mail, key, history>>
  BY Ends DEF Inv, Refuse, tables
<1> QED
  BY <1>1, Elsewhere, Types DEF Inv

LEMMA ForgotInv ==
    ASSUME Inv, NEW c \in Calls, NEW u \in Users, Forgot(c, u)
    PROVE  Inv'
<1>1. /\ OthersSame(c) /\ call'[c].pc = "done" /\ RequestOK(call[c])' /\ call[c].pc = "idle"
      /\ UNCHANGED <<account, member, session, key, history>>
  BY Ends DEF Inv, Forgot, Go
<1>2. [user |-> u, state |-> "active"] \in Mail
  BY DEF Mail
<1>3. mail' \in Seq(Mail) /\ DOMAIN mail \subseteq DOMAIN mail'
  <2>1. mail \in Seq(Mail) /\ mail' = Append(mail, [user |-> u, state |-> "active"])
    BY Types DEF Inv, Forgot
  <2> QED
    BY <1>2, <2>1, Add
<1> QED
  BY <1>1, <1>3, Elsewhere, Types DEF Inv

\* What a step that writes only keys has to show.
LEMMA KeysOnly ==
    ASSUME Inv, NEW c \in Calls, Go(c, Done), UNCHANGED <<account, member, session, mail>>,
           UNCHANGED <<forked, ended>>, key' \in Seq(Key), respawned' \subseteq Nat, KeyOK'
    PROVE  Inv'
<1>1. /\ OthersSame(c) /\ call'[c].pc = "done" /\ RequestOK(call[c])' /\ call[c].pc = "idle"
  BY Ends DEF Inv, Go
<1>2. LineOK' /\ ResetOK' /\ Sessions' = Sessions
  BY <1>1, LocksKept, SessionsSame DEF Updating
<1>3. (\A d \in Calls : RequestOK(call[d]))'
  BY <1>1, <1>2, RequestsKeep
<1>4. TypeOK'
  BY <1>1, Types, TypesNext DEF Inv, OthersSame
<1> QED
  BY <1>2, <1>3, <1>4 DEF Inv

LEMMA CreateKeyInv ==
    ASSUME Inv, NEW c \in Calls, NEW o \in Users, CreateKey(c, o)
    PROVE  Inv'
<1> DEFINE n == Len(key) + 1
           r == [org |-> o, active |-> TRUE, line |-> n]
<1>1. key \in Seq(Key) /\ Len(key) \in Nat
  BY Types DEF Inv
<1>2. r \in Key /\ r.line = n
  BY <1>1 DEF Key
<1>3. /\ key' = Append(key, r) /\ Go(c, Done) /\ respawned' = respawned
      /\ UNCHANGED <<account, member, session, mail>> /\ UNCHANGED <<forked, ended>>
  BY DEF CreateKey, history
<1> HIDE DEF r
<1>4. /\ key' \in Seq(Key) /\ DOMAIN key = 1..Len(key) /\ DOMAIN key' = DOMAIN key \cup {n}
      /\ n \notin DOMAIN key /\ key'[n].line = n /\ \A j \in DOMAIN key : key'[j] = key[j]
  BY <1>1, <1>2, <1>3, Add
<1>5. KeyOK'
  <2>1. \A k \in DOMAIN key : key[k].line # n
    BY <1>4 DEF Inv, KeyOK
  <2>2. ASSUME NEW j \in DOMAIN key', NEW k \in DOMAIN key', key'[j].active, key'[k].active,
               key'[j].line = key'[k].line, key'[j].line \notin respawned'
        PROVE  j = k
    BY <1>3, <1>4, <2>1, <2>2 DEF Inv, KeyOK
  <2>3. \A k \in DOMAIN key' : key'[k].line \in DOMAIN key'
    BY <1>4 DEF Inv, KeyOK
  <2> QED
    BY <2>2, <2>3 DEF KeyOK
<1> QED
  BY <1>3, <1>4, <1>5, KeysOnly, Types DEF Inv

LEMMA Revoked ==
    ASSUME TypeOK, NEW k \in DOMAIN key
    PROVE  /\ [key EXCEPT ![k].active = FALSE] \in Seq(Key)
           /\ DOMAIN [key EXCEPT ![k].active = FALSE] = DOMAIN key
           /\ Len([key EXCEPT ![k].active = FALSE]) = Len(key)
           /\ \A j \in DOMAIN key :
                 /\ [key EXCEPT ![k].active = FALSE][j].line = key[j].line
                 /\ [key EXCEPT ![k].active = FALSE][j].active <=> j # k /\ key[j].active
<1> DEFINE r == [key[k] EXCEPT !.active = FALSE]
<1>1. r \in Key /\ r.line = key[k].line /\ r.active = FALSE
  BY KeyType DEF Key
<1>2. [key EXCEPT ![k].active = FALSE] = [key EXCEPT ![k] = r] /\ key \in Seq(Key)
  BY Types
<1> HIDE DEF r
<1>3. /\ [key EXCEPT ![k] = r] \in Seq(Key) /\ DOMAIN [key EXCEPT ![k] = r] = DOMAIN key
      /\ Len([key EXCEPT ![k] = r]) = Len(key)
      /\ \A j \in DOMAIN key : [key EXCEPT ![k] = r][j] = IF j = k THEN r ELSE key[j]
  BY <1>1, <1>2, Write
<1> DEFINE w == [key EXCEPT ![k].active = FALSE]
<1>4. /\ w \in Seq(Key) /\ DOMAIN w = DOMAIN key /\ Len(w) = Len(key)
      /\ \A j \in DOMAIN key : w[j] = IF j = k THEN r ELSE key[j]
  BY <1>2, <1>3
<1> HIDE DEF w
<1>5. \A j \in DOMAIN key : w[j].line = key[j].line /\ (w[j].active <=> j # k /\ key[j].active)
  BY <1>1, <1>4
<1> QED
  BY <1>4, <1>5 DEF w

LEMMA RevokeKeyInv ==
    ASSUME Inv, NEW c \in Calls, NEW k \in DOMAIN key, RevokeKey(c, k)
    PROVE  Inv'
<1>1. /\ key' = [key EXCEPT ![k].active = FALSE] /\ Go(c, Done) /\ respawned' = respawned
      /\ UNCHANGED <<account, member, session, mail>> /\ UNCHANGED <<forked, ended>>
  BY DEF RevokeKey, history
<1>2. /\ key' \in Seq(Key) /\ DOMAIN key' = DOMAIN key
      /\ \A j \in DOMAIN key : key'[j].line = key[j].line /\ (key'[j].active => key[j].active)
  BY <1>1, Revoked DEF Inv
<1>3. KeyOK'
  BY <1>1, <1>2 DEF Inv, KeyOK
<1> QED
  BY <1>1, <1>2, <1>3, KeysOnly, Types DEF Inv

LEMMA RotateKeyInv ==
    ASSUME Inv, NEW c \in Calls, NEW k \in DOMAIN key, RotateKey(c, k)
    PROVE  Inv'
<1> DEFINE q == [key EXCEPT ![k].active = FALSE]
           n == Len(key) + 1
           r == [org |-> key[k].org, active |-> TRUE, line |-> key[k].line]
<1>1. /\ key' = Append(q, r) /\ Go(c, Done)
      /\ respawned' = IF key[k].active THEN respawned ELSE respawned \cup {key[k].line}
      /\ UNCHANGED <<account, member, session, mail>> /\ UNCHANGED <<forked, ended>>
  BY DEF RotateKey
<1>2. r \in Key /\ r.line = key[k].line
  BY KeyType DEF Inv, Key
<1>3. /\ q \in Seq(Key) /\ DOMAIN q = DOMAIN key /\ Len(q) = Len(key) /\ Len(key) \in Nat
      /\ \A j \in DOMAIN key : q[j].line = key[j].line /\ (q[j].active <=> j # k /\ key[j].active)
  BY Revoked, Types DEF Inv
<1>4. respawned' \subseteq Nat /\ respawned \subseteq respawned' /\ key[k].line \in DOMAIN key
      /\ (~key[k].active => key[k].line \in respawned')
  BY <1>1, KeyType, Types DEF Inv, KeyOK
<1> HIDE DEF q, r
<1>5. /\ key' \in Seq(Key) /\ DOMAIN key = 1..Len(key) /\ DOMAIN key' = DOMAIN key \cup {n}
      /\ n \notin DOMAIN key /\ key'[n].line = key[k].line /\ \A j \in DOMAIN key : key'[j] = q[j]
  BY <1>1, <1>2, <1>3, Add
<1>6. KeyOK'
  <2>1. \A j \in DOMAIN key :
            /\ key'[j].line = key[j].line
            /\ key'[j].active => j # k /\ key[j].active
    BY <1>3, <1>5
  <2>2. ASSUME NEW j \in DOMAIN key, key'[j].active, key[j].line = key[k].line,
               key[k].line \notin respawned'
        PROVE  FALSE
    BY <1>4, <2>1, <2>2 DEF Inv, KeyOK
  <2>3. ASSUME NEW i \in DOMAIN key', NEW j \in DOMAIN key', key'[i].active, key'[j].active,
               key'[i].line = key'[j].line, key'[i].line \notin respawned'
        PROVE  i = j
    <3>1. CASE i \in DOMAIN key /\ j \in DOMAIN key
      BY <1>4, <2>1, <2>3, <3>1 DEF Inv, KeyOK
    <3>2. CASE i = n /\ j \in DOMAIN key
      BY <1>5, <2>1, <2>2, <2>3, <3>2
    <3>3. CASE i \in DOMAIN key /\ j = n
      BY <1>5, <2>1, <2>2, <2>3, <3>3
    <3> QED
      BY <1>5, <3>1, <3>2, <3>3
  <2>4. \A j \in DOMAIN key' : key'[j].line \in DOMAIN key'
    BY <1>4, <1>5, <2>1 DEF Inv, KeyOK
  <2> QED
    BY <2>3, <2>4 DEF KeyOK
<1> QED
  BY <1>1, <1>4, <1>5, <1>6, KeysOnly, Types DEF Inv

\* Accounts, members and the requests that write them.
LEMMA PatchType ==
    ASSUME TypeOK, NEW c \in Calls, NEW r \in Request
    PROVE  call' = [call EXCEPT ![c] = r] => OthersSame(c) /\ call'[c] = r
  BY Types DEF OthersSame, RolesKept

LEMMA Issuing ==
    ASSUME Inv, NEW c \in Calls, call[c].pc = "read", call[c].op \in {"signup", "oauth"},
           call' = [call EXCEPT ![c].pc = "issue"], UNCHANGED session
    PROVE  OthersSame(c) /\ RequestOK(call[c])' /\ call'[c].pc = "issue"
<1> DEFINE r == [call[c] EXCEPT !.pc = "issue"]
<1>1. call[c] \in Request /\ RequestOK(call[c])
  BY Types DEF Inv
<1>2. /\ r \in Request /\ r.pc = "issue" /\ r.user = call[c].user
      /\ r.op = call[c].op /\ r.rows = call[c].rows
  BY <1>1 DEF Request
<1>3. call' = [call EXCEPT ![c] = r]
  BY <1>1
<1> HIDE DEF r
<1>4. OthersSame(c) /\ call'[c] = r
  BY <1>2, <1>3, PatchType DEF Inv
<1> QED
  BY <1>1, <1>2, <1>4 DEF RequestOK, Sessions

LEMMA Founds ==
    ASSUME TypeOK, NEW u \in Users, NEW p \in BOOLEAN, NEW l \in BOOLEAN, Found(u, p, l)
    PROVE  /\ account' \in [Users -> Account] /\ \A v \in Users : account'[v].resets = account[v].resets
           /\ member' \in [Users -> [Users -> Roles \cup {"none"}]]
<1>1. account[u] \in Account /\ account \in [Users -> Account]
  BY Types
<1> DEFINE a == [account[u] EXCEPT !.here = TRUE, !.password = p, !.linked = l]
<1>2. a \in Account /\ a.resets = account[u].resets
  BY <1>1 DEF Account
<1>3. account' = [account EXCEPT ![u] = a]
  BY <1>1 DEF Found
<1>4. member' \in [Users -> [Users -> Roles \cup {"none"}]]
  BY Types DEF Found, Roles
<1> HIDE DEF a
<1> QED
  BY <1>1, <1>2, <1>3, <1>4

LEMMA CreateAccountInv ==
    ASSUME Inv, NEW c \in Calls, CreateAccount(c)
    PROVE  Inv'
<1>1. call[c].pc = "read" /\ call[c].op = "signup"
  BY DEF CreateAccount, At
<1>2. call[c].user \in Users
  BY <1>1 DEF Inv, RequestOK
<1>3. CASE account[call[c].user].here
  BY <1>1, <1>3, RefuseInv DEF CreateAccount
<1>4. CASE ~account[call[c].user].here
  <2>1. /\ Found(call[c].user, TRUE, FALSE) /\ call' = [call EXCEPT ![c].pc = "issue"]
        /\ UNCHANGED <<session, mail, key, history>>
    BY <1>4 DEF CreateAccount, history
  <2>2. OthersSame(c) /\ RequestOK(call[c])' /\ call'[c].pc = "issue"
    BY <1>1, <2>1, Issuing
  <2>3. /\ account' \in [Users -> Account] /\ \A v \in Users : account'[v].resets = account[v].resets
        /\ member' \in [Users -> [Users -> Roles \cup {"none"}]]
    BY <1>2, <2>1, Founds DEF Inv
  <2> QED
    BY <1>1, <2>1, <2>2, <2>3, Elsewhere, Types DEF Inv
<1> QED
  BY <1>3, <1>4

LEMMA LinkIdentityInv ==
    ASSUME Inv, NEW c \in Calls, LinkIdentity(c)
    PROVE  Inv'
<1>1. call[c].pc = "read" /\ call[c].op = "oauth"
  BY DEF LinkIdentity, At
<1> DEFINE u == call[c].user
           refused == account[u].linked \/ (account[u].here /\ ~call[c].found)
<1>2. u \in Users
  BY <1>1 DEF Inv, RequestOK
<1>3. CASE refused
  BY <1>1, <1>3, RefuseInv DEF LinkIdentity
<1>4. CASE ~refused
  <2>1. /\ UNCHANGED <<session, mail, key, history>>
        /\ \/ End(c)
           \/ call' = [call EXCEPT ![c].pc = "issue"]
        /\ \/ account' = [account EXCEPT ![u].linked = TRUE] /\ UNCHANGED member
           \/ Found(u, FALSE, TRUE)
    BY <1>4 DEF LinkIdentity, history
  <2>2. OthersSame(c) /\ RequestOK(call[c])' /\ call'[c].pc \in {"issue", "done"}
    BY <1>1, <2>1, Issuing, Ends DEF Inv
  <2>3. /\ account' \in [Users -> Account] /\ \A v \in Users : account'[v].resets = account[v].resets
        /\ member' \in [Users -> [Users -> Roles \cup {"none"}]]
    <3>1. CASE account' = [account EXCEPT ![u].linked = TRUE] /\ UNCHANGED member
      <4> DEFINE a == [account[u] EXCEPT !.linked = TRUE]
      <4>1. account[u] \in Account /\ account \in [Users -> Account]
            /\ member \in [Users -> [Users -> Roles \cup {"none"}]]
        BY <1>2, Types DEF Inv
      <4>2. a \in Account /\ a.resets = account[u].resets
        BY <4>1 DEF Account
      <4>3. account' = [account EXCEPT ![u] = a]
        BY <3>1, <4>1
      <4> HIDE DEF a
      <4> QED
        BY <1>2, <3>1, <4>1, <4>2, <4>3
    <3>2. CASE Found(u, FALSE, TRUE)
      BY <1>2, <3>2, Founds DEF Inv
    <3> QED
      BY <2>1, <3>1, <3>2
  <2> QED
    BY <1>1, <2>1, <2>2, <2>3, Elsewhere, Types DEF Inv
<1> QED
  BY <1>3, <1>4

\* A member's row is written.
LEMMA SetRoleType ==
    ASSUME TypeOK, NEW o \in Users, NEW u \in Users, NEW role \in Roles \cup {"none"},
           SetRole(o, u, role)
    PROVE  /\ member' \in [Users -> [Users -> Roles \cup {"none"}]]
           /\ \A p, v \in Users : member'[p][v] = IF p = o /\ v = u THEN role ELSE member[p][v]
  BY Types DEF SetRole

LEMMA MembersOnly ==
    ASSUME Inv, NEW c \in Calls, call[c].pc = "read",
           call[c].op \in {"add", "role", "remove"}, NEW role \in Roles \cup {"none"},
           SetRole(call[c].org, call[c].user, role),
           OthersSame(c), RequestOK(call[c])', call'[c].pc = "done",
           UNCHANGED <<account, session, mail, key, history>>
    PROVE  Inv'
<1>1. call[c].org \in Users /\ call[c].user \in Users
  BY DEF Inv, RequestOK
<1>2. member' \in [Users -> [Users -> Roles \cup {"none"}]]
  BY <1>1, SetRoleType DEF Inv
<1> QED
  BY <1>2, Elsewhere, Types DEF Inv

LEMMA MemberInv ==
    ASSUME Inv, NEW c \in Calls, InsertMember(c) \/ WriteRole(c)
    PROVE  Inv'
<1>1. call[c].pc = "read" /\ call[c].op \in {"add", "role", "remove"}
  BY DEF InsertMember, WriteRole, At
<1>2. call[c].role \in Roles \cup {"none"}
  BY Types DEF Inv, Request
<1>3. \/ Refuse(c)
      \/ /\ SetRole(call[c].org, call[c].user, call[c].role) /\ End(c)
         /\ UNCHANGED <<account, session, mail, key, history>>
  BY DEF InsertMember, WriteRole
<1>4. End(c) => OthersSame(c) /\ RequestOK(call[c])' /\ call'[c].pc = "done"
  BY Ends DEF Inv
<1> QED
  BY <1>1, <1>2, <1>3, <1>4, RefuseInv, MembersOnly

\* A request takes note of the roles it reads.
LEMMA Reads ==
    ASSUME Inv, NEW c \in Calls, call[c].pc \in {"asked", "list"},
           NEW pc \in {"list", "read"}, NEW f \in [Users -> Roles \cup {"none"}],
           call' = [call EXCEPT ![c].pc = pc, ![c].roles = f],
           UNCHANGED <<tables, history>>,
           pc = "list" => call[c].op = "remove" /\ f[call[c].user] = "owner",
           pc = "read" /\ call[c].op = "remove" =>
               /\ f[call[c].user] # "none"
               /\ f[call[c].user] = "owner" => \E v \in Users \ {call[c].user} : f[v] = "owner"
    PROVE  Inv'
<1> DEFINE r == [call[c] EXCEPT !.pc = pc, !.roles = f]
<1>1. call[c] \in Request /\ RequestOK(call[c])
  BY Types DEF Inv
<1>2. /\ r \in Request /\ r.pc = pc /\ r.roles = f /\ r.user = call[c].user
      /\ r.op = call[c].op /\ r.org = call[c].org /\ r.rows = call[c].rows
  BY <1>1 DEF Request
<1>3. call' = [call EXCEPT ![c] = r]
  BY <1>1, Types DEF Inv
<1> HIDE DEF r
<1>4. OthersSame(c) /\ call'[c] = r
  BY <1>2, <1>3, PatchType DEF Inv
<1>5. UNCHANGED <<account, member, session, mail, key, history>>
  BY DEF tables
<1>6. RequestOK(r)
  <2>1. /\ call[c].op \in {"add", "role", "remove"} /\ call[c].org \in Users
        /\ call[c].user \in Users /\ call[c].rows \subseteq Sessions
    BY <1>1 DEF RequestOK
  <2> QED
    BY <1>2, <2>1 DEF RequestOK, Granted
<1>7. RequestOK(call[c])'
  BY <1>4, <1>5, <1>6 DEF RequestOK, Granted, Sessions
<1> QED
  BY <1>2, <1>4, <1>5, <1>7, Elsewhere, Types DEF Inv

LEMMA SeenType ==
    ASSUME TypeOK, NEW c \in Calls, call[c].org \in Users, NEW v \in Users
    PROVE  Seen(c, v) \in Roles \cup {"none"}
<1>1. call[c] \in Request /\ member[call[c].org][v] \in Roles \cup {"none"}
  BY Types
<1>2. call[c].roles[v] \in Roles \cup {"none"}
  BY <1>1 DEF Request
<1> QED
  BY <1>1, <1>2 DEF Seen

LEMMA ReadMemberInv ==
    ASSUME Inv, NEW c \in Calls, ReadMember(c)
    PROVE  Inv'
<1> DEFINE u == call[c].user
           role == Seen(c, u)
           lists == call[c].op = "remove" /\ role = "owner"
           f == [IF lists THEN call[c].roles ELSE NoRoles EXCEPT ![u] = role]
<1>1. call[c].pc = "asked" /\ call[c] \in Request
  BY Types DEF ReadMember, Inv
<1>2. call[c].org \in Users /\ u \in Users
  BY <1>1 DEF Inv, RequestOK
<1>3. CASE (role = "none") # (call[c].op = "add")
  BY <1>1, <1>3, RefuseInv DEF ReadMember
<1>4. CASE ~((role = "none") # (call[c].op = "add"))
  <2>1. /\ call' = [call EXCEPT ![c].pc = IF lists THEN "list" ELSE "read", ![c].roles = f]
        /\ UNCHANGED <<tables, history>>
    BY <1>4, Types DEF ReadMember, Inv
  <2>2. role \in Roles \cup {"none"}
    BY <1>2, SeenType DEF Inv
  <2>3. call[c].roles \in [Users -> Roles \cup {"none"}]
        /\ NoRoles \in [Users -> Roles \cup {"none"}]
    BY <1>1 DEF Request, NoRoles
  <2> HIDE DEF role
  <2>4. f \in [Users -> Roles \cup {"none"}] /\ f[u] = role
    BY <1>2, <2>2, <2>3
  <2>5. call[c].op = "remove" => role # "none"
    BY <1>4
  <2>6. call[c].op = "remove" /\ role = "owner" <=> lists
    OBVIOUS
  <2> HIDE DEF f, lists
  <2> DEFINE pc == IF lists THEN "list" ELSE "read"
  <2>7. pc \in {"list", "read"} /\ (pc = "list" <=> lists)
    OBVIOUS
  <2>8. call' = [call EXCEPT ![c].pc = pc, ![c].roles = f]
    BY <2>1
  <2> HIDE DEF pc
  <2> QED
    BY <1>1, <2>1, <2>4, <2>5, <2>6, <2>7, <2>8, Reads
<1> QED
  BY <1>3, <1>4

LEMMA ListMembersInv ==
    ASSUME Inv, NEW c \in Calls, ListMembers(c)
    PROVE  Inv'
<1> DEFINE u == call[c].user
           f == [v \in Users |-> IF v = u THEN call[c].roles[v] ELSE Seen(c, v)]
<1>1. call[c].pc = "list" /\ call[c] \in Request
  BY Types DEF ListMembers, At, Inv
<1>2. call[c].org \in Users /\ u \in Users /\ call[c].roles[u] = "owner"
  BY <1>1 DEF Inv, RequestOK
<1>3. CASE ~OthersOwn(c)
  BY <1>1, <1>3, RefuseInv DEF ListMembers
<1>4. CASE OthersOwn(c)
  <2>1. call' = [call EXCEPT ![c].pc = "read", ![c].roles = f] /\ UNCHANGED <<tables, history>>
    BY <1>4, Types DEF ListMembers, Inv
  <2>2. f \in [Users -> Roles \cup {"none"}]
    BY <1>1, <1>2, SeenType DEF Inv, Request
  <2>3. f[u] = "owner" /\ \E v \in Users \ {u} : f[v] = "owner"
    BY <1>2, <1>4 DEF OthersOwn
  <2> HIDE DEF f
  <2> QED
    BY <1>1, <2>1, <2>2, <2>3, Reads
<1> QED
  BY <1>3, <1>4

LEMMA DeleteMemberInv ==
    ASSUME Inv, NEW c \in Calls, DeleteMember(c)
    PROVE  Inv'
<1>1. call[c].pc = "read" /\ call[c].op = "remove"
  BY DEF DeleteMember, At
<1>2. CASE call[c].gone
  BY <1>1, <1>2, RefuseInv DEF DeleteMember
<1>3. CASE ~call[c].gone
  <2> DEFINE o == call[c].org
             u == call[c].user
             Next1(d) == IF d = c THEN Done ELSE Forget(call[d], o, u)
  <2>1. /\ SetRole(o, u, "none") /\ UNCHANGED <<account, session, mail, key, history>>
        /\ call' = [d \in Calls |-> Next1(d)]
    BY <1>3 DEF DeleteMember
  <2>2. ASSUME NEW d \in Calls
        PROVE  /\ Next1(d) \in Request
               /\ d # c => /\ Next1(d).pc = call[d].pc /\ Next1(d).op = call[d].op
                           /\ Next1(d).user = call[d].user /\ Next1(d).org = call[d].org
                           /\ Next1(d).id = call[d].id /\ Next1(d).rows = call[d].rows
                           /\ RolesKept(call[d], Next1(d))
    <3>1. call[d] \in Request /\ Done \in Request
      BY Types, DoneType DEF Inv
    <3>2. call[d].roles \in [Users -> Roles \cup {"none"}]
      BY <3>1 DEF Request
    <3> DEFINE g == [call[d] EXCEPT !.gone = TRUE]
               f == [call[d].roles EXCEPT ![u] = "none"]
               h == [call[d] EXCEPT !.roles = f]
    <3>3. f \in [Users -> Roles \cup {"none"}] /\ \A v \in Users \ {u} : f[v] = call[d].roles[v]
      BY <3>2
    <3>4. /\ g \in Request /\ g.pc = call[d].pc /\ g.op = call[d].op
          /\ g.user = call[d].user /\ g.org = call[d].org /\ g.id = call[d].id
          /\ g.roles = call[d].roles /\ g.rows = call[d].rows
      BY <3>1 DEF Request
    <3> HIDE DEF f
    <3>5. /\ h \in Request /\ h.pc = call[d].pc /\ h.op = call[d].op
          /\ h.user = call[d].user /\ h.org = call[d].org /\ h.id = call[d].id
          /\ h.roles = f /\ h.rows = call[d].rows
      BY <3>1, <3>3 DEF Request
    <3>6. \/ d = c /\ Next1(d) = Done
          \/ d # c /\ Next1(d) \in {g, call[d]}
          \/ /\ d # c /\ Next1(d) = h /\ call[d].pc \in {"asked", "list"}
             /\ call[d].pc = "list" => call[d].user # u
      BY DEF Forget, f
    <3>7. call[d].pc = "list" => call[d].user \in Users
      BY DEF Inv, RequestOK
    <3> HIDE DEF g, h, Next1
    <3> QED
      BY <3>1, <3>3, <3>4, <3>5, <3>6, <3>7 DEF RolesKept
  <2>3. Next1(c) = Done
    OBVIOUS
  <2> HIDE DEF Next1
  <2>4. OthersSame(c) /\ call'[c] = Done
    BY <2>1, <2>2, <2>3 DEF OthersSame
  <2>5. RequestOK(call[c])' /\ call'[c].pc = "done"
    BY <2>4, DoneType DEF RequestOK
  <2> QED
    BY <1>1, <2>1, <2>4, <2>5, MembersOnly
<1> QED
  BY <1>2, <1>3

-----------------------------------------------------------------------------
(* The steps that write sessions. *)

With(s, x) == [session EXCEPT ![s].state = x]

LEMMA Rewritten ==
    ASSUME TypeOK, NEW s \in Sessions, NEW x \in {"revoked", "expired"}
    PROVE  /\ With(s, x) \in Seq(Session) /\ DOMAIN With(s, x) = Sessions
           /\ Len(With(s, x)) = Len(session)
           /\ \A t \in Sessions :
                /\ With(s, x)[t].user = session[t].user /\ With(s, x)[t].line = session[t].line
                /\ With(s, x)[t].after = session[t].after
                /\ With(s, x)[t].state = IF t = s THEN x ELSE session[t].state
<1> DEFINE r == [session[s] EXCEPT !.state = x]
<1>1. /\ r \in Session /\ r.user = session[s].user /\ r.line = session[s].line
      /\ r.after = session[s].after /\ r.state = x
  BY SessionType DEF Session
<1>2. With(s, x) = [session EXCEPT ![s] = r] /\ session \in Seq(Session)
  BY Types DEF With
<1> HIDE DEF r
<1>3. /\ [session EXCEPT ![s] = r] \in Seq(Session) /\ DOMAIN [session EXCEPT ![s] = r] = Sessions
      /\ Len([session EXCEPT ![s] = r]) = Len(session)
      /\ \A t \in Sessions : [session EXCEPT ![s] = r][t] = IF t = s THEN r ELSE session[t]
  BY <1>1, <1>2, Write DEF Sessions
<1>4. \A t \in Sessions : With(s, x)[t] = IF t = s THEN r ELSE session[t]
  BY <1>2, <1>3
<1> QED
  BY <1>1, <1>2, <1>3, <1>4

LEMMA IssuedType ==
    ASSUME TypeOK, NEW u \in Users, NEW l \in 1..MaxSessions
    PROVE  /\ Issued(u, l) \in Session /\ Issued(u, l).user = u /\ Issued(u, l).line = l
           /\ Issued(u, l).after = ResetsBegun(u) /\ Issued(u, l).state = "active"
<1> DEFINE R == {c \in Calls : Updating(c) /\ call[c].user = u}
<1>1. IsFiniteSet(R)
  BY AccountsAssumption, FS_Subset
<1>2. Cardinality(R) \in Nat
  BY <1>1, FS_CardinalityType
<1> HIDE DEF R
<1>3. account[u].resets \in Nat
  BY Types DEF Account
<1>4. ResetsBegun(u) \in Nat
  BY <1>2, <1>3 DEF ResetsBegun, R
<1> QED
  BY <1>4 DEF Issued, Session

\* What a step that writes only sessions has to show.
LEMMA SessionsOnly ==
    ASSUME Inv, UNCHANGED <<account, member, mail, key, respawned>>, LocksSame,
           call' \in [Calls -> Request], (\A d \in Calls : RequestOK(call[d]))',
           session' \in Seq(Session), Len(session') <= MaxSessions,
           Sessions \subseteq Sessions',
           forked' \subseteq 1..MaxSessions, ended' \subseteq 1..MaxSessions,
           \A s \in Sessions : /\ session'[s].user = session[s].user
                               /\ session'[s].after = session[s].after
                               /\ session'[s].state = "active" => session[s].state = "active",
           \A s \in Sessions' \ Sessions : /\ session'[s].user \in Users
                                          /\ session'[s].after = ResetsBegun(session'[s].user),
           LineOK'
    PROVE  Inv'
<1>1. ResetOK'
  BY ResetKeep
<1>2. KeyOK'
  BY KeySame
<1>3. TypeOK'
  BY Types, TypesNext DEF Inv
<1> QED
  BY <1>1, <1>2, <1>3 DEF Inv

LEMMA IssueTokensInv ==
    ASSUME Inv, NEW c \in Calls, IssueTokens(c)
    PROVE  Inv'
<1> DEFINE u == call[c].user
           n == Len(session) + 1
           r == Issued(u, n)
<1>1. /\ call[c].pc = "issue" /\ Len(session) < MaxSessions /\ session' = Append(session, r)
      /\ End(c) /\ UNCHANGED <<account, member, mail, key>>
      /\ UNCHANGED <<forked, ended, respawned>>
  BY DEF IssueTokens, history
<1>2. session \in Seq(Session) /\ Len(session) \in Nat /\ n \in 1..MaxSessions
  BY <1>1, Types, AccountsAssumption DEF Inv
<1>3. u \in Users
  BY <1>1 DEF Inv, RequestOK
<1>4. r \in Session /\ r.user = u /\ r.line = n /\ r.after = ResetsBegun(u)
  BY <1>2, <1>3, IssuedType DEF Inv
<1> HIDE DEF r
<1>5. /\ session' \in Seq(Session) /\ Len(session') = n /\ Sessions' = Sessions \cup {n}
      /\ n \notin Sessions /\ session'[n] = r /\ \A s \in Sessions : session'[s] = session[s]
  BY <1>1, <1>2, <1>4, Add DEF Sessions
<1>6. OthersSame(c) /\ RequestOK(call[c])' /\ call'[c].pc = "done"
  BY <1>1, Ends DEF Inv
<1>7. (\A d \in Calls : RequestOK(call[d]))' /\ LocksSame
  BY <1>1, <1>5, <1>6, RequestsKeep, LocksKept DEF Updating
<1>8. LineOK'
  <2>1. \A s \in Sessions : session[s].line # n
    BY <1>5 DEF Inv, LineOK
  <2>2. n \notin ended
    BY <1>5 DEF Inv, LineOK
  <2>3. \A t \in Sessions' : session'[t].line = n => t = n
    BY <1>5, <2>1
  <2>4. ended \subseteq Sessions
    BY DEF Inv, LineOK
  <2>5. Sessions' \ Sessions = {n} /\ session'[n].line = n /\ n \in Sessions'
    BY <1>4, <1>5
  <2>6. \A s \in Sessions' \ Sessions :
            /\ session'[s].line \in Sessions'
            /\ session'[s].line \notin forked' => session'[s].line \notin ended'
            /\ \A t \in Sessions' :
                  session'[t].state = "active" /\ session'[t].line = session'[s].line
                  /\ session'[s].line \notin forked' => t = s
    BY <1>1, <2>2, <2>3, <2>5
  <2>7. /\ Sessions \subseteq Sessions' /\ forked \subseteq forked' /\ ended \subseteq ended'
        /\ ended' \subseteq Sessions
        /\ \A s \in Sessions :
             /\ session'[s].line = session[s].line
             /\ session'[s].state = "active" => session[s].state = "active"
             /\ session'[s].state = "active" /\ session'[s].line \notin forked'
                /\ session'[s].line \in ended' => session'[s].line \in ended
    BY <1>1, <1>5, <2>4
  <2> QED
    BY <2>6, <2>7, LineKeep
<1>9. \A s \in Sessions' \ Sessions : /\ session'[s].user \in Users
                                     /\ session'[s].after = ResetsBegun(session'[s].user)
  <2>1. Sessions' \ Sessions = {n} /\ session'[n].user = u /\ session'[n].after = ResetsBegun(u)
    BY <1>4, <1>5
  <2> QED
    BY <1>3, <2>1
<1>10. /\ call' \in [Calls -> Request] /\ n <= MaxSessions
       /\ forked' \subseteq 1..MaxSessions /\ ended' \subseteq 1..MaxSessions
  BY <1>1, <1>2, <1>6, Types DEF Inv, OthersSame
<1>11. \A s \in Sessions : /\ session'[s].user = session[s].user
                           /\ session'[s].after = session[s].after
                           /\ session'[s].state = "active" => session[s].state = "active"
  BY <1>5
<1> QED
  BY <1>1, <1>5, <1>7, <1>8, <1>9, <1>10, <1>11, SessionsOnly

LEMMA RotateInv ==
    ASSUME Inv, NEW c \in Calls, Rotate(c)
    PROVE  Inv'
<1> DEFINE s == call[c].id
           l == session[s].line
           u == session[s].user
           n == Len(session) + 1
           q == With(s, "revoked")
           r == Issued(u, l)
<1>1. /\ call[c].pc = "read" /\ call[c].op = "refresh" /\ Len(session) < MaxSessions
      /\ session' = Append(q, r) /\ forked' = IF Active(s) THEN forked ELSE forked \cup {l}
      /\ End(c) /\ UNCHANGED <<account, member, mail, key, respawned>> /\ ended' = ended
  BY DEF Rotate, At, With
<1>2. s \in Sessions
  BY <1>1 DEF Inv, RequestOK
<1>3. /\ session \in Seq(Session) /\ Len(session) \in Nat /\ n \in 1..MaxSessions
      /\ l \in 1..MaxSessions /\ u \in Users /\ l \in Sessions
  BY <1>1, <1>2, Types, SessionType, AccountsAssumption DEF Inv, LineOK
<1>4. r \in Session /\ r.user = u /\ r.line = l /\ r.after = ResetsBegun(u)
  BY <1>3, IssuedType DEF Inv
<1>5. /\ q \in Seq(Session) /\ DOMAIN q = Sessions /\ Len(q) = Len(session)
      /\ \A t \in Sessions :
           /\ q[t].user = session[t].user /\ q[t].line = session[t].line
           /\ q[t].after = session[t].after
           /\ q[t].state = IF t = s THEN "revoked" ELSE session[t].state
  BY <1>2, Rewritten DEF Inv
<1> HIDE DEF q, r
<1>6. /\ session' \in Seq(Session) /\ Len(session') = n /\ Sessions' = Sessions \cup {n}
      /\ n \notin Sessions /\ session'[n] = r /\ \A t \in Sessions : session'[t] = q[t]
  <2>1. /\ Append(q, r) \in Seq(Session) /\ Len(Append(q, r)) = Len(q) + 1
        /\ DOMAIN q = 1..Len(q) /\ DOMAIN Append(q, r) = 1..(Len(q) + 1)
        /\ Append(q, r)[Len(q) + 1] = r /\ \A j \in DOMAIN q : Append(q, r)[j] = q[j]
    BY <1>4, <1>5, Add
  <2> QED
    BY <1>1, <1>3, <1>5, <2>1 DEF Sessions
<1>7. \A t \in Sessions : /\ session'[t].user = session[t].user
                          /\ session'[t].line = session[t].line
                          /\ session'[t].after = session[t].after
                          /\ session'[t].state = "active" => t # s /\ session[t].state = "active"
  BY <1>5, <1>6
<1>8. OthersSame(c) /\ RequestOK(call[c])' /\ call'[c].pc = "done"
  BY <1>1, Ends DEF Inv
<1>9. (\A d \in Calls : RequestOK(call[d]))' /\ LocksSame
  BY <1>1, <1>6, <1>8, RequestsKeep, LocksKept DEF Updating
<1>10. LineOK'
  <2>1. Sessions' \ Sessions = {n} /\ session'[n].line = l /\ n \in Sessions' /\ l \in Sessions'
    BY <1>3, <1>4, <1>6
  <2>2. l \notin forked' => Active(s) /\ l \notin forked /\ l \notin ended'
    BY <1>1, <1>2 DEF Inv, LineOK
  <2>3. \A t \in Sessions : session'[t].state = "active" /\ session'[t].line = l => l \in forked'
    BY <1>2, <1>7, <2>2 DEF Inv, LineOK, Active
  <2>4. \A t \in Sessions' :
            session'[t].state = "active" /\ session'[t].line = l /\ l \notin forked' => t = n
    BY <1>6, <2>3
  <2>5. \A t \in Sessions' \ Sessions :
            /\ session'[t].line \in Sessions'
            /\ session'[t].line \notin forked' => session'[t].line \notin ended'
            /\ \A v \in Sessions' :
                  session'[v].state = "active" /\ session'[v].line = session'[t].line
                  /\ session'[t].line \notin forked' => v = t
    BY <2>1, <2>2, <2>4
  <2>6. /\ Sessions \subseteq Sessions' /\ forked \subseteq forked' /\ ended \subseteq ended'
        /\ ended' \subseteq Sessions
    BY <1>1, <1>6 DEF Inv, LineOK
  <2>7. \A t \in Sessions :
            /\ session'[t].line = session[t].line
            /\ session'[t].state = "active" => session[t].state = "active"
            /\ session'[t].state = "active" /\ session'[t].line \notin forked'
               /\ session'[t].line \in ended' => session'[t].line \in ended
    BY <1>1, <1>7
  <2> QED
    BY <2>5, <2>6, <2>7, LineKeep
<1>11. \A t \in Sessions' \ Sessions : /\ session'[t].user \in Users
                                      /\ session'[t].after = ResetsBegun(session'[t].user)
  <2>1. Sessions' \ Sessions = {n} /\ session'[n].user = u /\ session'[n].after = ResetsBegun(u)
    BY <1>4, <1>6
  <2> QED
    BY <1>3, <2>1
<1>12. /\ call' \in [Calls -> Request] /\ n <= MaxSessions
       /\ forked' \subseteq 1..MaxSessions /\ ended' \subseteq 1..MaxSessions
  BY <1>1, <1>3, <1>8, Types DEF Inv, OthersSame
<1>13. \A t \in Sessions : /\ session'[t].user = session[t].user
                           /\ session'[t].after = session[t].after
                           /\ session'[t].state = "active" => session[t].state = "active"
  BY <1>7
<1> QED
  BY <1>1, <1>6, <1>9, <1>10, <1>11, <1>12, <1>13, SessionsOnly

\* One session ends; its line does too, if it was active and logged out.
LEMMA OneEnds ==
    ASSUME Inv, NEW s \in Sessions, NEW x \in {"revoked", "expired"},
           session' = [session EXCEPT ![s].state = x],
           ended' = ended \/ (Active(s) /\ ended' = ended \cup {session[s].line}),
           UNCHANGED <<account, member, mail, key, forked, respawned>>, LocksSame,
           call' \in [Calls -> Request],
           Sessions' = Sessions => (\A d \in Calls : RequestOK(call[d]))'
    PROVE  Inv'
<1>1. /\ session' \in Seq(Session) /\ Sessions' = Sessions /\ Len(session') = Len(session)
      /\ \A t \in Sessions :
           /\ session'[t].user = session[t].user /\ session'[t].line = session[t].line
           /\ session'[t].after = session[t].after
           /\ session'[t].state = IF t = s THEN x ELSE session[t].state
  <2>1. session' = With(s, x)
    BY DEF With
  <2>2. /\ With(s, x) \in Seq(Session) /\ DOMAIN With(s, x) = Sessions
        /\ Len(With(s, x)) = Len(session)
        /\ \A t \in Sessions :
             /\ With(s, x)[t].user = session[t].user /\ With(s, x)[t].line = session[t].line
             /\ With(s, x)[t].after = session[t].after
             /\ With(s, x)[t].state = IF t = s THEN x ELSE session[t].state
    BY Rewritten DEF Inv
  <2> QED
    BY <2>1, <2>2 DEF Sessions
<1>2. \A t \in Sessions : session'[t].state = "active" => t # s /\ session[t].state = "active"
  BY <1>1
<1>3. LineOK'
  <2>1. ended' \subseteq Sessions /\ ended \subseteq ended'
    BY DEF Inv, LineOK
  <2>2. \A t \in Sessions : session'[t].state = "active" /\ session'[t].line \notin forked'
            /\ session'[t].line \in ended' => session'[t].line \in ended
    BY <1>1, <1>2 DEF Inv, LineOK, Active
  <2> QED
    BY <1>1, <1>2, <2>1, <2>2, LineKeep
<1>4. /\ Len(session') <= MaxSessions /\ forked' \subseteq 1..MaxSessions
      /\ ended' \subseteq 1..MaxSessions
  BY <1>1, SessionType, Types DEF Inv
<1> QED
  BY <1>1, <1>2, <1>3, <1>4, SessionsOnly

LEMMA EndSessionInv ==
    ASSUME Inv, NEW c \in Calls, EndSession(c)
    PROVE  Inv'
<1> DEFINE s == call[c].id
<1>1. /\ call[c].pc = "read" /\ call[c].op = "logout" /\ End(c)
      /\ session' = [session EXCEPT ![s].state = "revoked"]
      /\ ended' = IF Active(s) THEN ended \cup {session[s].line} ELSE ended
      /\ UNCHANGED <<account, member, mail, key, forked, respawned>>
  BY DEF EndSession, At
<1>2. s \in Sessions
  BY <1>1 DEF Inv, RequestOK
<1>3. OthersSame(c) /\ RequestOK(call[c])' /\ call'[c].pc = "done"
  BY <1>1, Ends DEF Inv
<1>4. LocksSame /\ call' \in [Calls -> Request]
  BY <1>1, <1>3, LocksKept DEF OthersSame, Updating
<1>5. Sessions' = Sessions => (\A d \in Calls : RequestOK(call[d]))'
  BY <1>1, <1>3, RequestsKeep
<1> HIDE DEF s
<1> QED
  BY <1>1, <1>2, <1>4, <1>5, OneEnds

LEMMA ExpireSessionInv ==
    ASSUME Inv, NEW s \in Sessions, ExpireSession(s)
    PROVE  Inv'
<1>1. /\ session' = [session EXCEPT ![s].state = "expired"] /\ ended' = ended /\ call' = call
      /\ UNCHANGED <<account, member, mail, key, forked, respawned>>
  BY DEF ExpireSession, history
<1>2. LocksSame /\ call' \in [Calls -> Request]
  BY <1>1, Types DEF Inv, LocksSame, Updating
<1>3. Sessions' = Sessions => (\A d \in Calls : RequestOK(call[d]))'
  BY <1>1 DEF Inv, RequestOK
<1> QED
  BY <1>1, <1>2, <1>3, OneEnds

-----------------------------------------------------------------------------
(* Resets. *)

LEMMA MailRewritten ==
    ASSUME TypeOK, NEW m \in DOMAIN mail, NEW x \in {"active", "used"}
    PROVE  /\ [mail EXCEPT ![m].state = x] \in Seq(Mail)
           /\ DOMAIN [mail EXCEPT ![m].state = x] = DOMAIN mail
<1> DEFINE r == [mail[m] EXCEPT !.state = x]
<1>1. r \in Mail
  BY MailType DEF Mail
<1>2. [mail EXCEPT ![m].state = x] = [mail EXCEPT ![m] = r] /\ mail \in Seq(Mail)
  BY Types
<1> HIDE DEF r
<1> QED
  BY <1>1, <1>2, Write

\* A reset gets on with its UPDATE: the active sessions of its user that it
\* passes over are those it has passed over before.
LEMMA Resetting ==
    ASSUME Inv, NEW c \in Calls, NEW pc \in {"update", "locked"}, NEW R \in SUBSET Sessions,
           call[c].pc \in {"read", "update"}, call[c].op = "reset",
           call' = [call EXCEPT ![c].pc = pc, ![c].rows = R],
           UNCHANGED <<tables, history>>,
           \A s \in Sessions : Active(s) /\ session[s].user = call[c].user =>
               (s \in R <=> call[c].pc = "read" \/ s \in call[c].rows)
    PROVE  Inv'
<1> DEFINE u == call[c].user
           r == [call[c] EXCEPT !.pc = pc, !.rows = R]
<1>1. call[c] \in Request /\ RequestOK(call[c]) /\ session \in Seq(Session)
      /\ Len(session) <= MaxSessions
  BY Types DEF Inv
<1>2. Sessions \subseteq 1..MaxSessions
  BY <1>1, AccountsAssumption DEF Sessions
<1>3. r \in Request /\ r.pc = pc /\ r.rows = R /\ r.user = u /\ r.op = "reset" /\ r.id = call[c].id
  BY <1>1, <1>2 DEF Request
<1>4. call' = [call EXCEPT ![c] = r]
  BY <1>1, Types DEF Inv
<1> HIDE DEF r
<1>5. OthersSame(c) /\ call'[c] = r
  BY <1>3, <1>4, PatchType DEF Inv
<1>6. UNCHANGED <<account, member, session, mail, key, forked, ended, respawned>>
  BY DEF tables, history
<1>7. RequestOK(call[c])'
  BY <1>1, <1>3, <1>5, <1>6 DEF RequestOK, Sessions
<1>8. (\A d \in Calls : RequestOK(call[d]))'
  BY <1>5, <1>6, <1>7, RequestsKeep DEF Sessions
<1>9. ResetOK'
  <2> SUFFICES ASSUME NEW s \in Sessions, session[s].state = "active"
               PROVE  session[s].after >= account[session[s].user].resets
                                            + Cardinality(Missing(s)')
    BY <1>6 DEF ResetOK, Active, Sessions
  <2>1. session[s].user = u => (s \in R <=> call[c].pc = "read" \/ s \in call[c].rows)
    BY DEF Active
  <2>2. \A d \in Calls : d \in Missing(s)' <=> d \in Missing(s)
    BY <1>3, <1>5, <1>6, <2>1 DEF Missing, OthersSame, Updating
  <2>3. Missing(s)' = Missing(s)
    BY <2>2 DEF Missing
  <2> QED
    BY <2>3 DEF Inv, ResetOK, Active
<1>10. LineOK' /\ KeyOK'
  BY <1>6, KeySame DEF Inv, LineOK, Sessions, Active
<1>11. TypeOK'
  BY <1>5, <1>6, Types, TypesNext DEF Inv, OthersSame
<1> QED
  BY <1>8, <1>9, <1>10, <1>11 DEF Inv

LEMMA RevokeAllInv ==
    ASSUME Inv, NEW c \in Calls, RevokeAll(c)
    PROVE  Inv'
<1> DEFINE R == Unrevoked(call[c].user)
<1>1. /\ call[c].pc = "read" /\ call[c].op = "reset" /\ UNCHANGED <<tables, history>>
      /\ call' = [call EXCEPT ![c].pc = "update", ![c].rows = R]
  BY DEF RevokeAll, At
<1>2. R \in SUBSET Sessions
      /\ \A s \in Sessions : Active(s) /\ session[s].user = call[c].user => s \in R
  BY DEF Unrevoked, Active
<1> HIDE DEF R
<1> QED
  BY <1>1, <1>2, Resetting

LEMMA LockRowsInv ==
    ASSUME Inv, NEW c \in Calls, LockRows(c)
    PROVE  Inv'
<1> DEFINE R == call[c].rows \cap Unrevoked(call[c].user)
<1>1. /\ call[c].pc = "update" /\ call[c].op = "reset" /\ UNCHANGED <<tables, history>>
      /\ call' = [call EXCEPT ![c].pc = "locked", ![c].rows = R]
  BY DEF LockRows, At
<1>2. R \in SUBSET Sessions
      /\ \A s \in Sessions : Active(s) /\ session[s].user = call[c].user =>
             (s \in R <=> s \in call[c].rows)
  BY DEF Unrevoked, Active
<1> HIDE DEF R
<1> QED
  BY <1>1, <1>2, Resetting

LEMMA CommitResetInv ==
    ASSUME Inv, NEW c \in Calls, CommitReset(c)
    PROVE  Inv'
<1> DEFINE u == call[c].user
           locks == call[c].rows
           m == call[c].id
           f == [s \in Sessions |-> IF s \in locks THEN [session[s] EXCEPT !.state = "revoked"]
                                    ELSE session[s]]
           a == [account[u] EXCEPT !.password = TRUE, !.resets = @ + 1]
<1>1. /\ call[c].pc = "locked" /\ call[c].op = "reset" /\ End(c) /\ session' = f
      /\ ended' = ended \cup {session[s].line : s \in {t \in locks : Active(t)}}
      /\ mail' = [mail EXCEPT ![m].state = "used"]
      /\ account' = [account EXCEPT ![u].password = TRUE, ![u].resets = @ + 1]
      /\ UNCHANGED <<member, key, forked, respawned>>
  BY DEF CommitReset, At
<1>2. u \in Users /\ locks \subseteq Sessions /\ m \in DOMAIN mail
  BY <1>1 DEF Inv, RequestOK
<1>3. ASSUME NEW s \in Sessions
      PROVE  /\ f[s] \in Session /\ f[s].user = session[s].user /\ f[s].line = session[s].line
             /\ f[s].after = session[s].after
             /\ f[s].state = IF s \in locks THEN "revoked" ELSE session[s].state
  <2> DEFINE r == [session[s] EXCEPT !.state = "revoked"]
  <2>1. /\ r \in Session /\ r.user = session[s].user /\ r.line = session[s].line
        /\ r.after = session[s].after /\ r.state = "revoked" /\ session[s] \in Session
    BY SessionType DEF Inv, Session
  <2>2. f[s] = IF s \in locks THEN r ELSE session[s]
    OBVIOUS
  <2> HIDE DEF f, r
  <2> QED
    BY <2>1, <2>2
<1>4. DOMAIN f = Sessions
  OBVIOUS
<1>5. session \in Seq(Session) /\ Len(session) \in Nat /\ Sessions = 1..Len(session)
  BY Types DEF Inv, Sessions
<1> HIDE DEF f
<1>6. f \in Seq(Session) /\ Len(f) = Len(session)
  <2>1. f \in [1..Len(session) -> Session]
    <3>1. f = [s \in 1..Len(session) |-> f[s]]
      BY <1>5 DEF f
    <3> QED
      BY <1>3, <1>5, <3>1
  <2> QED
    BY <1>5, <2>1
<1>7. /\ session' \in Seq(Session) /\ Len(session') = Len(session) /\ Sessions' = Sessions
      /\ \A s \in Sessions :
           /\ session'[s].user = session[s].user /\ session'[s].line = session[s].line
           /\ session'[s].after = session[s].after
           /\ session'[s].state = "active" => s \notin locks /\ session[s].state = "active"
  BY <1>1, <1>3, <1>4, <1>6 DEF Sessions
<1>8. account' \in [Users -> Account]
      /\ \A v \in Users : account'[v].resets = IF v = u THEN account[u].resets + 1
                                                ELSE account[v].resets
  <2>1. account[u] \in Account /\ account \in [Users -> Account]
    BY <1>2, Types DEF Inv
  <2> DEFINE k == account[u].resets + 1
  <2>2. a \in Account /\ a.resets = k
    <3>1. k \in Nat
      BY <2>1 DEF Account
    <3>2. a = [account[u] EXCEPT !.password = TRUE, !.resets = k]
      OBVIOUS
    <3> HIDE DEF a, k
    <3> QED
      BY <2>1, <3>1, <3>2 DEF Account
  <2>3. account' = [account EXCEPT ![u] = a]
    BY <1>1, <1>2, <2>1
  <2> HIDE DEF a
  <2> QED
    BY <1>2, <2>1, <2>2, <2>3
<1>9. mail' \in Seq(Mail) /\ DOMAIN mail' = DOMAIN mail
  BY <1>1, <1>2, MailRewritten DEF Inv
<1>10. OthersSame(c) /\ call'[c].pc = "done" /\ RequestOK(call[c])'
  BY <1>1, Ends DEF Inv
<1>11. (\A d \in Calls : RequestOK(call[d]))'
  BY <1>7, <1>9, <1>10, RequestsKeep
<1>12. ResetOK'
  <2> SUFFICES ASSUME NEW s \in Sessions, session'[s].state = "active"
               PROVE  session'[s].after >= account'[session'[s].user].resets
                                             + Cardinality(Missing(s)')
    BY <1>7 DEF ResetOK, Active
  <2>1. /\ session[s].state = "active" /\ s \notin locks /\ session'[s].user = session[s].user
        /\ session'[s].after = session[s].after
    BY <1>7
  <2>2. /\ session[s].user \in Users /\ session[s].after \in Nat
        /\ account[session[s].user].resets \in Nat
    BY SessionType DEF Inv
  <2>3. session[s].after >= account[session[s].user].resets + Cardinality(Missing(s))
    BY <2>1 DEF Inv, ResetOK, Active
  <2>4. Missing(s)' = Missing(s) \ {c}
    BY <1>1, <1>10, <2>1 DEF Missing, OthersSame, Updating
  <2>5. IsFiniteSet(Missing(s))
    BY AccountsAssumption, FS_Subset DEF Missing
  <2>6. Cardinality(Missing(s)) \in Nat
    BY <2>5, FS_CardinalityType
  <2>7. CASE session[s].user = u
    <3>1. c \in Missing(s)
      BY <1>1, <2>1, <2>7 DEF Missing, Updating
    <3>2. Cardinality(Missing(s) \ {c}) = Cardinality(Missing(s)) - 1
      BY <2>5, <3>1, FS_RemoveElement
    <3> QED
      BY <1>8, <2>1, <2>2, <2>3, <2>4, <2>6, <2>7, <3>2
  <2>8. CASE session[s].user # u
    <3>1. Missing(s) \ {c} = Missing(s)
      BY <2>8 DEF Missing
    <3> QED
      BY <1>8, <2>1, <2>2, <2>3, <2>4, <2>8, <3>1
  <2> QED
    BY <2>7, <2>8
<1>13. LineOK'
  <2>1. ended' \subseteq Sessions /\ ended \subseteq ended'
    BY <1>1, <1>2 DEF Inv, LineOK
  <2>2. \A s \in Sessions : session'[s].state = "active" /\ session'[s].line \notin forked'
            /\ session'[s].line \in ended' => session'[s].line \in ended
    <3> SUFFICES ASSUME NEW s \in Sessions, session'[s].state = "active",
                        session'[s].line \notin forked', session'[s].line \in ended',
                        session'[s].line \notin ended
                 PROVE  FALSE
      OBVIOUS
    <3>1. PICK t \in locks : Active(t) /\ session'[s].line = session[t].line
      BY <1>1
    <3>2. Active(s) /\ s \notin locks /\ session[s].line = session[t].line
          /\ session[s].line \notin forked
      BY <1>1, <1>7, <3>1 DEF Active
    <3> QED
      BY <1>2, <3>1, <3>2 DEF Inv, LineOK
  <2> QED
    BY <1>1, <1>7, <2>1, <2>2, LineKeep
<1>14. KeyOK'
  BY <1>1, KeySame
<1>15. TypeOK'
  <2>1. ended' \subseteq 1..MaxSessions
    BY <1>1, <1>2, SessionType, Types DEF Inv
  <2> QED
    BY <1>1, <1>7, <1>8, <1>9, <1>10, <2>1, Types, TypesNext DEF Inv, OthersSame
<1> QED
  BY <1>11, <1>12, <1>13, <1>14, <1>15 DEF Inv

-----------------------------------------------------------------------------
(* The theorems. *)

LEMMA InitInv == Init => Inv
<1> SUFFICES ASSUME Init PROVE Inv
  OBVIOUS
<1> DEFINE s1 == [user |-> Founder, state |-> "active", line |-> 1, after |-> 0]
           m1 == [user |-> Founder, state |-> "active"]
           k1 == [org |-> Founder, active |-> TRUE, line |-> 1]
<1>1. session = <<s1>> /\ mail = <<m1>> /\ key = <<k1>> /\ call = [c \in Calls |-> NoCall]
      /\ forked = {} /\ ended = {} /\ respawned = {}
  BY DEF Init
<1>2. Founder \in Users /\ 1 \in 1..MaxSessions /\ 1 <= MaxSessions
  BY AccountsAssumption
<1>3. s1 \in Session /\ m1 \in Mail /\ k1 \in Key
      /\ s1.user = Founder /\ s1.line = 1 /\ s1.after = 0 /\ k1.line = 1
  BY <1>2 DEF Session, Mail, Key
<1>0. PICK E \in SUBSET Users :
       /\ account = [u \in Users |-> [here |-> u \in E, password |-> u \in E,
                                      linked |-> FALSE, resets |-> 0]]
       /\ member = [o \in Users |-> [u \in Users |->
                       IF u \in E /\ o \in {u, Founder} THEN "owner" ELSE "none"]]
  BY DEF Init
<1>4. account \in [Users -> Account] /\ \A u \in Users : account[u].resets = 0
  BY <1>0 DEF Account
<1>5. member \in [Users -> [Users -> Roles \cup {"none"}]]
  BY <1>0 DEF Roles
<1> HIDE DEF s1, m1, k1
<1>6. /\ session \in Seq(Session) /\ Len(session) = 1 /\ Sessions = {1} /\ session[1] = s1
      /\ mail \in Seq(Mail) /\ key \in Seq(Key) /\ DOMAIN key = {1} /\ key[1] = k1
  BY <1>1, <1>3 DEF Sessions
<1>7. /\ call \in [Calls -> Request]
      /\ \A c \in Calls : RequestOK(call[c]) /\ call[c].pc = "idle"
  BY <1>1, DoneType
<1>8. TypeOK
  BY <1>1, <1>2, <1>4, <1>5, <1>6, <1>7, Types
<1>9. ResetOK
  <2>1. \A s \in Sessions : Missing(s) = {}
    BY <1>7 DEF Missing, Updating
  <2>2. Cardinality({}) = 0
    BY FS_EmptySet
  <2>3. ASSUME NEW s \in Sessions
        PROVE  session[s].after >= account[session[s].user].resets + Cardinality(Missing(s))
    <3>1. session[s].after = 0 /\ session[s].user = Founder
      BY <1>3, <1>6
    <3>2. account[Founder].resets = 0
      BY <1>2, <1>4
    <3> QED
      BY <2>1, <2>2, <3>1, <3>2
  <2> QED
    BY <2>3 DEF ResetOK
<1>10. LineOK /\ KeyOK
  BY <1>1, <1>3, <1>6 DEF LineOK, KeyOK
<1> QED
  BY <1>7, <1>8, <1>9, <1>10 DEF Inv

LEMMA NextInv ==
    ASSUME Inv, [Next]_vars
    PROVE  Inv'
<1>1. ASSUME NEW c \in Calls, Begin(c) PROVE Inv'
  <2>1. \/ Opens(c)
        \/ \E u \in Users : Forgot(c, u)
        \/ \E o \in Users : CreateKey(c, o)
        \/ \E k \in DOMAIN key : RevokeKey(c, k) \/ RotateKey(c, k)
    BY <1>1, BeginOpens DEF Inv
  <2> QED
    BY <2>1, OpensInv, ForgotInv, CreateKeyInv, RevokeKeyInv, RotateKeyInv
<1>2. ASSUME NEW c \in Calls, Proceed(c) PROVE Inv'
  BY <1>2, CreateAccountInv, LinkIdentityInv, IssueTokensInv, RotateInv, EndSessionInv,
     RevokeAllInv, LockRowsInv, CommitResetInv, ReadMemberInv, ListMembersInv, MemberInv,
     DeleteMemberInv DEF Proceed
<1>3. ASSUME NEW s \in Sessions, ExpireSession(s) PROVE Inv'
  BY <1>3, ExpireSessionInv
<1>4. CASE UNCHANGED vars
  <2>1. UNCHANGED <<account, member, session, mail, key, call, forked, ended, respawned>>
    BY <1>4 DEF vars
  <2>2. LineOK' /\ ResetOK' /\ Sessions' = Sessions
    BY <2>1, SessionsSame DEF LocksSame, Updating
  <2>3. (\A d \in Calls : RequestOK(call[d]))'
    BY <2>1, <2>2 DEF Inv, RequestOK
  <2>4. TypeOK' /\ KeyOK'
    BY <2>1, KeySame, Types, TypesNext DEF Inv
  <2> QED
    BY <2>2, <2>3, <2>4 DEF Inv
<1> QED
  BY <1>1, <1>2, <1>3, <1>4 DEF Next

LEMMA Invariance == Spec => []Inv
<1>1. Init => Inv
  BY InitInv
<1>2. Inv /\ [Next]_vars => Inv'
  BY NextInv
<1> QED
  BY <1>1, <1>2, PTL DEF Spec

\* Every reachable state has the values that the tables and the requests admit.
THEOREM TypesHold == Spec => []TypeOK
<1>1. Inv => TypeOK
  BY DEF Inv
<1> QED
  BY <1>1, Invariance, PTL

\* A password reset ends every session that was there when its UPDATE began,
\* however many requests interleave with it (AuthService.reset_password):
\* ResetEndsSessions counts the resets that are committed, the invariant also
\* those whose UPDATE has begun and will revoke the rows it saw.
THEOREM ResetEndsSessionsHolds == Spec => []ResetEndsSessions
<1>1. ASSUME Inv PROVE ResetEndsSessions
  <2> SUFFICES ASSUME NEW s \in Sessions, Active(s)
               PROVE  session[s].after >= account[session[s].user].resets
    BY DEF ResetEndsSessions
  <2>1. session[s].after >= account[session[s].user].resets + Cardinality(Missing(s))
    BY <1>1 DEF Inv, ResetOK
  <2>2. IsFiniteSet(Missing(s))
    BY AccountsAssumption, FS_Subset DEF Missing
  <2>3. Cardinality(Missing(s)) \in Nat
    BY <2>2, FS_CardinalityType
  <2>4. session[s].after \in Nat /\ account[session[s].user].resets \in Nat
    BY <1>1, SessionType DEF Inv
  <2> QED
    BY <2>1, <2>3, <2>4
<1> QED
  BY <1>1, Invariance, PTL

LEMMA AtMostOne ==
    ASSUME NEW S, \A s, t \in S : s = t
    PROVE  Cardinality(S) <= 1
<1>1. CASE S = {}
  BY <1>1, FS_EmptySet
<1>2. CASE S # {}
  <2>1. PICK s \in S : TRUE
    BY <1>2
  <2>2. S = {s}
    BY <2>1
  <2>3. Cardinality({s}) = 1
    BY FS_Singleton
  <2> QED
    BY <2>2, <2>3
<1> QED
  BY <1>1, <1>2

\* Of the sessions that descend from one sign-in at most one works, and none
\* once it was logged out or reset, unless a refresh had read its token before
\* somebody ended it (AuthService.refresh); of the keys that descend from one at
\* most one works, unless one was rotated after it was revoked
\* (ApiKeyService.rotate).
THEOREM OneCredentialPerLineHolds == Spec => []OneCredentialPerLine
<1>1. ASSUME Inv PROVE OneCredentialPerLine
  <2>1. ASSUME NEW l \in Sessions \ forked
        PROVE  Cardinality(LineSessions(l)) <= 1 /\ (l \in ended => LineSessions(l) = {})
    <3>1. \A s, t \in LineSessions(l) : s = t
      BY <1>1 DEF Inv, LineOK, LineSessions
    <3>2. Cardinality(LineSessions(l)) <= 1
      BY <3>1, AtMostOne
    <3>3. l \in ended => LineSessions(l) = {}
      BY <1>1 DEF Inv, LineOK, LineSessions
    <3> QED
      BY <3>2, <3>3
  <2>2. ASSUME NEW l \in (DOMAIN key) \ respawned PROVE Cardinality(LineKeys(l)) <= 1
    <3>1. \A j, k \in LineKeys(l) : j = k
      BY <1>1 DEF Inv, KeyOK, LineKeys
    <3> QED
      BY <3>1, AtMostOne
  <2> QED
    BY <2>1, <2>2 DEF OneCredentialPerLine
<1> QED
  BY <1>1, Invariance, PTL

-----------------------------------------------------------------------------
(* Owners. *)

OwnerLost(o) == Owners(o) # {} /\ Owners(o)' = {}
Excused(o) ==
    \E c \in Calls :
       /\ call[c].org = o /\ call'[c].pc = "done"
       /\ \/ call[c].op = "role"
          \/ call[c].op = "remove" /\ \E v \in Users : Misjudges(c, v)

\* Only two operations can take the role of an owner away.
LEMMA OwnersKept ==
    ASSUME NEW o \in Users, \A u \in Users : member[o][u] = "owner" => member'[o][u] = "owner"
    PROVE  ~OwnerLost(o)
  BY DEF OwnerLost, Owners

LEMMA BeginKeepsMembers ==
    ASSUME Inv, NEW c \in Calls, Begin(c)
    PROVE  UNCHANGED member
  BY BeginOpens DEF Inv, Opens, tables, Forgot, CreateKey, RevokeKey, RotateKey

LEMMA OwnerStep ==
    ASSUME Inv, NEW o \in Users, NEW c \in Calls, Proceed(c), OwnerLost(o)
    PROVE  Excused(o)
<1>1. member \in [Users -> [Users -> Roles \cup {"none"}]] /\ call[c] \in Request
  BY Types DEF Inv
<1> DEFINE p == call[c].org
           u == call[c].user
           Writes(role) == member' = [member EXCEPT ![p][u] = role]
<1>2. ASSUME NEW role, Writes(role), p \in Users, u \in Users
      PROVE  /\ p = o /\ member[o][u] = "owner" /\ role # "owner"
             /\ \A v \in Users \ {u} : member[o][v] # "owner"
  <2>1. \A v \in Users : member'[o][v] = IF o = p /\ v = u THEN role ELSE member[o][v]
    BY <1>1, <1>2
  <2>2. \A v \in Users : member'[o][v] # "owner"
    BY DEF OwnerLost, Owners
  <2>3. \E v \in Users : member[o][v] = "owner"
    BY DEF OwnerLost, Owners
  <2> QED
    BY <2>1, <2>2, <2>3
<1>3. CASE UNCHANGED member
  BY <1>3 DEF OwnerLost, Owners
<1>4. CASE CreateAccount(c) \/ LinkIdentity(c)
  <2>1. u \in Users
    BY <1>4 DEF Inv, RequestOK, CreateAccount, LinkIdentity, At
  <2>2. UNCHANGED member \/ member' = [member EXCEPT ![u][u] = "owner"]
    BY <1>4 DEF CreateAccount, LinkIdentity, Found, Refuse, tables
  <2>3. \A v \in Users : member[o][v] = "owner" => member'[o][v] = "owner"
    BY <1>1, <2>1, <2>2
  <2> QED
    BY <2>3, OwnersKept
<1>5. CASE InsertMember(c)
  <2>1. p \in Users /\ u \in Users
    BY <1>5 DEF Inv, RequestOK, InsertMember, At
  <2>2. UNCHANGED member \/ (member[p][u] = "none" /\ Writes(call[c].role))
    BY <1>5 DEF InsertMember, Refuse, tables, SetRole
  <2> QED
    BY <1>2, <1>3, <2>1, <2>2
<1>6. CASE WriteRole(c)
  <2>1. p \in Users /\ u \in Users /\ call[c].op = "role"
    BY <1>6 DEF Inv, RequestOK, WriteRole, At
  <2>2. UNCHANGED member \/ (End(c) /\ Writes(call[c].role))
    BY <1>6 DEF WriteRole, Refuse, tables, SetRole
  <2>3. End(c) => call'[c].pc = "done"
    BY Ends DEF Inv
  <2> QED
    BY <1>2, <1>3, <2>1, <2>2, <2>3 DEF Excused
<1>7. CASE DeleteMember(c)
  <2>1. /\ p \in Users /\ u \in Users /\ call[c].op = "remove"
        /\ call[c].roles[u] # "none"
        /\ call[c].roles[u] = "owner" => \E v \in Users \ {u} : call[c].roles[v] = "owner"
    BY <1>7 DEF Inv, RequestOK, Granted, DeleteMember, At
  <2>2. UNCHANGED member \/ (call'[c] = Done /\ Writes("none"))
    BY <1>7 DEF DeleteMember, Refuse, tables, SetRole
  <2>3. Writes("none") => p = o /\ \E v \in Users : Misjudges(c, v)
    <3> SUFFICES ASSUME Writes("none")
                 PROVE  p = o /\ \E v \in Users : Misjudges(c, v)
      OBVIOUS
    <3>1. p = o /\ member[o][u] = "owner" /\ \A v \in Users \ {u} : member[o][v] # "owner"
      BY <1>2, <2>1
    <3>2. CASE call[c].roles[u] = "owner"
      BY <2>1, <3>1, <3>2 DEF Misjudges
    <3>3. CASE call[c].roles[u] # "owner"
      BY <2>1, <3>1, <3>3 DEF Misjudges
    <3> QED
      BY <3>1, <3>2, <3>3
  <2> QED
    BY <1>3, <2>1, <2>2, <2>3, DoneType DEF Excused
<1>8. CASE \/ IssueTokens(c) \/ Rotate(c) \/ EndSession(c) \/ RevokeAll(c) \/ LockRows(c)
            \/ CommitReset(c) \/ ReadMember(c) \/ ListMembers(c)
  <2>1. UNCHANGED member
    BY <1>8 DEF IssueTokens, Rotate, EndSession, RevokeAll, LockRows, CommitReset, ReadMember,
                ListMembers, Refuse, tables
  <2> QED
    BY <1>3, <2>1
<1> QED
  BY <1>4, <1>5, <1>6, <1>7, <1>8 DEF Proceed

\* An organisation loses its last owner only through a change of role, which
\* nothing checks, or through a removal that took somebody for an owner who is
\* none any more, or the reverse (remove_member and update_member_role).
THEOREM OwnerStaysHolds == Spec => OwnerStays
<1>1. ASSUME Inv, [Next]_vars, NEW o \in Users, OwnerLost(o) PROVE Excused(o)
  <2>1. ASSUME UNCHANGED member PROVE FALSE
    BY <1>1, <2>1 DEF OwnerLost, Owners
  <2>2. ASSUME NEW c \in Calls, Begin(c) PROVE FALSE
    BY <1>1, <2>1, <2>2, BeginKeepsMembers
  <2>3. ASSUME NEW c \in Calls, Proceed(c) PROVE Excused(o)
    BY <1>1, <2>3, OwnerStep
  <2>4. (\E s \in Sessions : ExpireSession(s)) \/ UNCHANGED vars => UNCHANGED member
    BY DEF ExpireSession, vars
  <2> QED
    BY <1>1, <2>1, <2>2, <2>3, <2>4 DEF Next
<1>2. Inv /\ [Next]_vars =>
        [\A o \in Users : Owners(o) # {} /\ Owners(o)' = {} =>
            \E c \in Calls :
               /\ call[c].org = o /\ call'[c].pc = "done"
               /\ \/ call[c].op = "role"
                  \/ call[c].op = "remove" /\ \E v \in Users : Misjudges(c, v)]_vars
  BY <1>1 DEF OwnerLost, Excused
<1> QED
  BY <1>2, Invariance, PTL DEF Spec, OwnerStays
=============================================================================
