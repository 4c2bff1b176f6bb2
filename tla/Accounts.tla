------------------------------ MODULE Accounts ------------------------------
(***************************************************************************)
(* User accounts of the hub: the rows of users, app_permissions and        *)
(* api_tokens, the sessions kept in memory, the requests that read and     *)
(* write them, and bootstrap_admin at startup.                             *)
(*                                                                         *)
(* No lock covers these tables.  A request is a sequence of database calls *)
(* with an await at each, so what it has read may be out of date when it   *)
(* writes; its future may also be dropped at any of them.                  *)
(***************************************************************************)
EXTENDS Naturals

CONSTANTS Names,       \* usernames
          Config,      \* admin_username of berth.toml
          Slots,       \* requests served at the same time
          MaxRequests, \* bound on the requests made
          MaxRestarts, \* bound on the hub's restarts
          MaxDrops     \* bound on requests whose client goes away

ASSUME AccountsAssumption ==
    /\ Config \in Names
    /\ MaxRequests \in Nat /\ MaxRestarts \in Nat /\ MaxDrops \in Nat

Roles == {"admin", "member"}
Levels == {"read", "write"}
AdminOps == {"create", "set_role", "reset_password", "delete"}
Ops == AdminOps \cup {"password", "token", "permissions"}

VARIABLES
    users,    \* rows: id, name, role, password; born is history
    births,   \* rows ever inserted
    secrets,  \* passwords ever set: each is a new number
    sessions, \* the session map: key, username; born, password, late are history
    owned,    \* rows of app_permissions (of one app) and api_tokens, by user id
    hub,      \* "down", "up", or "failed" to start
    req,      \* req[p]: the request in slot p
    made, restarts, drops,
    stale,    \* history: a user was demoted or deleted by someone no longer admin
    skipped   \* history: users changed by a request dropped before it revoked

rows == <<users, births, secrets, owned>>
counts == <<made, restarts, drops>>
history == <<stale, skipped>>
vars == <<rows, sessions, hub, req, counts, history>>

NoRow == [id |-> 0, name |-> Config, role |-> "member", pw |-> 0, born |-> 0]
Idle == [pc |-> "idle", op |-> "none", name |-> Config, arg |-> "none",
         who |-> NoRow, key |-> 0, row |-> NoRow, late |-> FALSE]

Init ==
    /\ users = {} /\ births = 0 /\ secrets = 0 /\ owned = {}
    /\ sessions = {} /\ hub = "down"
    /\ req = [p \in Slots |-> Idle]
    /\ made = 0 /\ restarts = 0 /\ drops = 0
    /\ stale = FALSE /\ skipped = {}

-----------------------------------------------------------------------------
Named(n) == {u \in users : u.name = n}
Numbered(i) == {u \in users : u.id = i}
Admins == {u \in users : u.role = "admin"}

\* variant: the key of a new row is the first one above those in the table
NextIdInTable == IF users = {} THEN 1
                 ELSE (CHOOSE u \in users : \A v \in users : v.id <= u.id).id + 1

\* AUTOINCREMENT: above every key the table has ever held
NextId == births + 1

\* variant: no unique index on username
InsertUserUnindexed(n, role) ==
    /\ users' = users \cup {[id |-> NextId, name |-> n, role |-> role,
                             pw |-> secrets + 1, born |-> births + 1]}
    /\ births' = births + 1
    /\ secrets' = secrets + 1
    /\ UNCHANGED owned

\* an INSERT, which the unique index on username allows
InsertUser(n, role) ==
    /\ Named(n) = {}
    /\ users' = users \cup {[id |-> NextId, name |-> n, role |-> role,
                             pw |-> secrets + 1, born |-> births + 1]}
    /\ births' = births + 1
    /\ secrets' = secrets + 1
    /\ UNCHANGED owned

SetRow(u, v) == users' = (users \ {u}) \cup {v}

Put(p, r) == req' = [req EXCEPT ![p] = r]
Goto(p, l) == Put(p, [req[p] EXCEPT !.pc = l])
Return(p) == Put(p, Idle)

Admit ==
    /\ hub = "up"
    /\ made < MaxRequests
    /\ made' = made + 1

-----------------------------------------------------------------------------
(* Sessions *)

\* login: the row of the username; a wrong password ends the request
LoginFind(p, n) ==
    /\ Admit
    /\ req[p] = Idle
    /\ \E u \in Named(n) : Put(p, [Idle EXCEPT !.pc = "login", !.op = "login", !.name = n,
                                                !.key = made + 1, !.row = u])
    /\ UNCHANGED <<rows, sessions, hub, restarts, drops, history>>

\* the password of the row read is verified, the session inserted
LoginInsert(p) ==
    /\ req[p].pc = "login"
    /\ sessions' = sessions \cup {[key |-> req[p].key, name |-> req[p].name,
                                   born |-> req[p].row.born, pw |-> req[p].row.pw,
                                   late |-> req[p].late]}
    /\ Return(p)
    /\ UNCHANGED <<rows, hub, counts, history>>

Logout(s) ==
    /\ Admit
    /\ sessions' = sessions \ {s}
    /\ UNCHANGED <<rows, hub, req, restarts, drops, history>>

\* logins in progress have read their row before this revocation
MarkLate(n) ==
    [p \in Slots |-> IF req[p].pc = "login" /\ req[p].name = n
                     THEN [req[p] EXCEPT !.late = TRUE] ELSE req[p]]

\* revoke_sessions_for, revoke_other_sessions_for: all but the kept session
Revoke(p, kept) ==
    /\ sessions' = {s \in sessions : s.name # req[p].name} \cup kept
    /\ req' = [MarkLate(req[p].name) EXCEPT ![p] = Idle]

-----------------------------------------------------------------------------
(* Requests of a signed-in user *)

\* resolve_cookie_username: an expired session is removed when it is used
Lookup(p, op, n, arg, s) ==
    /\ Admit
    /\ req[p] = Idle
    /\ \/ /\ Put(p, [Idle EXCEPT !.pc = "load", !.op = op, !.name = n, !.arg = arg,
                                 !.who = [NoRow EXCEPT !.name = s.name], !.key = s.key])
          /\ UNCHANGED sessions
       \/ sessions' = sessions \ {s} /\ UNCHANGED req
    /\ UNCHANGED <<rows, hub, restarts, drops, history>>

\* check_app_permission, on the permissions load_permissions finds
MayWriteApp(u) == u.role = "admin" \/ \E g \in owned : g.kind = "write" /\ g.id = u.id

\* variant: no check of the user's own name
AllowedSelf(r, u) ==
    /\ r.op \in AdminOps => u.role = "admin"
    /\ r.op = "permissions" => MayWriteApp(u)

\* require_admin, enforce_app_access and the handlers' checks of their own user
Allowed(r, u) ==
    /\ r.op \in AdminOps => u.role = "admin"
    /\ r.op \in {"delete", "reset_password"} => r.name # u.name
    /\ r.op = "set_role" /\ r.arg = "member" => r.name # u.name
    /\ r.op = "permissions" => MayWriteApp(u)

\* load_current_user
Load(p) ==
    /\ req[p].pc = "load"
    /\ \/ \E u \in Named(req[p].who.name) :
             /\ Allowed(req[p], u)
             /\ Put(p, [req[p] EXCEPT !.who = u, !.pc = "find"])
       \/ /\ \A u \in Named(req[p].who.name) : ~Allowed(req[p], u)
          /\ Return(p)
    /\ UNCHANGED <<rows, sessions, hub, counts, history>>

\* load_user_from_bearer: the user of an API token that is not revoked and has
\* not expired; user management takes no tokens
Bearer(p, n, arg, g) ==
    /\ Admit
    /\ req[p] = Idle
    /\ g.kind = "token"
    /\ \E u \in Numbered(g.id) :
          /\ MayWriteApp(u)
          /\ Put(p, [Idle EXCEPT !.pc = "find", !.op = "permissions", !.name = n, !.arg = arg, !.who = u])
    /\ UNCHANGED <<rows, sessions, hub, restarts, drops, history>>

\* The row the request is about.  create_user wants none, the others return
\* when there is none; create_own_token needs no row.
Find(p) ==
    /\ req[p].pc = "find"
    /\ LET r == req[p]
           target == Named(r.name)
       IN \/ /\ r.op = "token" \/ (r.op = "create" /\ target = {})
             /\ Goto(p, "write")
          \/ /\ r.op \notin {"token", "create"}
             /\ \E u \in target : Put(p, [r EXCEPT !.row = u, !.pc = IF r.op = "delete" THEN "grants" ELSE "write"])
          \/ /\ r.op # "token" /\ (r.op = "create") # (target = {})
             /\ Return(p)
    /\ UNCHANGED <<rows, sessions, hub, counts, history>>

-----------------------------------------------------------------------------
(* Writes *)

\* create_user: the unique index refuses a second row of the name
Create(p) ==
    /\ req[p].pc = "write" /\ req[p].op = "create"
    /\ InsertUser(req[p].name, req[p].arg) \/ (Named(req[p].name) # {} /\ UNCHANGED rows)
    /\ Return(p)
    /\ UNCHANGED <<sessions, hub, counts, history>>

\* update_user and change_own_password update the row they read, by its id
Update(p) ==
    /\ req[p].pc = "write" /\ req[p].op \in {"set_role", "reset_password", "password"}
    /\ \/ \E u \in Numbered(req[p].row.id) :
             /\ \/ /\ req[p].op = "set_role"
                   /\ SetRow(u, [u EXCEPT !.role = req[p].arg])
                   /\ UNCHANGED secrets
                \/ /\ req[p].op # "set_role"
                   /\ SetRow(u, [u EXCEPT !.pw = secrets + 1])
                   /\ secrets' = secrets + 1
             /\ Put(p, [req[p] EXCEPT !.pc = "revoke", !.row.pw = secrets'])
       \/ Numbered(req[p].row.id) = {} /\ Return(p) /\ UNCHANGED <<users, secrets>>
    /\ stale' = (stale \/ (req[p].op = "set_role" /\ Admins \cap Named(req[p].who.name) = {}))
    /\ UNCHANGED <<births, owned, sessions, hub, counts, skipped>>

\* revoke_sessions_for runs when the update has been awaited
UpdateRevoke(p) ==
    /\ req[p].pc = "revoke"
    /\ req[p].op # "password"
    /\ Revoke(p, {})
    /\ UNCHANGED <<rows, hub, counts, history>>

\* variant: the sessions opened with the old password stay
PasswordKeepsSessions(p) ==
    /\ req[p].pc = "revoke"
    /\ req[p].op = "password"
    /\ Return(p)
    /\ UNCHANGED <<rows, sessions, hub, counts, history>>

\* revoke_other_sessions_for keeps the session the request came with: whoever
\* holds it has set the new password
PasswordRevoke(p) ==
    /\ req[p].pc = "revoke"
    /\ req[p].op = "password"
    /\ Revoke(p, {[s EXCEPT !.pw = IF s.pw > req[p].row.pw THEN s.pw ELSE req[p].row.pw] :
                      s \in {s \in sessions : s.name = req[p].name /\ s.key = req[p].key}})
    /\ UNCHANGED <<rows, hub, counts, history>>

\* delete_user: the grants of the row found,
DeleteGrants(p) ==
    /\ req[p].pc = "grants"
    /\ owned' = {g \in owned : g.kind = "token" \/ g.id # req[p].row.id}
    /\ Goto(p, "row")
    /\ UNCHANGED <<users, births, secrets, sessions, hub, counts, history>>

\* the row of that name,
DeleteRow(p) ==
    /\ req[p].pc = "row"
    /\ users' = users \ Named(req[p].name)
    /\ stale' = (stale \/ Admins \cap Named(req[p].who.name) = {})
    /\ Goto(p, "revoke")
    /\ UNCHANGED <<births, secrets, owned, sessions, hub, counts, skipped>>

\* create_api_token
CreateToken(p) ==
    /\ req[p].pc = "write" /\ req[p].op = "token"
    /\ owned' = owned \cup {[kind |-> "token", id |-> req[p].who.id, born |-> req[p].who.born]}
    /\ Return(p)
    /\ UNCHANGED <<users, births, secrets, sessions, hub, counts, history>>

\* update_app_permissions: one transaction replaces the app's grants
ReplaceGrants(p) ==
    /\ req[p].pc = "write" /\ req[p].op = "permissions"
    /\ owned' = {g \in owned : g.kind = "token"}
                \cup {[kind |-> req[p].arg, id |-> req[p].row.id, born |-> req[p].row.born]}
    /\ Return(p)
    /\ UNCHANGED <<users, births, secrets, sessions, hub, counts, history>>

\* The client goes away and the request's future is dropped, perhaps when the
\* database has carried out a change whose sessions are still to be revoked.
Dropped(p) ==
    /\ drops < MaxDrops
    /\ req[p] # Idle
    /\ Return(p)
    /\ drops' = drops + 1
    /\ skipped' = IF req[p].pc = "revoke" THEN skipped \cup {req[p].name} ELSE skipped
    /\ UNCHANGED <<rows, sessions, hub, made, restarts, stale>>

-----------------------------------------------------------------------------
(* Restarts *)

Stop ==
    /\ hub = "up"
    /\ restarts < MaxRestarts
    /\ restarts' = restarts + 1
    /\ hub' = "down"
    /\ sessions' = {} /\ req' = [p \in Slots |-> Idle]
    /\ UNCHANGED <<rows, made, drops, history>>

\* bootstrap_admin: without an admin, insert the configured one; the insert's
\* error ends the process
Start ==
    /\ hub # "up"
    /\ \/ Admins # {} /\ hub' = "up" /\ UNCHANGED rows
       \/ Admins = {} /\ hub' = "up" /\ InsertUser(Config, "admin")
       \/ Admins = {} /\ Named(Config) # {} /\ hub' = "failed" /\ UNCHANGED rows
    /\ stale' = IF hub' = "failed" THEN stale ELSE FALSE
    /\ skipped' = {}
    /\ UNCHANGED <<sessions, req, counts>>

-----------------------------------------------------------------------------
Arg(op) == CASE op \in {"create", "set_role"} -> Roles
             [] op = "permissions" -> Levels
             [] OTHER -> {"none"}

Next ==
    \/ \E p \in Slots :
          \/ \E n \in Names : LoginFind(p, n)
          \/ \E op \in Ops, n \in Names, s \in sessions :
                /\ op \in {"password", "token"} => n = s.name
                /\ \E arg \in Arg(op) : Lookup(p, op, n, arg, s)
          \/ \E n \in Names, arg \in Levels, g \in owned : Bearer(p, n, arg, g)
          \/ LoginInsert(p) \/ Load(p) \/ Find(p)
          \/ Create(p) \/ Update(p) \/ UpdateRevoke(p) \/ PasswordRevoke(p)
          \/ DeleteGrants(p) \/ DeleteRow(p) \/ CreateToken(p) \/ ReplaceGrants(p)
          \/ Dropped(p)
    \/ \E s \in sessions : Logout(s)
    \/ Stop \/ Start

Spec == Init /\ [][Next]_vars

-----------------------------------------------------------------------------
(* Type invariant: names and ids are keys of the rows.                      *)
TypeOK ==
    /\ hub \in {"down", "up", "failed"}
    /\ \A u \in users : u.name \in Names /\ u.role \in Roles /\ u.id \in 1..births
    /\ \A u, v \in users : u.name = v.name \/ u.id = v.id => u = v
    /\ \A p \in Slots :
          /\ req[p].pc \in {"idle", "login", "load", "find", "write", "grants", "row", "revoke"}
          /\ req[p].op \in Ops \cup {"login", "none"}
    /\ \A s \in sessions : s.name \in Names
    /\ \A g \in owned : g.kind \in Levels \cup {"token"} /\ g.id \in 1..births

(* There is an admin from the first start on, whatever sequence of role     *)
(* changes, deletions and restarts follows: the refusals to demote or       *)
(* delete oneself see to that, unless a request wrote after its own user    *)
(* had lost the role it checked on arrival.  In particular bootstrap_admin  *)
(* fails on a name that is taken only after such a write.                   *)
AdminRemains == hub # "down" \/ births > 0 => Admins # {} \/ stale

Current(s) == \E u \in Named(s.name) : u.born = s.born /\ u.pw = s.pw

(* A session stands for the account it was opened on and its password at    *)
(* that time: a change of password, a reset or a deletion ends it.  The     *)
(* exceptions are the ones the code leaves: the moment until the change's   *)
(* own revocation, a request dropped in that moment, and a login that read  *)
(* the row before.                                                          *)
SessionsFollowCredentials ==
    \A s \in sessions :
        \/ Current(s)
        \/ s.late \/ s.name \in skipped
        \/ \E p \in Slots : req[p].pc = "revoke" /\ s.name = req[p].name

(* Grants and API tokens stay with the account they were made for.  Rows    *)
(* that outlive a deleted user give nothing to a later user of the same     *)
(* name, and none comes into the hands of another user.                     *)
RowsStayPersonal == \A g \in owned : \A u \in Numbered(g.id) : g.born = u.born
=============================================================================
