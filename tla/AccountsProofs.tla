--------------------------- MODULE AccountsProofs ---------------------------
(***************************************************************************)
(* Proofs about Accounts, for any names, any number of requests at a time  *)
(* and any bounds: the types, that an admin remains, that grants and       *)
(* tokens stay with the account they were made for, and that sessions do   *)
(* not outlive the credentials they were opened with.                      *)
(*                                                                         *)
(* What makes it inductive: ids are never used twice and a row's name      *)
(* never changes, so whatever row a request has read, the row that bears   *)
(* its id now is of the same name; and a request that has passed Allowed   *)
(* with a demotion or a deletion is not about its own user.                *)
(***************************************************************************)
EXTENDS Accounts, TLAPS

User == [id : Nat, name : Names, role : Roles, pw : Nat, born : Nat]

Session == [key : Nat, name : Names, born : Nat, pw : Nat, late : BOOLEAN]

Owned == [kind : Levels \cup {"token"}, id : Nat, born : Nat]

Request ==
    [pc : {"idle", "login", "load", "find", "write", "grants", "row", "revoke"},
     op : Ops \cup {"login", "none"}, name : Names, arg : Roles \cup Levels \cup {"none"},
     who : User, key : Nat, row : User, late : BOOLEAN]

Shapes ==
    /\ births \in Nat /\ secrets \in Nat /\ made \in Nat
    /\ sessions \subseteq Session
    /\ owned \subseteq Owned
    /\ hub \in {"down", "up", "failed"}
    /\ req \in [Slots -> Request]

\* a table us of users in which b rows have been inserted
Table(us, b) ==
    /\ us \subseteq User
    /\ \A u \in us : u.id \in 1..b /\ u.born = u.id
    /\ \A u, v \in us : u.name = v.name \/ u.id = v.id => u = v

\* a row read earlier: its id is of no other account
Read(r, us, b) ==
    /\ r.id \in 0..b /\ r.born = r.id
    /\ \A u \in us : u.id = r.id => u.name = r.name

\* a request that takes the admin role from a user
Unseats(r) == r.op = "delete" \/ (r.op = "set_role" /\ r.arg = "member")

\* what a request has established by the step it is at
Established(r, us, b) ==
    /\ Read(r.who, us, b) /\ Read(r.row, us, b)
    /\ r.pc \in {"find", "write", "grants", "row"} => r.who.id # 0
    /\ r.pc \in {"find", "write", "grants", "row"} /\ Unseats(r) => r.name # r.who.name
    /\ r.pc \in {"write", "grants", "row"} /\ r.op \notin {"create", "token"} =>
          r.row.id # 0 /\ r.row.name = r.name
    /\ r.pc \in {"grants", "row"} => r.op = "delete"
    /\ r.op \in {"create", "set_role"} => r.arg \in Roles
    /\ r.op = "permissions" => r.arg \in Levels

\* grants and tokens name an id that is used, and the account it is of
Personal(gs, b) == \A g \in gs : g.id \in 1..b /\ g.born = g.id

(* The inductive invariant. *)
AccountsInv ==
    /\ Shapes
    /\ Table(users, births)
    /\ \A p \in Slots : Established(req[p], users, births)
    /\ Personal(owned, births)
    /\ AdminRemains

-----------------------------------------------------------------------------
(* Rows are only added under new ids, and keep their names. *)
Grows(us, b, vs, c) ==
    /\ b \in Nat /\ c \in Nat /\ b <= c
    /\ \A v \in vs : v.id > b \/ \E u \in us : u.id = v.id /\ u.name = v.name

(* What a request has established survives the changes others make to the  *)
(* table of users: create_user, update_user and delete_user.               *)
LEMMA EstablishedLasts ==
    ASSUME NEW r \in Request, NEW us, NEW b, NEW vs, NEW c,
           Established(r, us, b), Grows(us, b, vs, c), vs \subseteq User
    PROVE  Established(r, vs, c)
<1>1. ASSUME NEW x \in User, Read(x, us, b)
      PROVE  Read(x, vs, c)
  BY <1>1 DEF Read, Grows, User
<1>2. r.who \in User /\ r.row \in User
  BY DEF Request
<1>3. QED
  BY <1>1, <1>2 DEF Established

(* A step of one request keeps what the others have established.           *)
LEMMA PutKeeps ==
    ASSUME AccountsInv, NEW p \in Slots, NEW r \in Request,
           Established(r, users, births), Put(p, r)
    PROVE  /\ req' \in [Slots -> Request]
           /\ \A q \in Slots : Established(req'[q], users, births)
<1>1. req' = [req EXCEPT ![p] = r] /\ req \in [Slots -> Request]
  BY DEF Put, AccountsInv, Shapes
<1>2. req' \in [Slots -> Request]
  BY <1>1
<1>3. ASSUME NEW q \in Slots PROVE Established(req'[q], users, births)
  <2>1. CASE q = p
    BY <2>1, <1>1
  <2>2. CASE q # p
    BY <2>2, <1>1 DEF AccountsInv
  <2>3. QED
    BY <2>1, <2>2
<1>4. QED
  BY <1>2, <1>3

(* The record of a slot between two requests has the shape of one. *)
LEMMA IdleShape == NoRow \in User /\ Idle \in Request
<1>1. NoRow \in User
  BY AccountsAssumption DEF NoRow, User, Roles
<1>2. Idle \in Request
  BY <1>1, AccountsAssumption DEF Idle, Request, Ops, AdminOps
<1>3. QED
  BY <1>1, <1>2

(* The state between requests. *)
LEMMA IdleEstablished ==
    ASSUME Table(users, births), births \in Nat
    PROVE  Idle \in Request /\ Established(Idle, users, births)
<1>2. Idle \in Request
  BY IdleShape
<1>3. Read(NoRow, users, births)
  BY DEF Read, NoRow, Table
<1>4. QED
  BY <1>2, <1>3 DEF Idle, Established

(* A step that writes no row of users: what is left to show.               *)
LEMMA UsersUntouched ==
    ASSUME AccountsInv, UNCHANGED <<users, births, secrets>>,
           req' \in [Slots -> Request],
           \A q \in Slots : Established(req'[q], users, births),
           made' \in Nat, sessions' \subseteq Session,
           owned' \subseteq Owned, Personal(owned', births),
           UNCHANGED stale, UNCHANGED hub \/ (hub' = "down" /\ hub = "up")
    PROVE  AccountsInv'
<1>1. Shapes'
  BY DEF AccountsInv, Shapes
<1>2. Table(users, births)' /\ Personal(owned, births)'
  BY DEF AccountsInv, Table, Personal
<1>3. AdminRemains'
  BY DEF AccountsInv, AdminRemains, Admins
<1>4. QED
  BY <1>1, <1>2, <1>3 DEF AccountsInv

(* A step of the request at p, to r, that writes no row of users. *)
LEMMA RequestStep ==
    ASSUME AccountsInv, NEW p \in Slots, NEW r \in Request,
           Established(r, users, births), Put(p, r),
           UNCHANGED <<users, births, secrets, hub, stale>>,
           made' \in Nat, sessions' \subseteq Session,
           owned' \subseteq Owned, Personal(owned', births)
    PROVE  AccountsInv'
BY PutKeeps, UsersUntouched

(* login *)
LEMMA LoginSteps ==
    ASSUME AccountsInv, NEW p \in Slots,
           (\E n \in Names : LoginFind(p, n)) \/ LoginInsert(p)
    PROVE  AccountsInv'
<1> USE DEF rows, counts, history
<1>0. Table(users, births) /\ Shapes /\ Idle \in Request /\ Established(Idle, users, births)
  BY IdleEstablished DEF AccountsInv, Shapes
<1>1. CASE \E n \in Names : LoginFind(p, n)
  <2>1. PICK n \in Names : LoginFind(p, n)
    BY <1>1
  <2>2. PICK u \in Named(n) : Put(p, [Idle EXCEPT !.pc = "login", !.op = "login", !.name = n,
                                                  !.key = made + 1, !.row = u])
    BY <2>1 DEF LoginFind
  <2> DEFINE r == [Idle EXCEPT !.pc = "login", !.op = "login", !.name = n,
                               !.key = made + 1, !.row = u]
  <2>3. u \in users /\ u \in User /\ u.name = n
    BY <1>0, <2>2 DEF Named, Table
  <2>4. r \in Request
    <3>1. ASSUME NEW i \in Request, NEW k \in Nat
          PROVE  [i EXCEPT !.pc = "login", !.op = "login", !.name = n, !.key = k, !.row = u] \in Request
      BY <2>3 DEF Request
    <3>2. made + 1 \in Nat
      BY <1>0 DEF Shapes
    <3>3. QED
      BY <3>1, <3>2, <1>0
  <2>5. Read(u, users, births)
    BY <1>0, <2>3 DEF Read, Table, Shapes, User
  <2>6. Established(r, users, births)
    BY <1>0, <2>5 DEF Established, Idle
  <2>7. made' \in Nat /\ sessions' \subseteq Session /\ owned' \subseteq Owned /\ Personal(owned', births)
    <3>1. Admit /\ UNCHANGED <<sessions, owned>>
      BY <2>1 DEF LoginFind
    <3>2. QED
      BY <1>0, <3>1 DEF Admit, Shapes, AccountsInv
  <2>8. UNCHANGED <<users, births, secrets, hub, stale>>
    BY <2>1 DEF LoginFind
  <2> HIDE DEF r
  <2>9. QED
    BY <2>2, <2>4, <2>6, <2>7, <2>8, RequestStep DEF r
<1>2. CASE LoginInsert(p)
  <2>1. req[p] \in Request
    BY <1>0 DEF Shapes
  <2>2. sessions' \subseteq Session
    BY <1>0, <1>2, <2>1 DEF LoginInsert, Shapes, Session, Request, User
  <2>3. made' \in Nat /\ owned' \subseteq Owned /\ Personal(owned', births)
    BY <1>0, <1>2 DEF LoginInsert, Shapes, AccountsInv
  <2>4. UNCHANGED <<users, births, secrets, hub, stale>> /\ Put(p, Idle)
    BY <1>2 DEF LoginInsert, Return
  <2>5. QED
    BY <1>0, <2>2, <2>3, <2>4, RequestStep
<1>3. QED
  BY <1>1, <1>2

(* resolve_cookie_username and load_user_from_bearer start a request. *)
LEMMA ArrivalSteps ==
    ASSUME AccountsInv, NEW p \in Slots,
           \/ \E op \in Ops, n \in Names, s \in sessions :
                /\ op \in {"password", "token"} => n = s.name
                /\ \E arg \in Arg(op) : Lookup(p, op, n, arg, s)
           \/ \E n \in Names, arg \in Levels, g \in owned : Bearer(p, n, arg, g)
    PROVE  AccountsInv'
<1> USE DEF rows, counts, history
<1>0. Table(users, births) /\ Shapes /\ Idle \in Request /\ Established(Idle, users, births)
  BY IdleEstablished DEF AccountsInv, Shapes
<1>1. ASSUME NEW op \in Ops, NEW n \in Names, NEW s \in sessions, NEW arg \in Arg(op),
             Lookup(p, op, n, arg, s)
      PROVE  AccountsInv'
  <2>1. Admit /\ UNCHANGED <<users, births, secrets, owned, hub, stale>>
    BY <1>1 DEF Lookup
  <2>2. made' \in Nat /\ owned' \subseteq Owned /\ Personal(owned', births)
    BY <1>0, <2>1 DEF Admit, Shapes, AccountsInv
  <2>3. CASE sessions' = sessions \ {s} /\ UNCHANGED req
    BY <1>0, <2>1, <2>2, <2>3, UsersUntouched DEF Shapes, AccountsInv
  <2> DEFINE w == [NoRow EXCEPT !.name = s.name]
             r == [Idle EXCEPT !.pc = "load", !.op = op, !.name = n, !.arg = arg,
                               !.who = w, !.key = s.key]
  <2>4. CASE Put(p, r) /\ UNCHANGED sessions
    <3>1. s.name \in Names /\ s.key \in Nat
      BY <1>0 DEF Shapes, Session
    <3>2. w \in User /\ w.id = 0 /\ w.born = 0
      BY <3>1, IdleShape DEF User, NoRow
    <3>3. arg \in Roles \cup Levels \cup {"none"}
      BY DEF Arg
    <3>4. r \in Request
      <4>1. ASSUME NEW i \in Request, NEW v \in User
            PROVE  [i EXCEPT !.pc = "load", !.op = op, !.name = n, !.arg = arg,
                             !.who = v, !.key = s.key] \in Request
        BY <3>1, <3>3 DEF Request
      <4>2. QED
        BY <1>0, <3>2, <4>1
    <3>5. Read(w, users, births)
      BY <1>0, <3>2 DEF Read, Table, Shapes
    <3>6. /\ op \in {"create", "set_role"} => arg \in Roles
          /\ op = "permissions" => arg \in Levels
      BY DEF Arg
    <3>7. Read(NoRow, users, births)
      BY <1>0 DEF Established, Idle
    <3>8. r.pc = "load" /\ r.op = op /\ r.arg = arg /\ r.who = w /\ r.row = NoRow
      BY DEF Idle
    <3> HIDE DEF r, w
    <3>9. Established(r, users, births)
      BY <3>5, <3>6, <3>7, <3>8 DEF Established
    <3>10. QED
      BY <1>0, <2>1, <2>2, <2>4, <3>4, <3>9, RequestStep DEF Shapes
  <2>5. QED
    BY <1>1, <2>3, <2>4 DEF Lookup
<1>2. ASSUME NEW n \in Names, NEW arg \in Levels, NEW g \in owned, Bearer(p, n, arg, g)
      PROVE  AccountsInv'
  <2>1. Admit /\ UNCHANGED <<users, births, secrets, owned, sessions, hub, stale>>
    BY <1>2 DEF Bearer
  <2>2. made' \in Nat /\ owned' \subseteq Owned /\ Personal(owned', births)
    BY <1>0, <2>1 DEF Admit, Shapes, AccountsInv
  <2>3. PICK u \in Numbered(g.id) :
           Put(p, [Idle EXCEPT !.pc = "find", !.op = "permissions", !.name = n, !.arg = arg, !.who = u])
    BY <1>2 DEF Bearer
  <2> DEFINE r == [Idle EXCEPT !.pc = "find", !.op = "permissions", !.name = n, !.arg = arg, !.who = u]
  <2>4. u \in users /\ u \in User /\ u.id \in 1..births
    BY <1>0, <2>3 DEF Numbered, Table
  <2>5. r \in Request
    <3>1. ASSUME NEW i \in Request
          PROVE  [i EXCEPT !.pc = "find", !.op = "permissions", !.name = n, !.arg = arg, !.who = u] \in Request
      BY <2>4 DEF Request, Ops
    <3>2. QED
      BY <1>0, <3>1
  <2>6. Read(u, users, births) /\ u.id # 0
    BY <1>0, <2>4 DEF Read, Table, Shapes, User
  <2>7. Read(NoRow, users, births)
    BY <1>0 DEF Established, Idle
  <2>8. r.pc = "find" /\ r.op = "permissions" /\ r.arg = arg /\ r.who = u /\ r.row = NoRow
    BY DEF Idle
  <2> HIDE DEF r
  <2>9. Established(r, users, births)
    BY <2>6, <2>7, <2>8 DEF Established, Unseats
  <2>10. QED
    BY <1>0, <2>1, <2>2, <2>3, <2>5, <2>9, RequestStep DEF Shapes, r
<1>3. QED
  BY <1>1, <1>2

(* load_current_user and the lookup of the row the request is about. *)
LEMMA ReadSteps ==
    ASSUME AccountsInv, NEW p \in Slots, Load(p) \/ Find(p)
    PROVE  AccountsInv'
<1> USE DEF rows, counts, history
<1>0. Table(users, births) /\ Shapes /\ Idle \in Request /\ Established(Idle, users, births)
  BY IdleEstablished DEF AccountsInv, Shapes
<1>1. req[p] \in Request /\ Established(req[p], users, births)
  BY <1>0 DEF AccountsInv, Shapes
<1>2. UNCHANGED <<users, births, secrets, hub, stale>> /\ UNCHANGED <<made, sessions, owned>>
  BY DEF Load, Find
<1>3. made' \in Nat /\ sessions' \subseteq Session /\ owned' \subseteq Owned /\ Personal(owned', births)
  BY <1>0, <1>2 DEF Shapes, AccountsInv
<1>4. CASE Put(p, Idle)
  BY <1>0, <1>2, <1>3, <1>4, RequestStep
<1>5. ASSUME NEW u \in users PROVE u \in User /\ Read(u, users, births) /\ u.id # 0
  BY <1>0 DEF Read, Table, Shapes, User
<1>6. CASE Load(p)
  <2>1. ASSUME NEW u \in Named(req[p].who.name), Allowed(req[p], u),
               Put(p, [req[p] EXCEPT !.who = u, !.pc = "find"]), req[p].pc = "load"
        PROVE  AccountsInv'
    <3> DEFINE r == [req[p] EXCEPT !.who = u, !.pc = "find"]
    <3>1. u \in users /\ u \in User
      BY <1>5 DEF Named
    <3>2. /\ r \in Request /\ r.pc = "find" /\ r.op = req[p].op /\ r.arg = req[p].arg
          /\ r.who = u /\ r.row = req[p].row /\ r.name = req[p].name
      BY <1>1, <3>1 DEF Request
    <3>3. Unseats(r) => r.name # u.name
      BY <2>1, <3>2 DEF Allowed, Unseats
    <3> HIDE DEF r
    <3>4. Established(r, users, births)
      BY <1>1, <1>5, <3>1, <3>2, <3>3 DEF Established
    <3>5. QED
      BY <1>2, <1>3, <2>1, <3>2, <3>4, RequestStep DEF r
  <2>2. QED
    BY <1>4, <1>6, <2>1 DEF Load, Return
<1>7. CASE Find(p)
  <2>1. CASE req[p].op \in {"token", "create"} /\ Goto(p, "write")
    <3> DEFINE r == [req[p] EXCEPT !.pc = "write"]
    <3>1. /\ r \in Request /\ r.pc = "write" /\ r.op = req[p].op /\ r.arg = req[p].arg
          /\ r.who = req[p].who /\ r.row = req[p].row /\ r.name = req[p].name
      BY <1>1 DEF Request
    <3> HIDE DEF r
    <3>2. Established(r, users, births)
      BY <1>1, <1>7, <2>1, <3>1 DEF Established, Unseats, Find
    <3>3. QED
      BY <1>2, <1>3, <2>1, <3>1, <3>2, RequestStep DEF Goto, r
  <2>2. ASSUME req[p].op \notin {"token", "create"}, NEW u \in Named(req[p].name),
               Put(p, [req[p] EXCEPT !.row = u, !.pc = IF req[p].op = "delete" THEN "grants" ELSE "write"])
        PROVE  AccountsInv'
    <3> DEFINE r == [req[p] EXCEPT !.row = u, !.pc = IF req[p].op = "delete" THEN "grants" ELSE "write"]
    <3>1. u \in users /\ u \in User /\ u.name = req[p].name
      BY <1>5 DEF Named
    <3>2. /\ r \in Request /\ r.pc = (IF req[p].op = "delete" THEN "grants" ELSE "write")
          /\ r.op = req[p].op /\ r.arg = req[p].arg
          /\ r.who = req[p].who /\ r.row = u /\ r.name = req[p].name
      BY <1>1, <3>1 DEF Request
    <3> HIDE DEF r
    <3>3. req[p].pc = "find"
      BY <1>7 DEF Find
    <3>4. Established(r, users, births)
      BY <1>1, <1>5, <2>2, <3>1, <3>2, <3>3 DEF Established, Unseats
    <3>5. QED
      BY <1>2, <1>3, <2>2, <3>2, <3>4, RequestStep DEF r
  <2>3. QED
    BY <1>4, <1>7, <2>1, <2>2 DEF Find, Return
<1>8. QED
  BY <1>6, <1>7

(* create_api_token, update_app_permissions and the first step of           *)
(* delete_user write grants and tokens for rows the request has read.       *)
LEMMA OwnedSteps ==
    ASSUME AccountsInv, NEW p \in Slots,
           DeleteGrants(p) \/ CreateToken(p) \/ ReplaceGrants(p)
    PROVE  AccountsInv'
<1> USE DEF rows, counts, history
<1>0. Table(users, births) /\ Shapes /\ Idle \in Request /\ Established(Idle, users, births)
  BY IdleEstablished DEF AccountsInv, Shapes
<1>1. req[p] \in Request /\ Established(req[p], users, births)
  BY <1>0 DEF AccountsInv, Shapes
<1>2. UNCHANGED <<users, births, secrets, hub, stale>> /\ UNCHANGED <<made, sessions>>
  BY DEF DeleteGrants, CreateToken, ReplaceGrants
<1>3. made' \in Nat /\ sessions' \subseteq Session /\ owned \subseteq Owned /\ Personal(owned, births)
  BY <1>0, <1>2 DEF Shapes, AccountsInv
<1>4. ASSUME NEW k \in Levels \cup {"token"}, NEW x \in User, Read(x, users, births), x.id # 0
      PROVE  LET g == [kind |-> k, id |-> x.id, born |-> x.born]
             IN  g \in Owned /\ g.id \in 1..births /\ g.born = g.id
  BY <1>0, <1>4 DEF Read, Owned, User, Shapes
<1>5. CASE DeleteGrants(p)
  <2> DEFINE r == [req[p] EXCEPT !.pc = "row"]
  <2>1. /\ r \in Request /\ r.pc = "row" /\ r.op = req[p].op /\ r.arg = req[p].arg
        /\ r.who = req[p].who /\ r.row = req[p].row /\ r.name = req[p].name
    BY <1>1 DEF Request
  <2>2. owned' \subseteq Owned /\ Personal(owned', births) /\ Put(p, r) /\ req[p].pc = "grants"
    BY <1>3, <1>5 DEF DeleteGrants, Personal, Goto
  <2> HIDE DEF r
  <2>3. Established(r, users, births)
    BY <1>1, <2>1, <2>2 DEF Established, Unseats
  <2>4. QED
    BY <1>2, <1>3, <2>1, <2>2, <2>3, RequestStep
<1>6. CASE CreateToken(p)
  <2>1. req[p].who \in User /\ Read(req[p].who, users, births) /\ req[p].who.id # 0
    BY <1>1, <1>6 DEF CreateToken, Established, Request
  <2>2. owned' \subseteq Owned /\ Personal(owned', births)
    BY <1>3, <1>4, <1>6, <2>1 DEF CreateToken, Personal
  <2>3. QED
    BY <1>0, <1>2, <1>3, <1>6, <2>2, RequestStep DEF CreateToken, Return
<1>7. CASE ReplaceGrants(p)
  <2>1. req[p].row \in User /\ Read(req[p].row, users, births) /\ req[p].row.id # 0
    BY <1>1, <1>7 DEF ReplaceGrants, Established, Request
  <2>2. req[p].arg \in Levels
    BY <1>1, <1>7 DEF ReplaceGrants, Established
  <2>3. owned' \subseteq Owned /\ Personal(owned', births)
    BY <1>3, <1>4, <1>7, <2>1, <2>2 DEF ReplaceGrants, Personal
  <2>4. QED
    BY <1>0, <1>2, <1>3, <1>7, <2>3, RequestStep DEF ReplaceGrants, Return
<1>8. QED
  BY <1>5, <1>6, <1>7

(* revoke_sessions_for and revoke_other_sessions_for. *)
LEMMA RevokeSteps ==
    ASSUME AccountsInv, NEW p \in Slots, UpdateRevoke(p) \/ PasswordRevoke(p)
    PROVE  AccountsInv'
<1> USE DEF rows, counts, history
<1>0. Table(users, births) /\ Shapes /\ Idle \in Request /\ Established(Idle, users, births)
  BY IdleEstablished DEF AccountsInv, Shapes
<1>1. /\ UNCHANGED <<users, births, secrets, hub, stale>> /\ UNCHANGED <<made, owned>>
      /\ req' = [MarkLate(req[p].name) EXCEPT ![p] = Idle]
  BY DEF UpdateRevoke, PasswordRevoke, Revoke
<1>2. sessions' \subseteq Session
  <2>1. CASE UpdateRevoke(p)
    BY <1>0, <2>1 DEF UpdateRevoke, Revoke, Shapes
  <2>2. CASE PasswordRevoke(p)
    <3>1. req[p].row.pw \in Nat
      BY <1>0 DEF Shapes, Request, User
    <3>2. ASSUME NEW s \in sessions
          PROVE  [s EXCEPT !.pw = IF s.pw > req[p].row.pw THEN s.pw ELSE req[p].row.pw] \in Session
      BY <1>0, <3>1 DEF Shapes, Session
    <3>3. QED
      BY <1>0, <2>2, <3>2 DEF PasswordRevoke, Revoke, Shapes
  <2>3. QED
    BY <2>1, <2>2
<1>3. ASSUME NEW q \in Slots
      PROVE  req'[q] \in Request /\ Established(req'[q], users, births)
  <2>1. req[q] \in Request /\ Established(req[q], users, births)
    BY <1>0 DEF Shapes, AccountsInv
  <2> DEFINE r == [req[q] EXCEPT !.late = TRUE]
  <2>2. req'[q] \in {Idle, req[q], r}
    BY <1>1 DEF MarkLate
  <2>3. /\ r \in Request /\ r.pc = req[q].pc /\ r.op = req[q].op /\ r.arg = req[q].arg
        /\ r.who = req[q].who /\ r.row = req[q].row /\ r.name = req[q].name
    BY <2>1 DEF Request
  <2> HIDE DEF r
  <2>4. Established(r, users, births)
    BY <2>1, <2>3 DEF Established, Unseats
  <2>5. QED
    BY <1>0, <2>1, <2>2, <2>3, <2>4
<1>4. req' \in [Slots -> Request]
  BY <1>1, <1>3 DEF MarkLate
<1>5. QED
  BY <1>0, <1>1, <1>2, <1>3, <1>4, UsersUntouched DEF Shapes, AccountsInv

(* Logout, a dropped request and the end of the hub's process. *)
LEMMA EndingSteps ==
    ASSUME AccountsInv,
           (\E p \in Slots : Dropped(p)) \/ (\E s \in sessions : Logout(s)) \/ Stop
    PROVE  AccountsInv'
<1> USE DEF rows, counts, history
<1>0. Table(users, births) /\ Shapes /\ Idle \in Request /\ Established(Idle, users, births)
  BY IdleEstablished DEF AccountsInv, Shapes
<1>1. ASSUME NEW p \in Slots, Dropped(p) PROVE AccountsInv'
  BY <1>0, <1>1, RequestStep DEF Dropped, Return, Shapes, AccountsInv
<1>2. ASSUME NEW s \in sessions, Logout(s) PROVE AccountsInv'
  BY <1>0, <1>2, UsersUntouched DEF Logout, Admit, Shapes, AccountsInv
<1>3. CASE Stop
  BY <1>0, <1>3, UsersUntouched DEF Stop, Shapes, AccountsInv
<1>4. QED
  BY <1>1, <1>2, <1>3

(* A step that writes the table of users: what is left to show.            *)
LEMMA UsersWritten ==
    ASSUME AccountsInv,
           req' \in [Slots -> Request],
           \A q \in Slots : Established(req'[q], users, births),
           Table(users', births'), Grows(users, births, users', births'),
           secrets' \in Nat, UNCHANGED <<made, sessions, owned>>,
           hub' \in {"down", "up", "failed"}, AdminRemains'
    PROVE  AccountsInv'
<1>1. births' \in Nat /\ births <= births' /\ births \in Nat
  BY DEF Grows
<1>2. Shapes'
  BY <1>1 DEF AccountsInv, Shapes
<1>3. \A q \in Slots : Established(req'[q], users', births')
  BY EstablishedLasts DEF Table
<1>4. Personal(owned', births')
  BY <1>1 DEF AccountsInv, Shapes, Personal, Owned
<1>5. QED
  BY <1>2, <1>3, <1>4 DEF AccountsInv

(* An INSERT into users gives the row an id no row has had. *)
LEMMA Inserted ==
    ASSUME AccountsInv, NEW n \in Names, NEW role \in Roles, InsertUser(n, role)
    PROVE  /\ Table(users', births') /\ Grows(users, births, users', births')
           /\ secrets' \in Nat /\ UNCHANGED owned
           /\ Admins \subseteq Admins'
           /\ role = "admin" => Admins' # {}
<1> DEFINE u == [id |-> births + 1, name |-> n, role |-> role,
                 pw |-> secrets + 1, born |-> births + 1]
<1>0. births \in Nat /\ secrets \in Nat /\ Table(users, births)
  BY DEF AccountsInv, Shapes
<1>1. users' = users \cup {u} /\ births' = births + 1 /\ \A v \in users : v.name # n
  BY DEF InsertUser, NextId, Named
<1>2. u \in User /\ u.id = births + 1 /\ u.born = u.id /\ u.name = n /\ u.role = role
  BY <1>0 DEF User
<1> HIDE DEF u
<1>3. Table(users', births')
  BY <1>0, <1>1, <1>2 DEF Table, User
<1>4. Grows(users, births, users', births')
  BY <1>0, <1>1, <1>2 DEF Grows
<1>5. secrets' \in Nat /\ UNCHANGED owned
  BY <1>0 DEF InsertUser
<1>6. Admins \subseteq Admins' /\ (role = "admin" => u \in Admins')
  BY <1>1, <1>2 DEF Admins
<1>7. QED
  BY <1>3, <1>4, <1>5, <1>6

(* create_user and bootstrap_admin. *)
LEMMA InsertSteps ==
    ASSUME AccountsInv, (\E p \in Slots : Create(p)) \/ Start
    PROVE  AccountsInv'
<1> USE DEF rows, counts, history
<1>0. Table(users, births) /\ Shapes /\ Idle \in Request /\ Established(Idle, users, births)
  BY IdleEstablished DEF AccountsInv, Shapes
<1>1. ASSUME NEW p \in Slots, Create(p) PROVE AccountsInv'
  <2>1. Put(p, Idle) /\ UNCHANGED <<made, sessions, hub, stale>>
    BY <1>1 DEF Create, Return
  <2>2. CASE UNCHANGED rows
    BY <1>0, <2>1, <2>2, RequestStep DEF Shapes, AccountsInv
  <2>3. CASE InsertUser(req[p].name, req[p].arg)
    <3>1. req[p].name \in Names /\ req[p].arg \in Roles
      BY <1>0, <1>1 DEF AccountsInv, Established, Create, Shapes, Request
    <3>2. /\ Table(users', births') /\ Grows(users, births, users', births')
          /\ secrets' \in Nat /\ UNCHANGED owned /\ Admins \subseteq Admins'
      BY <2>3, <3>1, Inserted
    <3>3. AdminRemains'
      <4>1. births > 0
        BY <1>0, <1>1 DEF AccountsInv, Established, Read, Create, Shapes
      <4>2. QED
        BY <2>1, <3>2, <4>1 DEF AccountsInv, AdminRemains
    <3>4. req' \in [Slots -> Request] /\ \A q \in Slots : Established(req'[q], users, births)
      BY <1>0, <2>1, PutKeeps
    <3>5. hub' \in {"down", "up", "failed"}
      BY <1>0, <2>1 DEF Shapes
    <3>6. QED
      BY <2>1, <3>2, <3>3, <3>4, <3>5, UsersWritten
  <2>4. QED
    BY <1>1, <2>2, <2>3 DEF Create
<1>2. CASE Start
  <2>1. UNCHANGED <<made, sessions, req>>
    BY <1>2 DEF Start
  <2>2. req' \in [Slots -> Request] /\ \A q \in Slots : Established(req'[q], users, births)
    BY <1>0, <2>1 DEF AccountsInv, Shapes
  <2>3. CASE /\ hub' \in {"up", "failed"} /\ UNCHANGED rows /\ (hub' = "up" => Admins # {})
             /\ hub' = "failed" => Named(Config) # {} /\ stale' = stale
    <3>0. Named(Config) # {} => births > 0
      BY <1>0 DEF Named, Table, Shapes
    <3>1. AdminRemains'
      BY <2>3, <3>0 DEF AccountsInv, AdminRemains, Admins
    <3>2. Table(users', births') /\ Grows(users, births, users', births') /\ secrets' \in Nat
      BY <1>0, <2>3 DEF Table, Grows, Shapes
    <3>3. QED
      BY <2>1, <2>2, <2>3, <3>1, <3>2, UsersWritten
  <2>4. CASE hub' = "up" /\ InsertUser(Config, "admin")
    <3>1. /\ Table(users', births') /\ Grows(users, births, users', births')
          /\ secrets' \in Nat /\ UNCHANGED owned /\ Admins' # {}
      BY <2>4, AccountsAssumption, Inserted DEF Roles
    <3>2. AdminRemains'
      BY <3>1 DEF AdminRemains
    <3>3. QED
      BY <2>1, <2>2, <2>4, <3>1, <3>2, UsersWritten
  <2>5. QED
    BY <1>2, <2>3, <2>4 DEF Start
<1>3. QED
  BY <1>1, <1>2

(* A row replaced by one of the same id and name. *)
LEMMA RowReplaced ==
    ASSUME AccountsInv, NEW u \in users, NEW v \in User,
           v.id = u.id, v.name = u.name, v.born = u.born,
           SetRow(u, v), UNCHANGED births
    PROVE  /\ Table(users', births') /\ Grows(users, births, users', births')
           /\ v \in users' /\ \A w \in users : w # u => w \in users'
<1>0. births \in Nat /\ Table(users, births)
  BY DEF AccountsInv, Shapes
<1>1. users' = (users \ {u}) \cup {v}
  BY DEF SetRow
<1>2. Table(users', births')
  BY <1>0, <1>1 DEF Table, User
<1>3. Grows(users, births, users', births')
  BY <1>0, <1>1 DEF Grows
<1>4. QED
  BY <1>1, <1>2, <1>3

(* update_user and change_own_password.  A demotion is of another user than *)
(* the requester: if that one is still an admin, an admin is left.          *)
LEMMA UpdateStep ==
    ASSUME AccountsInv, NEW p \in Slots, Update(p)
    PROVE  AccountsInv'
<1> USE DEF rows, counts, history
<1>0. Table(users, births) /\ Shapes /\ Idle \in Request /\ Established(Idle, users, births)
  BY IdleEstablished DEF AccountsInv, Shapes
<1>1. /\ req[p] \in Request /\ Established(req[p], users, births) /\ req[p].pc = "write"
      /\ req[p].op \in {"set_role", "reset_password", "password"}
      /\ UNCHANGED <<births, owned, made, sessions, hub>>
      /\ hub' \in {"down", "up", "failed"} /\ secrets \in Nat
  BY <1>0 DEF AccountsInv, Shapes, Update
<1>2. stale' = (stale \/ (req[p].op = "set_role" /\ Admins \cap Named(req[p].who.name) = {}))
  BY DEF Update
<1>3. CASE Return(p) /\ UNCHANGED <<users, secrets>>
  <2>1. req' \in [Slots -> Request] /\ \A q \in Slots : Established(req'[q], users, births)
    BY <1>0, <1>3, PutKeeps DEF Return
  <2>2. AdminRemains'
    BY <1>1, <1>2, <1>3 DEF AccountsInv, AdminRemains, Admins
  <2>3. Table(users', births') /\ Grows(users, births, users', births')
    BY <1>0, <1>1, <1>3 DEF Table, Grows, Shapes
  <2>4. QED
    BY <1>1, <1>3, <2>1, <2>2, <2>3, UsersWritten
<1>4. ASSUME NEW u \in Numbered(req[p].row.id), NEW v \in User,
             v.id = u.id, v.name = u.name, v.born = u.born, SetRow(u, v), secrets' \in Nat,
             Put(p, [req[p] EXCEPT !.pc = "revoke", !.row.pw = secrets']),
             req[p].op = "set_role" => v.role = req[p].arg,
             req[p].op # "set_role" => v.role = u.role
      PROVE  AccountsInv'
  <2>1. u \in users /\ u.id = req[p].row.id
    BY DEF Numbered
  <2>2. /\ Table(users', births') /\ Grows(users, births, users', births')
        /\ v \in users' /\ \A w \in users : w # u => w \in users'
    BY <1>1, <1>4, <2>1, RowReplaced
  <2> DEFINE r == [req[p] EXCEPT !.pc = "revoke", !.row.pw = secrets']
  <2>3. /\ r \in Request /\ r.pc = "revoke" /\ r.op = req[p].op /\ r.arg = req[p].arg
        /\ r.who = req[p].who /\ r.row.id = req[p].row.id /\ r.row.name = req[p].row.name
        /\ r.row.born = req[p].row.born /\ r.name = req[p].name
    BY <1>1, <1>4 DEF Request, User
  <2> HIDE DEF r
  <2>4. Established(r, users, births)
    BY <1>1, <2>3 DEF Established, Read
  <2>5. req' \in [Slots -> Request] /\ \A q \in Slots : Established(req'[q], users, births)
    BY <1>4, <2>3, <2>4, PutKeeps DEF r
  <2>6. u.name = req[p].name
    BY <1>1, <2>1 DEF Established, Read
  <2>7. AdminRemains'
    <3>1. CASE req[p].op # "set_role"
      <4>1. Admins # {} => Admins' # {}
        BY <1>4, <2>1, <2>2, <3>1 DEF Admins
      <4>2. QED
        BY <1>1, <1>2, <3>1, <4>1 DEF AccountsInv, AdminRemains
    <3>2. CASE req[p].op = "set_role" /\ req[p].arg = "admin"
      BY <1>4, <2>2, <3>2 DEF Admins, AdminRemains
    <3>3. CASE req[p].op = "set_role" /\ req[p].arg = "member"
      <4>1. req[p].name # req[p].who.name
        BY <1>1, <3>3 DEF Established, Unseats
      <4>2. ASSUME NEW w \in Admins \cap Named(req[p].who.name)
            PROVE  w \in Admins'
        BY <2>2, <2>6, <4>1 DEF Admins, Named
      <4>3. QED
        BY <1>2, <3>3, <4>2 DEF AdminRemains
    <3>4. req[p].op = "set_role" => req[p].arg \in {"admin", "member"}
      BY <1>1 DEF Established, Roles
    <3>5. QED
      BY <3>1, <3>2, <3>3, <3>4
  <2>8. QED
    BY <1>1, <1>4, <2>2, <2>5, <2>7, UsersWritten
<1>5. ASSUME NEW u \in Numbered(req[p].row.id), req[p].op = "set_role",
             SetRow(u, [u EXCEPT !.role = req[p].arg]), UNCHANGED secrets,
             Put(p, [req[p] EXCEPT !.pc = "revoke", !.row.pw = secrets'])
      PROVE  AccountsInv'
  <2>1. u \in User /\ req[p].arg \in Roles
    BY <1>0, <1>1, <1>5 DEF Numbered, Table, Established
  <2> DEFINE v == [u EXCEPT !.role = req[p].arg]
  <2>2. v \in User /\ v.id = u.id /\ v.name = u.name /\ v.born = u.born /\ v.role = req[p].arg
    BY <2>1 DEF User
  <2> HIDE DEF v
  <2>3. SetRow(u, v) /\ secrets' \in Nat
    BY <1>1, <1>5 DEF v
  <2>4. QED
    BY <1>4, <1>5, <2>2, <2>3
<1>6. ASSUME NEW u \in Numbered(req[p].row.id), req[p].op # "set_role",
             SetRow(u, [u EXCEPT !.pw = secrets + 1]), secrets' = secrets + 1,
             Put(p, [req[p] EXCEPT !.pc = "revoke", !.row.pw = secrets'])
      PROVE  AccountsInv'
  <2>1. u \in User
    BY <1>0, <1>6 DEF Numbered, Table
  <2> DEFINE v == [u EXCEPT !.pw = secrets + 1]
  <2>2. v \in User /\ v.id = u.id /\ v.name = u.name /\ v.born = u.born /\ v.role = u.role
    BY <1>1, <2>1 DEF User
  <2> HIDE DEF v
  <2>3. SetRow(u, v) /\ secrets' \in Nat
    BY <1>1, <1>6 DEF v
  <2>4. QED
    BY <1>4, <1>6, <2>2, <2>3
<1>7. QED
  BY <1>3, <1>5, <1>6 DEF Update

(* The second step of delete_user.  The row is of another user than the     *)
(* requester: if that one is still an admin, an admin is left.              *)
LEMMA DeleteStep ==
    ASSUME AccountsInv, NEW p \in Slots, DeleteRow(p)
    PROVE  AccountsInv'
<1> USE DEF rows, counts, history
<1>0. Table(users, births) /\ Shapes
  BY DEF AccountsInv
<1>1. /\ req[p] \in Request /\ Established(req[p], users, births) /\ req[p].pc = "row"
      /\ UNCHANGED <<births, secrets, owned, made, sessions, hub>>
      /\ hub' \in {"down", "up", "failed"} /\ secrets' \in Nat
  BY <1>0 DEF AccountsInv, Shapes, DeleteRow
<1>2. /\ users' = users \ Named(req[p].name)
      /\ stale' = (stale \/ Admins \cap Named(req[p].who.name) = {})
  BY DEF DeleteRow
<1>3. Table(users', births') /\ Grows(users, births, users', births')
  BY <1>0, <1>1, <1>2 DEF Table, Grows, Shapes
<1> DEFINE r == [req[p] EXCEPT !.pc = "revoke"]
<1>4. /\ r \in Request /\ r.pc = "revoke" /\ r.op = req[p].op /\ r.arg = req[p].arg
      /\ r.who = req[p].who /\ r.row = req[p].row
  BY <1>1 DEF Request
<1>5. Put(p, r)
  BY DEF DeleteRow, Goto
<1> HIDE DEF r
<1>6. Established(r, users, births)
  BY <1>1, <1>4 DEF Established
<1>7. req' \in [Slots -> Request] /\ \A q \in Slots : Established(req'[q], users, births)
  BY <1>4, <1>5, <1>6, PutKeeps
<1>8. AdminRemains'
  <2>1. req[p].name # req[p].who.name
    BY <1>1 DEF Established, Unseats
  <2>2. ASSUME NEW w \in Admins \cap Named(req[p].who.name)
        PROVE  w \in Admins'
    BY <1>2, <2>1 DEF Admins, Named
  <2>3. QED
    BY <1>2, <2>2 DEF AdminRemains
<1>9. QED
  BY <1>1, <1>3, <1>7, <1>8, UsersWritten

-----------------------------------------------------------------------------
(* No sequence of requests, drops and restarts leads out of the invariant: *)
(* every handler of users.rs and auth_routes.rs, the writes of tokens and  *)
(* permissions in storage.rs and bootstrap_admin keep it.                  *)
THEOREM AccountsInvariant == Spec => []AccountsInv
<1>1. Init => AccountsInv
  <2> SUFFICES ASSUME Init PROVE AccountsInv
    OBVIOUS
  <2>1. Table(users, births) /\ births \in Nat /\ Personal(owned, births)
    BY DEF Init, Table, Personal
  <2>2. Shapes /\ \A p \in Slots : Established(req[p], users, births)
    BY <2>1, IdleEstablished DEF Init, Shapes
  <2>3. AdminRemains
    BY DEF Init, AdminRemains
  <2>4. QED
    BY <2>1, <2>2, <2>3 DEF AccountsInv
<1>2. AccountsInv /\ [Next]_vars => AccountsInv'
  <2> SUFFICES ASSUME AccountsInv, [Next]_vars PROVE AccountsInv'
    OBVIOUS
  <2>1. CASE UNCHANGED vars
    BY <2>1, UsersUntouched DEF vars, rows, counts, history, AccountsInv, Shapes
  <2>2. CASE Next
    BY <2>2, LoginSteps, ArrivalSteps, ReadSteps, OwnedSteps, RevokeSteps, EndingSteps,
       InsertSteps, UpdateStep, DeleteStep DEF Next
  <2>3. QED
    BY <2>1, <2>2
<1>3. QED
  BY <1>1, <1>2, PTL DEF Spec

(* The type invariant: in particular no two rows of users share a name or   *)
(* an id, whatever order INSERT, UPDATE and DELETE come in.                 *)
THEOREM TypeCorrect == Spec => []TypeOK
<1>1. AccountsInv => TypeOK
  BY DEF AccountsInv, Shapes, Table, Personal, Request, Session, Owned, User, TypeOK
<1>2. QED
  BY <1>1, AccountsInvariant, PTL

(* From the first start on there is an admin, unless a demotion or deletion *)
(* was carried out for somebody who was no admin any more: the self checks  *)
(* of update_user and delete_user suffice, and a hub whose start fails for  *)
(* want of an admin had such a stale write before.                          *)
THEOREM AdminAlwaysRemains == Spec => []AdminRemains
<1>1. AccountsInv => AdminRemains
  BY DEF AccountsInv
<1>2. QED
  BY <1>1, AccountsInvariant, PTL

(* Grants and tokens that outlive their user fall to no later one: ids are  *)
(* AUTOINCREMENT, and delete_user leaves the tokens behind.                 *)
THEOREM OwnershipPersonal == Spec => []RowsStayPersonal
<1>1. AccountsInv => RowsStayPersonal
  BY DEF AccountsInv, Table, Personal, RowsStayPersonal, Numbered
<1>2. QED
  BY <1>1, AccountsInvariant, PTL

-----------------------------------------------------------------------------
(* Sessions and credentials. *)

\* a revocation under way that ends session s, and one that keeps it: the
\* change of password that came with it
Ends(r, s) ==
    r.pc = "revoke" /\ r.name = s.name /\ ~(r.op = "password" /\ r.key = s.key)

Keeps(r, s) ==
    r.pc = "revoke" /\ r.name = s.name /\ r.op = "password" /\ r.key = s.key

\* the session a login in progress is about to insert
AsSession(r) ==
    [key |-> r.key, name |-> r.name, born |-> r.row.born, pw |-> r.row.pw, late |-> r.late]

Logins == {p \in Slots : req[p].pc = "login"}

Opened == sessions \cup {AsSession(req[p]) : p \in Logins}

\* Why session s may stand in a state with users us, requests rq and skipped
\* sk.  A session that is kept may be behind its row until the request that
\* keeps it has revoked the others.
Backed(s, us, rq) ==
    \E u \in us : /\ u.name = s.name /\ u.born = s.born
                  /\ u.pw = s.pw \/ \E q \in Slots : Keeps(rq[q], s) /\ u.pw = rq[q].row.pw

Follows(s, us, rq, sk) ==
    \/ s.late \/ s.name \in sk
    \/ \E q \in Slots : Ends(rq[q], s)
    \/ Backed(s, us, rq)

Credentials == \A s \in Opened : Follows(s, users, req, skipped)

\* password w is not newer than the one of the row of name n
NotAhead(w, n, us, sec) == w <= sec /\ \A u \in us : u.name = n => w <= u.pw

\* the passwords that sessions and finished changes know are no newer than
\* the ones in the table
Ages ==
    /\ \A s \in Opened : NotAhead(s.pw, s.name, users, secrets)
    /\ \A p \in Slots : Keeps(req[p], req[p]) => NotAhead(req[p].row.pw, req[p].name, users, secrets)
    /\ \A u \in users : u.pw <= secrets

\* a login's key is its own
Keys ==
    /\ \A s \in Opened : s.key <= made
    /\ \A p \in Slots : req[p].op = "password" => req[p].key <= made
    /\ \A p \in Logins :
          /\ \A s \in sessions : s.key # req[p].key
          /\ \A q \in Slots : req[q].op = "password" => req[q].key # req[p].key
          /\ \A q \in Logins : q # p => req[q].key # req[p].key

NobodyServed == hub # "up" => sessions = {} /\ req = [p \in Slots |-> Idle]

(* The inductive invariant of the sessions. *)
SessionInv == Credentials /\ Ages /\ Keys /\ NobodyServed

(* What the session map and the logins in progress hold are sessions. *)
LEMMA OpenedShape ==
    ASSUME AccountsInv
    PROVE  /\ Opened \subseteq Session
           /\ \A p \in Slots : req[p] \in Request /\ AsSession(req[p]) \in Session
<1>1. \A p \in Slots : req[p] \in Request
  BY DEF AccountsInv, Shapes
<1>2. ASSUME NEW r \in Request PROVE AsSession(r) \in Session
  BY DEF AsSession, Session, Request, User
<1>3. QED
  BY <1>1, <1>2 DEF Opened, Logins, AccountsInv, Shapes

(* A session goes on standing when its row stays as it is and the           *)
(* revocations under way for its user go on.                                *)
LEMMA FollowsLasts ==
    ASSUME NEW s, NEW us, NEW vs, NEW rq, NEW rr, NEW sk, NEW tk,
           Follows(s, us, rq, sk),
           s.name \in sk => s.name \in tk,
           \A q \in Slots : rq[q].pc = "revoke" /\ rq[q].name = s.name => rr[q] = rq[q],
           \A u \in us : u.name = s.name => u \in vs
    PROVE  Follows(s, vs, rr, tk)
<1>1. \A q \in Slots : Ends(rq[q], s) => Ends(rr[q], s)
  BY Zenon DEF Ends
<1>2. \A q \in Slots : Keeps(rq[q], s) => Keeps(rr[q], s) /\ rr[q] = rq[q]
  BY Zenon DEF Keeps
<1>3. Backed(s, us, rq) => Backed(s, vs, rr)
  BY <1>2, ZenonT(40) DEF Backed
<1>4. QED
  BY <1>1, <1>3, Zenon DEF Follows

(* A step of the request at p that revokes nothing and opens no session.    *)
LEMMA QuietStep ==
    ASSUME AccountsInv, SessionInv, NEW p \in Slots, NEW r \in Request, Put(p, r),
           req[p].pc # "revoke", r.pc \notin {"revoke", "login"},
           UNCHANGED <<users, secrets, skipped, hub>>, hub = "up",
           made' \in Nat, made <= made',
           sessions' \subseteq Opened,
           \A s \in sessions' : \A q \in Logins : q # p => s.key # req[q].key,
           r.op = "password" => /\ r.key <= made
                                /\ \A q \in Logins : q # p => req[q].key # r.key
    PROVE  SessionInv'
<1>1. req' = [req EXCEPT ![p] = r] /\ req \in [Slots -> Request]
  BY DEF Put, AccountsInv, Shapes
<1>2. req'[p] = r /\ \A q \in Slots : q # p => req'[q] = req[q]
  BY <1>1
<1>3. Logins' = Logins \ {p}
  BY <1>2 DEF Logins
<1>4. Opened' \subseteq Opened
  BY <1>2, <1>3 DEF Opened, Logins
<1>5. Credentials'
  <2> SUFFICES ASSUME NEW s \in Opened' PROVE Follows(s, users', req', skipped')
    BY Zenon DEF Credentials
  <2>1. Follows(s, users, req, skipped)
    BY <1>4 DEF SessionInv, Credentials
  <2>2. \A q \in Slots : req[q].pc = "revoke" /\ req[q].name = s.name => req'[q] = req[q]
    BY <1>2
  <2>3. QED
    BY <2>1, <2>2, FollowsLasts, ZenonT(40)
<1>6. Ages'
  <2>1. \A s \in Opened' : NotAhead(s.pw, s.name, users', secrets')
    BY <1>4 DEF SessionInv, Ages
  <2>2. \A q \in Slots : Keeps(req'[q], req'[q]) =>
           NotAhead(req'[q].row.pw, req'[q].name, users', secrets')
    BY <1>2 DEF SessionInv, Ages, Keeps
  <2>3. \A u \in users' : u.pw <= secrets'
    BY DEF SessionInv, Ages
  <2>4. QED
    BY <2>1, <2>2, <2>3 DEF Ages
<1>7. Keys'
  <2>0. made \in Nat /\ Opened \subseteq Session
    BY OpenedShape DEF AccountsInv, Shapes
  <2>1. \A s \in Opened' : s.key <= made'
    BY <1>4, <2>0 DEF SessionInv, Keys, Session
  <2>2. \A q \in Slots : req'[q].op = "password" => req'[q].key <= made'
    BY <1>1, <1>2, <2>0 DEF SessionInv, Keys, Request
  <2>3. ASSUME NEW q \in Logins'
        PROVE  /\ \A s \in sessions' : s.key # req'[q].key
               /\ \A x \in Slots : req'[x].op = "password" => req'[x].key # req'[q].key
               /\ \A x \in Logins' : x # q => req'[x].key # req'[q].key
    <3>1. q \in Logins /\ q # p /\ q \in Slots /\ req'[q] = req[q]
      BY <1>2, <1>3 DEF Logins
    <3>2. /\ \A x \in Slots : req[x].op = "password" => req[x].key # req[q].key
          /\ \A x \in Logins : x # q => req[x].key # req[q].key
      BY <3>1 DEF SessionInv, Keys
    <3>3. \A x \in Slots : req'[x].op = "password" => req'[x].key # req'[q].key
      BY <1>2, <3>1, <3>2
    <3>4. \A x \in Logins' : x # q => req'[x].key # req'[q].key
      BY <1>2, <1>3, <3>1, <3>2 DEF Logins
    <3>5. QED
      BY <3>1, <3>3, <3>4
  <2>4. QED
    BY <2>1, <2>2, <2>3 DEF Keys
<1>8. QED
  BY <1>5, <1>6, <1>7 DEF SessionInv, NobodyServed

(* Nothing but sessions removed, or nothing at all. *)
LEMMA SessionsRemoved ==
    ASSUME AccountsInv, SessionInv, UNCHANGED <<users, secrets, skipped, hub, req>>,
           sessions' \subseteq sessions, made' \in Nat, made <= made'
    PROVE  SessionInv'
<1>1. Logins' = Logins /\ Opened' \subseteq Opened
  BY DEF Logins, Opened
<1>2. Credentials'
  BY <1>1, Zenon DEF SessionInv, Credentials
<1>3. Ages'
  BY <1>1 DEF SessionInv, Ages
<1>4. Keys'
  <2>0. made \in Nat /\ Opened \subseteq Session /\ \A q \in Slots : req[q].key \in Nat
    BY OpenedShape DEF AccountsInv, Shapes, Request
  <2>1. \A s \in Opened' : s.key <= made'
    BY <1>1, <2>0 DEF SessionInv, Keys, Session
  <2>2. \A q \in Slots : req'[q].op = "password" => req'[q].key <= made'
    BY <2>0 DEF SessionInv, Keys
  <2>3. QED
    BY <1>1, <2>1, <2>2 DEF SessionInv, Keys
<1>5. NobodyServed'
  BY DEF SessionInv, NobodyServed
<1>6. QED
  BY <1>2, <1>3, <1>4, <1>5 DEF SessionInv

(* A request is served only while the hub is up. *)
LEMMA ServedWhenUp ==
    ASSUME SessionInv, NEW p \in Slots, req[p] # Idle
    PROVE  hub = "up"
BY DEF SessionInv, NobodyServed

(* login: the key of a new login is above all keys in use. *)
LEMMA LoginOpens ==
    ASSUME AccountsInv, SessionInv, NEW p \in Slots, NEW n \in Names, LoginFind(p, n)
    PROVE  SessionInv'
<1> USE DEF rows, counts, history
<1>0. Table(users, births) /\ Shapes /\ Idle \in Request /\ Opened \subseteq Session
  BY IdleEstablished, OpenedShape DEF AccountsInv, Shapes
<1>1. PICK u \in Named(n) : Put(p, [Idle EXCEPT !.pc = "login", !.op = "login", !.name = n,
                                                !.key = made + 1, !.row = u])
  BY DEF LoginFind
<1> DEFINE r == [Idle EXCEPT !.pc = "login", !.op = "login", !.name = n,
                             !.key = made + 1, !.row = u]
<1>2. u \in users /\ u \in User /\ u.name = n
  BY <1>0, <1>1 DEF Named, Table
<1>3. r.pc = "login" /\ r.op = "login" /\ r.name = n /\ r.key = made + 1 /\ r.row = u
  BY DEF Idle
<1>4. req' = [req EXCEPT ![p] = r] /\ req \in [Slots -> Request] /\ req[p] = Idle
  BY <1>0, <1>1 DEF Put, Shapes, LoginFind
<1> HIDE DEF r
<1>5. req'[p] = r /\ \A q \in Slots : q # p => req'[q] = req[q]
  BY <1>4
<1>6. req[p].pc = "idle" /\ Logins' = Logins \cup {p} /\ p \notin Logins
  BY <1>3, <1>4, <1>5 DEF Logins, Idle
<1>7. /\ UNCHANGED <<users, secrets, sessions, skipped, hub>> /\ hub = "up"
      /\ made' = made + 1 /\ made \in Nat /\ secrets \in Nat
  BY <1>0 DEF LoginFind, Admit, Shapes
<1> DEFINE t == AsSession(r)
<1>8. t.key = made + 1 /\ t.name = n /\ t.born = u.born /\ t.pw = u.pw
  BY <1>3 DEF AsSession
<1>9. Opened' = Opened \cup {t}
  <2>1. \A q \in Logins : req'[q] = req[q]
    BY <1>5, <1>6 DEF Logins
  <2>2. {AsSession(req'[q]) : q \in Logins'} = {AsSession(req[q]) : q \in Logins} \cup {t}
    BY <1>5, <1>6, <2>1
  <2>3. QED
    BY <1>7, <2>2 DEF Opened
<1> HIDE DEF t
<1>10. Credentials'
  <2> SUFFICES ASSUME NEW s \in Opened' PROVE Follows(s, users', req', skipped')
    BY Zenon DEF Credentials
  <2>1. CASE s \in Opened
    <3>1. Follows(s, users, req, skipped)
      BY <2>1 DEF SessionInv, Credentials
    <3>2. \A q \in Slots : req[q].pc = "revoke" /\ req[q].name = s.name => req'[q] = req[q]
      BY <1>5, <1>6
    <3>3. QED
      BY <1>7, <3>1, <3>2, FollowsLasts, ZenonT(40)
  <2>2. CASE s = t
    BY <1>2, <1>7, <1>8, <2>2, Zenon DEF Follows, Backed
  <2>3. QED
    BY <1>9, <2>1, <2>2
<1>11. Ages'
  <2>1. NotAhead(t.pw, t.name, users, secrets)
    BY <1>0, <1>2, <1>8 DEF NotAhead, SessionInv, Ages, Table, User
  <2>2. \A s \in Opened' : NotAhead(s.pw, s.name, users', secrets')
    BY <1>7, <1>9, <2>1 DEF SessionInv, Ages
  <2>3. \A q \in Slots : Keeps(req'[q], req'[q]) =>
           NotAhead(req'[q].row.pw, req'[q].name, users', secrets')
    BY <1>3, <1>5, <1>7 DEF SessionInv, Ages, Keeps
  <2>4. QED
    BY <1>7, <2>2, <2>3 DEF SessionInv, Ages
<1>12. Keys'
  <2>1. \A s \in Opened : s.key \in Nat /\ s.key <= made
    BY <1>0 DEF SessionInv, Keys, Session
  <2>2. \A q \in Slots : req[q].key \in Nat /\ (req[q].op = "password" => req[q].key <= made)
    BY <1>4 DEF SessionInv, Keys, Request
  <2>3. \A q \in Logins : req[q].key <= made
    <3>1. ASSUME NEW q \in Logins PROVE AsSession(req[q]) \in Opened /\ AsSession(req[q]).key = req[q].key
      BY DEF Opened, AsSession
    <3>2. QED
      BY <2>1, <3>1
  <2>4. \A s \in Opened' : s.key <= made'
    BY <1>7, <1>8, <1>9, <2>1
  <2>5. \A q \in Slots : req'[q].op = "password" => req'[q].key <= made'
    BY <1>3, <1>5, <1>7, <2>2
  <2>6. ASSUME NEW q \in Logins'
        PROVE  /\ \A s \in sessions' : s.key # req'[q].key
               /\ \A x \in Slots : req'[x].op = "password" => req'[x].key # req'[q].key
               /\ \A x \in Logins' : x # q => req'[x].key # req'[q].key
    <3>0. sessions \subseteq Opened
      BY DEF Opened
    <3>1. CASE q = p
      <4>1. \A x \in Logins' : x # q => x \in Logins /\ req'[x] = req[x] /\ x \in Slots
        BY <1>5, <1>6, <3>1 DEF Logins
      <4>2. QED
        BY <1>3, <1>5, <1>7, <2>1, <2>2, <2>3, <3>0, <3>1, <4>1
    <3>2. CASE q # p
      <4>1. q \in Logins /\ q \in Slots /\ req'[q] = req[q] /\ req[q].key <= made
        BY <1>5, <1>6, <2>3, <3>2 DEF Logins
      <4>2. /\ \A s \in sessions : s.key # req[q].key
            /\ \A x \in Slots : req[x].op = "password" => req[x].key # req[q].key
            /\ \A x \in Logins : x # q => req[x].key # req[q].key
        BY <4>1 DEF SessionInv, Keys
      <4>3. \A x \in Slots : req'[x].op = "password" => req'[x].key # req'[q].key
        BY <1>3, <1>5, <4>1, <4>2
      <4>4. made + 1 # req[q].key
        BY <1>7, <2>2, <4>1
      <4>5. \A x \in Logins' : x # q => req'[x].key # req'[q].key
        BY <1>3, <1>5, <1>6, <4>1, <4>2, <4>4 DEF Logins
      <4>6. QED
        BY <1>7, <4>1, <4>2, <4>3, <4>5
    <3>3. QED
      BY <3>1, <3>2
  <2>7. QED
    BY <2>4, <2>5, <2>6 DEF Keys
<1>13. NobodyServed'
  BY <1>7 DEF NobodyServed
<1>14. QED
  BY <1>10, <1>11, <1>12, <1>13 DEF SessionInv

(* The steps of a request that write no row of users and end no session. *)
LEMMA QuietSteps ==
    ASSUME AccountsInv, SessionInv, NEW p \in Slots,
           \/ \E op \in Ops, n \in Names, s \in sessions :
                /\ op \in {"password", "token"} => n = s.name
                /\ \E arg \in Arg(op) : Lookup(p, op, n, arg, s)
           \/ \E n \in Names, arg \in Levels, g \in owned : Bearer(p, n, arg, g)
           \/ LoginInsert(p) \/ Load(p) \/ Find(p)
           \/ DeleteGrants(p) \/ CreateToken(p) \/ ReplaceGrants(p)
    PROVE  SessionInv'
<1> USE DEF rows, counts, history
<1>0. /\ Shapes /\ Idle \in Request /\ Opened \subseteq Session /\ sessions \subseteq Opened
      /\ req[p] \in Request /\ made \in Nat /\ made <= made
  BY IdleEstablished, OpenedShape DEF AccountsInv, Shapes, Opened
<1>1. req' \in [Slots -> Request]
  <2>1. AccountsInv'
    BY LoginSteps, ArrivalSteps, ReadSteps, OwnedSteps
  <2>2. QED
    BY <2>1 DEF AccountsInv, Shapes
<1>2. \A s \in sessions : \A q \in Logins : q # p => s.key # req[q].key
  BY DEF SessionInv, Keys
<1>3. \A q \in Logins : req[p].op = "password" => req[p].key <= made /\ req[q].key # req[p].key
  BY DEF SessionInv, Keys
<1>4. \A r \in Request : Put(p, r) => req'[p] = r
  BY <1>0 DEF Put, Shapes
<1>5. Idle.pc = "idle" /\ Idle.op = "none"
  BY DEF Idle
<1>6. ASSUME NEW op \in Ops, NEW n \in Names, NEW s \in sessions, NEW arg \in Arg(op),
             Lookup(p, op, n, arg, s)
      PROVE  SessionInv'
  <2>1. /\ hub = "up" /\ UNCHANGED <<users, secrets, skipped, hub>>
        /\ req[p] = Idle /\ made' \in Nat /\ made <= made'
    <3>1. /\ hub = "up" /\ UNCHANGED <<users, secrets, skipped, hub>>
          /\ req[p] = Idle /\ made' = made + 1
      BY <1>6, Zenon DEF Lookup, Admit
    <3>2. QED
      BY <1>0, <3>1
  <2>2. CASE sessions' = sessions \ {s} /\ UNCHANGED req
    BY <2>1, <2>2, SessionsRemoved
  <2> DEFINE r == [Idle EXCEPT !.pc = "load", !.op = op, !.name = n, !.arg = arg,
                               !.who = [NoRow EXCEPT !.name = s.name], !.key = s.key]
  <2>3. CASE Put(p, r) /\ UNCHANGED sessions
    <3>1. r.pc = "load" /\ r.key = s.key
      BY DEF Idle
    <3> HIDE DEF r
    <3>2. req' = [req EXCEPT ![p] = r]
      BY <2>3 DEF Put
    <3>3. r \in Request
      BY <1>0, <1>1, <3>2 DEF Shapes
    <3>4. s.key <= made /\ \A q \in Logins : req[q].key # s.key
      BY <1>0 DEF SessionInv, Keys
    <3>5. QED
      BY <1>0, <1>2, <1>5, <2>1, <2>3, <3>1, <3>3, <3>4, QuietStep
  <2>4. QED
    BY <1>6, <2>2, <2>3 DEF Lookup
<1>7. ASSUME NEW r, Put(p, r), req[p].pc # "revoke", r.pc \notin {"revoke", "login"},
             UNCHANGED <<users, secrets, skipped, hub>>, hub = "up",
             made' \in Nat, made <= made', UNCHANGED sessions,
             r.op = "password" => req[p].op = "password" /\ r.key = req[p].key
      PROVE  SessionInv'
  <2>1. req' = [req EXCEPT ![p] = r]
    BY <1>7 DEF Put
  <2>2. r \in Request
    BY <1>0, <1>1, <2>1 DEF Shapes
  <2>3. r.op = "password" => r.key <= made /\ \A q \in Logins : q # p => req[q].key # r.key
    BY <1>7 DEF SessionInv, Keys
  <2>4. QED
    BY <1>0, <1>2, <1>7, <2>2, <2>3, QuietStep
<1>8. ASSUME NEW n \in Names, NEW arg \in Levels, NEW g \in owned, Bearer(p, n, arg, g)
      PROVE  SessionInv'
  <2>1. /\ hub = "up" /\ UNCHANGED <<users, secrets, skipped, hub, sessions>>
        /\ req[p] = Idle /\ made' \in Nat /\ made <= made'
    <3>1. /\ hub = "up" /\ UNCHANGED <<users, secrets, skipped, hub, sessions>>
          /\ req[p] = Idle /\ made' = made + 1
      BY <1>8, Zenon DEF Bearer, Admit
    <3>2. QED
      BY <1>0, <3>1
  <2>2. PICK u : Put(p, [Idle EXCEPT !.pc = "find", !.op = "permissions", !.name = n, !.arg = arg, !.who = u])
    BY <1>8 DEF Bearer
  <2> DEFINE r == [Idle EXCEPT !.pc = "find", !.op = "permissions", !.name = n, !.arg = arg, !.who = u]
  <2>3. r.pc = "find" /\ r.op = "permissions"
    BY DEF Idle
  <2> HIDE DEF r
  <2>4. QED
    BY <1>5, <1>7, <2>1, <2>2, <2>3 DEF r
<1>9. ASSUME req[p] # Idle, UNCHANGED <<users, secrets, skipped, hub, made, sessions>>,
             req[p].pc # "revoke", NEW r, Put(p, r), r.pc \notin {"revoke", "login"},
             r.op = "password" => req[p].op = "password" /\ r.key = req[p].key
      PROVE  SessionInv'
  BY <1>0, <1>7, <1>9, ServedWhenUp
<1>10. CASE LoginInsert(p)
  <2>1. req[p].pc = "login" /\ req[p] # Idle /\ p \in Logins
    BY <1>5, <1>10 DEF LoginInsert, Logins
  <2>2. sessions' = sessions \cup {AsSession(req[p])} /\ AsSession(req[p]).key = req[p].key
    BY <1>10 DEF LoginInsert, AsSession
  <2>3. sessions' \subseteq Opened
    BY <2>1, <2>2 DEF Opened
  <2>4. \A q \in Logins : q # p => req[p].key # req[q].key
    BY <2>1 DEF SessionInv, Keys
  <2>5. Put(p, Idle) /\ UNCHANGED <<users, secrets, skipped, hub, made>>
    BY <1>10 DEF LoginInsert, Return
  <2>6. QED
    BY <1>0, <1>2, <1>5, <2>1, <2>2, <2>3, <2>4, <2>5, ServedWhenUp, QuietStep
<1>11. CASE Load(p)
  <2>1. req[p].pc = "load" /\ req[p] # Idle /\ UNCHANGED <<users, secrets, skipped, hub, made, sessions>>
    BY <1>5, <1>11 DEF Load
  <2>2. CASE Put(p, Idle)
    BY <1>5, <1>9, <2>1, <2>2
  <2>3. ASSUME NEW u, Put(p, [req[p] EXCEPT !.who = u, !.pc = "find"])
        PROVE  SessionInv'
    <3> DEFINE r == [req[p] EXCEPT !.who = u, !.pc = "find"]
    <3>1. r.pc = "find" /\ r.op = req[p].op /\ r.key = req[p].key
      BY <1>0 DEF Request
    <3> HIDE DEF r
    <3>2. QED
      BY <1>9, <2>1, <2>3, <3>1 DEF r
  <2>4. QED
    BY <1>11, <2>2, <2>3 DEF Load, Return
<1>12. CASE Find(p)
  <2>1. req[p].pc = "find" /\ req[p] # Idle /\ UNCHANGED <<users, secrets, skipped, hub, made, sessions>>
    BY <1>5, <1>12 DEF Find
  <2>2. CASE Put(p, Idle)
    BY <1>5, <1>9, <2>1, <2>2
  <2>3. CASE Goto(p, "write")
    <3> DEFINE r == [req[p] EXCEPT !.pc = "write"]
    <3>1. r.pc = "write" /\ r.op = req[p].op /\ r.key = req[p].key
      BY <1>0 DEF Request
    <3> HIDE DEF r
    <3>2. QED
      BY <1>9, <2>1, <2>3, <3>1 DEF r, Goto
  <2>4. ASSUME NEW u, Put(p, [req[p] EXCEPT !.row = u, !.pc = IF req[p].op = "delete" THEN "grants" ELSE "write"])
        PROVE  SessionInv'
    <3> DEFINE r == [req[p] EXCEPT !.row = u, !.pc = IF req[p].op = "delete" THEN "grants" ELSE "write"]
    <3>1. r.pc \in {"grants", "write"} /\ r.op = req[p].op /\ r.key = req[p].key
      BY <1>0 DEF Request
    <3> HIDE DEF r
    <3>2. QED
      BY <1>9, <2>1, <2>4, <3>1 DEF r
  <2>5. QED
    BY <1>12, <2>2, <2>3, <2>4 DEF Find, Return
<1>13. CASE DeleteGrants(p)
  <2> DEFINE r == [req[p] EXCEPT !.pc = "row"]
  <2>1. r.pc = "row" /\ r.op = req[p].op /\ r.key = req[p].key
    BY <1>0 DEF Request
  <2>2. /\ req[p].pc = "grants" /\ req[p] # Idle /\ Put(p, r)
        /\ UNCHANGED <<users, secrets, skipped, hub, made, sessions>>
    BY <1>5, <1>13 DEF DeleteGrants, Goto
  <2> HIDE DEF r
  <2>3. QED
    BY <1>9, <2>1, <2>2
<1>14. CASE CreateToken(p) \/ ReplaceGrants(p)
  <2>1. /\ req[p].pc = "write" /\ req[p] # Idle /\ Put(p, Idle)
        /\ UNCHANGED <<users, secrets, skipped, hub, made, sessions>>
    BY <1>5, <1>14 DEF CreateToken, ReplaceGrants, Return
  <2>2. QED
    BY <1>5, <1>9, <2>1
<1>15. QED
  BY <1>6, <1>8, <1>10, <1>11, <1>12, <1>13, <1>14

(* A step of the request at p that writes the table of users: every password *)
(* it writes is the newest of its user, and a session whose row it changes   *)
(* stands for another reason.                                                *)
LEMMA CredentialsWritten ==
    ASSUME AccountsInv, SessionInv, NEW p \in Slots, NEW r \in Request, Put(p, r),
           req[p].pc \notin {"revoke", "login"}, r.pc # "login", req[p] # Idle,
           UNCHANGED <<sessions, made, hub, skipped>>,
           r.op = "password" => req[p].op = "password" /\ r.key = req[p].key,
           users' \subseteq User, secrets' \in Nat, secrets <= secrets',
           \A v \in users' : /\ v.pw <= secrets'
                             /\ \/ secrets < v.pw
                                \/ \E u \in users : u.name = v.name /\ u.pw <= v.pw,
           Keeps(r, r) => NotAhead(r.row.pw, r.name, users', secrets'),
           \A s \in Opened : \/ \A u \in users : u.name = s.name => u \in users'
                             \/ Follows(s, users', req', skipped)
    PROVE  SessionInv'
<1>0. /\ made \in Nat /\ secrets \in Nat /\ users \subseteq User /\ Opened \subseteq Session
      /\ \A q \in Slots : req[q] \in Request
  BY OpenedShape DEF AccountsInv, Shapes, Table
<1>1. req' = [req EXCEPT ![p] = r] /\ req \in [Slots -> Request]
  BY DEF Put, AccountsInv, Shapes
<1>2. req'[p] = r /\ \A q \in Slots : q # p => req'[q] = req[q]
  BY <1>1
<1>3. Logins' = Logins /\ p \notin Logins
  BY <1>2 DEF Logins
<1>4. \A q \in Logins : q \in Slots /\ req'[q] = req[q]
  BY <1>2, <1>3 DEF Logins
<1>5. Opened' = Opened
  BY <1>3, <1>4 DEF Opened
<1>6. Credentials'
  <2> SUFFICES ASSUME NEW s \in Opened' PROVE Follows(s, users', req', skipped')
    BY Zenon DEF Credentials
  <2>1. Follows(s, users, req, skipped)
    BY <1>5 DEF SessionInv, Credentials
  <2>2. \A q \in Slots : req[q].pc = "revoke" /\ req[q].name = s.name => req'[q] = req[q]
    BY <1>2
  <2>3. CASE \A u \in users : u.name = s.name => u \in users'
    BY <2>1, <2>2, <2>3, FollowsLasts, ZenonT(40)
  <2>4. QED
    BY <1>5, <2>3, Zenon
<1>7. ASSUME NEW w \in Nat, NEW n, NotAhead(w, n, users, secrets)
      PROVE  NotAhead(w, n, users', secrets')
  BY <1>0, <1>7 DEF NotAhead, User
<1>8. Ages'
  <2>1. \A s \in Opened' : NotAhead(s.pw, s.name, users', secrets')
    <3>1. \A s \in Opened : s.pw \in Nat /\ NotAhead(s.pw, s.name, users, secrets)
      BY <1>0 DEF SessionInv, Ages, Session
    <3>2. QED
      BY <1>5, <1>7, <3>1
  <2>2. ASSUME NEW q \in Slots, Keeps(req'[q], req'[q])
        PROVE  NotAhead(req'[q].row.pw, req'[q].name, users', secrets')
    <3>1. CASE q = p
      BY <1>2, <2>2, <3>1
    <3>2. CASE q # p
      <4>1. req'[q] = req[q] /\ NotAhead(req[q].row.pw, req[q].name, users, secrets)
        BY <1>2, <2>2, <3>2 DEF SessionInv, Ages
      <4>2. req[q].row.pw \in Nat
        BY <1>0 DEF Request, User
      <4>3. QED
        BY <1>7, <4>1, <4>2
    <3>3. QED
      BY <3>1, <3>2
  <2>3. QED
    BY <2>1, <2>2 DEF Ages
<1>9. Keys'
  <2>1. \A s \in Opened' : s.key <= made'
    BY <1>5 DEF SessionInv, Keys
  <2>2. \A q \in Slots : req'[q].op = "password" => req'[q].key <= made'
    BY <1>2 DEF SessionInv, Keys
  <2>3. ASSUME NEW q \in Logins'
        PROVE  /\ \A s \in sessions' : s.key # req'[q].key
               /\ \A x \in Slots : req'[x].op = "password" => req'[x].key # req'[q].key
               /\ \A x \in Logins' : x # q => req'[x].key # req'[q].key
    <3>1. /\ \A s \in sessions : s.key # req[q].key
          /\ \A x \in Slots : req[x].op = "password" => req[x].key # req[q].key
          /\ \A x \in Logins : x # q => req[x].key # req[q].key
      BY <1>3 DEF SessionInv, Keys
    <3>2. QED
      BY <1>2, <1>3, <1>4, <3>1
  <2>4. QED
    BY <2>1, <2>2, <2>3 DEF Keys
<1>10. NobodyServed'
  BY ServedWhenUp DEF NobodyServed
<1>11. QED
  BY <1>6, <1>8, <1>9, <1>10 DEF SessionInv

(* create_user: the row is of a name that had none. *)
LEMMA CreateKeeps ==
    ASSUME AccountsInv, SessionInv, NEW p \in Slots, Create(p)
    PROVE  SessionInv'
<1> USE DEF rows, counts, history
<1>0. /\ Table(users, births) /\ Shapes /\ Idle \in Request /\ made \in Nat /\ made <= made
      /\ secrets \in Nat /\ sessions \subseteq Opened
  BY IdleEstablished DEF AccountsInv, Shapes, Opened
<1>1. Idle.pc = "idle" /\ Idle.op = "none"
  BY DEF Idle
<1>2. /\ req[p].pc = "write" /\ req[p] # Idle /\ Put(p, Idle) /\ hub = "up"
      /\ UNCHANGED <<sessions, made, hub, skipped>>
  BY <1>1, ServedWhenUp DEF Create, Return
<1>3. CASE UNCHANGED rows
  <2>1. \A s \in sessions : \A q \in Logins : q # p => s.key # req[q].key
    BY DEF SessionInv, Keys
  <2>2. QED
    BY <1>0, <1>1, <1>2, <1>3, <2>1, QuietStep
<1>4. CASE InsertUser(req[p].name, req[p].arg)
  <2>1. AccountsInv'
    BY InsertSteps
  <2>2. users' \subseteq User
    BY <2>1 DEF AccountsInv, Table
  <2> DEFINE v == [id |-> NextId, name |-> req[p].name, role |-> req[p].arg,
                   pw |-> secrets + 1, born |-> births + 1]
  <2>3. users' = users \cup {v} /\ secrets' = secrets + 1 /\ v.pw = secrets + 1
    BY <1>4 DEF InsertUser
  <2> HIDE DEF v
  <2>4. \A u \in users : u.pw \in Nat /\ u.pw <= secrets
    BY <1>0 DEF SessionInv, Ages, Table, User
  <2>5. \A w \in users' : /\ w.pw <= secrets'
                          /\ secrets < w.pw \/ \E u \in users : u.name = w.name /\ u.pw <= w.pw
    BY <1>0, <2>3, <2>4
  <2>6. secrets' \in Nat /\ secrets <= secrets'
    BY <1>0, <2>3
  <2>7. QED
    BY <1>0, <1>1, <1>2, <2>2, <2>3, <2>5, <2>6, CredentialsWritten DEF Keeps
<1>5. QED
  BY <1>3, <1>4 DEF Create

(* update_user and change_own_password: from here on the request is to      *)
(* revoke the sessions of the row's user.                                   *)
LEMMA UpdateKeeps ==
    ASSUME AccountsInv, SessionInv, NEW p \in Slots, Update(p)
    PROVE  SessionInv'
<1> USE DEF rows, counts, history
<1>0. /\ Table(users, births) /\ Shapes /\ Idle \in Request /\ made \in Nat /\ made <= made
      /\ secrets \in Nat /\ sessions \subseteq Opened /\ Opened \subseteq Session
      /\ req[p] \in Request /\ Established(req[p], users, births)
  BY IdleEstablished, OpenedShape DEF AccountsInv, Shapes, Opened
<1>1. Idle.pc = "idle" /\ Idle.op = "none"
  BY DEF Idle
<1>2. /\ req[p].pc = "write" /\ req[p] # Idle /\ hub = "up"
      /\ req[p].op \in {"set_role", "reset_password", "password"}
      /\ UNCHANGED <<sessions, made, hub, skipped>>
  BY <1>1, ServedWhenUp DEF Update
<1>3. CASE Return(p) /\ UNCHANGED <<users, secrets>>
  <2>1. \A s \in sessions : \A q \in Logins : q # p => s.key # req[q].key
    BY DEF SessionInv, Keys
  <2>2. QED
    BY <1>0, <1>1, <1>2, <1>3, <2>1, QuietStep DEF Return
<1>4. ASSUME NEW u \in Numbered(req[p].row.id), NEW v \in User,
             v.name = u.name, v.born = u.born, SetRow(u, v), secrets' \in Nat,
             Put(p, [req[p] EXCEPT !.pc = "revoke", !.row.pw = secrets']),
             \/ req[p].op = "set_role" /\ v.pw = u.pw /\ secrets' = secrets
             \/ req[p].op # "set_role" /\ v.pw = secrets' /\ secrets' = secrets + 1
      PROVE  SessionInv'
  <2>1. u \in users /\ u \in User /\ u.name = req[p].name
    BY <1>0, <1>2 DEF Numbered, Table, Established, Read
  <2>2. users' = (users \ {u}) \cup {v} /\ \A w \in users : w.name = u.name => w = u
    BY <1>0, <1>4, <2>1 DEF SetRow, Table
  <2> DEFINE r == [req[p] EXCEPT !.pc = "revoke", !.row.pw = secrets']
  <2>3. /\ r \in Request /\ r.pc = "revoke" /\ r.op = req[p].op /\ r.name = req[p].name
        /\ r.key = req[p].key /\ r.row.pw = secrets'
    BY <1>0, <1>4 DEF Request, User
  <2>4. Put(p, r)
    BY <1>4
  <2> HIDE DEF r
  <2>5. req'[p] = r /\ \A q \in Slots : q # p => req'[q] = req[q]
    BY <1>0, <2>4 DEF Put, Shapes
  <2>6. \A w \in users : w \in User /\ w.pw \in Nat /\ w.pw <= secrets
    BY <1>0 DEF SessionInv, Ages, Table, User
  <2>7. secrets <= secrets' /\ users' \subseteq User /\ v.pw \in Nat /\ v.pw <= secrets'
    BY <1>0, <1>4, <2>1, <2>2, <2>6
  <2>8. \A w \in users' : /\ w.pw <= secrets'
                          /\ secrets < w.pw \/ \E x \in users : x.name = w.name /\ x.pw <= w.pw
    <3>1. ASSUME NEW w \in users
          PROVE  w.pw <= secrets' /\ w.pw <= w.pw
      BY <1>0, <1>4, <2>6, <2>7
    <3>2. secrets < v.pw \/ (u.name = v.name /\ u.pw <= v.pw)
      BY <1>0, <1>4, <2>1, <2>6
    <3>3. QED
      BY <2>1, <2>2, <2>7, <3>1, <3>2
  <2>9. Keeps(r, r) => NotAhead(r.row.pw, r.name, users', secrets')
    <3>1. SUFFICES ASSUME r.op = "password" PROVE NotAhead(secrets', u.name, users', secrets')
      BY <2>1, <2>3 DEF Keeps
    <3>2. v.pw = secrets' /\ secrets' <= secrets'
      BY <1>4, <2>3, <3>1
    <3>3. \A w \in users' : w.name = u.name => w = v
      BY <2>2
    <3>4. QED
      BY <3>2, <3>3 DEF NotAhead
  <2>10. ASSUME NEW s \in Opened
         PROVE  \/ \A w \in users : w.name = s.name => w \in users'
                \/ Follows(s, users', req', skipped)
    <3>1. CASE s.name # u.name
      BY <2>1, <2>2, <3>1
    <3>2. CASE s.name = u.name /\ Ends(r, s)
      BY <2>5, <3>2, Zenon DEF Follows
    <3>3. CASE s.name = u.name /\ ~Ends(r, s)
      <4>1. Keeps(r, s) /\ r.op = "password"
        BY <2>1, <2>3, <3>3, Zenon DEF Ends, Keeps
      <4>2. v.pw = r.row.pw
        BY <1>4, <2>3, <4>1
      <4>3. Follows(s, users, req, skipped)
        BY DEF SessionInv, Credentials
      <4>4. CASE s.late \/ s.name \in skipped
        BY <4>4, Zenon DEF Follows
      <4>5. ASSUME NEW q \in Slots, Ends(req[q], s)
            PROVE  Follows(s, users', req', skipped)
        <5>1. q # p
          BY <1>2, <4>5 DEF Ends
        <5>2. QED
          BY <2>5, <4>5, <5>1, Zenon DEF Follows
      <4>6. CASE Backed(s, users, req)
        <5>1. s.born = u.born
          BY <2>2, <3>3, <4>6 DEF Backed
        <5>2. v \in users' /\ v.name = s.name /\ v.born = s.born
          BY <1>4, <2>2, <3>3, <5>1
        <5>3. Backed(s, users', req')
          BY <2>5, <4>1, <4>2, <5>2, Zenon DEF Backed
        <5>4. QED
          BY <5>3, Zenon DEF Follows
      <4>7. QED
        BY <4>3, <4>4, <4>5, <4>6, Zenon DEF Follows
    <3>4. QED
      BY <3>1, <3>2, <3>3
  <2>11. QED
    BY <1>2, <1>4, <2>3, <2>4, <2>7, <2>8, <2>9, <2>10, CredentialsWritten
<1>5. ASSUME NEW u \in Numbered(req[p].row.id), req[p].op = "set_role",
             SetRow(u, [u EXCEPT !.role = req[p].arg]), UNCHANGED secrets,
             Put(p, [req[p] EXCEPT !.pc = "revoke", !.row.pw = secrets'])
      PROVE  SessionInv'
  <2>1. u \in User /\ req[p].arg \in Roles
    BY <1>0, <1>5 DEF Numbered, Table, Established
  <2> DEFINE v == [u EXCEPT !.role = req[p].arg]
  <2>2. v \in User /\ v.name = u.name /\ v.born = u.born /\ v.pw = u.pw
    BY <2>1 DEF User
  <2> HIDE DEF v
  <2>3. SetRow(u, v) /\ secrets' \in Nat
    BY <1>0, <1>5 DEF v
  <2>4. QED
    BY <1>4, <1>5, <2>2, <2>3
<1>6. ASSUME NEW u \in Numbered(req[p].row.id), req[p].op # "set_role",
             SetRow(u, [u EXCEPT !.pw = secrets + 1]), secrets' = secrets + 1,
             Put(p, [req[p] EXCEPT !.pc = "revoke", !.row.pw = secrets'])
      PROVE  SessionInv'
  <2>1. u \in User
    BY <1>0, <1>6 DEF Numbered, Table
  <2> DEFINE v == [u EXCEPT !.pw = secrets + 1]
  <2>2. v \in User /\ v.name = u.name /\ v.born = u.born /\ v.pw = secrets + 1
    BY <1>0, <2>1 DEF User
  <2> HIDE DEF v
  <2>3. SetRow(u, v) /\ secrets' \in Nat
    BY <1>0, <1>6 DEF v
  <2>4. QED
    BY <1>4, <1>6, <2>2, <2>3
<1>7. QED
  BY <1>3, <1>5, <1>6 DEF Update

(* The second step of delete_user, which is to revoke all sessions of the    *)
(* name whose row it deletes.                                                *)
LEMMA DeleteKeeps ==
    ASSUME AccountsInv, SessionInv, NEW p \in Slots, DeleteRow(p)
    PROVE  SessionInv'
<1> USE DEF rows, counts, history
<1>0. /\ Table(users, births) /\ secrets \in Nat /\ secrets <= secrets
      /\ req[p] \in Request /\ Established(req[p], users, births) /\ req \in [Slots -> Request]
  BY DEF AccountsInv, Shapes
<1>1. /\ req[p].pc = "row" /\ req[p] # Idle /\ req[p].op = "delete"
      /\ UNCHANGED <<sessions, made, hub, skipped, secrets>>
      /\ users' = users \ Named(req[p].name)
  BY <1>0 DEF DeleteRow, Idle, Established
<1> DEFINE r == [req[p] EXCEPT !.pc = "revoke"]
<1>2. r \in Request /\ r.pc = "revoke" /\ r.op = "delete" /\ r.name = req[p].name
  BY <1>0, <1>1 DEF Request
<1>3. Put(p, r)
  BY DEF DeleteRow, Goto
<1> HIDE DEF r
<1>4. req'[p] = r
  BY <1>0, <1>3 DEF Put
<1>5. users' \subseteq User /\ secrets' \in Nat /\ secrets <= secrets'
  BY <1>0, <1>1 DEF Table
<1>6. \A v \in users' : /\ v.pw <= secrets'
                        /\ secrets < v.pw \/ \E u \in users : u.name = v.name /\ u.pw <= v.pw
  <2>1. \A u \in users : u.pw \in Nat /\ u.pw <= secrets /\ u.pw <= u.pw
    BY <1>0 DEF SessionInv, Ages, Table, User
  <2>2. QED
    BY <1>1, <2>1
<1>7. ASSUME NEW s \in Opened
      PROVE  \/ \A u \in users : u.name = s.name => u \in users'
             \/ Follows(s, users', req', skipped)
  <2>1. CASE s.name = req[p].name
    <3>1. Ends(r, s)
      BY <1>2, <2>1 DEF Ends
    <3>2. QED
      BY <1>4, <3>1, Zenon DEF Follows
  <2>2. CASE s.name # req[p].name
    BY <1>1, <2>2 DEF Named
  <2>3. QED
    BY <2>1, <2>2
<1>8. QED
  BY <1>1, <1>2, <1>3, <1>5, <1>6, <1>7, CredentialsWritten DEF Keeps

(* revoke_sessions_for and revoke_other_sessions_for.  A session that is    *)
(* kept has the password of its row from here on, or some other revocation  *)
(* of the same user is still to come.                                       *)
LEMMA RevokeKeeps ==
    ASSUME AccountsInv, SessionInv, NEW p \in Slots, UpdateRevoke(p) \/ PasswordRevoke(p)
    PROVE  SessionInv'
<1> USE DEF rows, counts, history
<1>0. /\ Table(users, births) /\ Shapes /\ Idle \in Request /\ made \in Nat /\ secrets \in Nat
      /\ Opened \subseteq Session /\ sessions \subseteq Opened /\ req \in [Slots -> Request]
      /\ \A q \in Slots : req[q] \in Request
  BY IdleEstablished, OpenedShape DEF AccountsInv, Shapes, Opened
<1>1. /\ req[p].pc = "revoke" /\ UNCHANGED <<users, secrets, skipped, hub, made>>
      /\ req' = [MarkLate(req[p].name) EXCEPT ![p] = Idle]
  BY DEF UpdateRevoke, PasswordRevoke, Revoke
<1>2. hub = "up" /\ Idle.pc = "idle" /\ Idle.op = "none"
  BY <1>1, ServedWhenUp DEF Idle
<1>3. /\ req'[p] = Idle
      /\ \A q \in Slots : q # p /\ ~(req[q].pc = "login" /\ req[q].name = req[p].name) =>
            req'[q] = req[q]
      /\ \A q \in Slots : q # p /\ req[q].pc = "login" /\ req[q].name = req[p].name =>
            req'[q] = [req[q] EXCEPT !.late = TRUE]
  BY <1>1 DEF MarkLate
<1>4. ASSUME NEW q \in Slots, q # p
      PROVE  /\ req'[q].pc = req[q].pc /\ req'[q].op = req[q].op /\ req'[q].key = req[q].key
             /\ req'[q].name = req[q].name /\ req'[q].row = req[q].row
  <2>1. CASE req[q].pc = "login" /\ req[q].name = req[p].name
    <3>1. req[q] \in Request /\ req'[q] = [req[q] EXCEPT !.late = TRUE]
      BY <1>0, <1>3, <1>4, <2>1
    <3>2. QED
      BY <3>1 DEF Request
  <2>2. CASE ~(req[q].pc = "login" /\ req[q].name = req[p].name)
    BY <1>3, <1>4, <2>2
  <2>3. QED
    BY <2>1, <2>2
<1>5. Logins' = Logins /\ p \notin Logins
  BY <1>1, <1>2, <1>3, <1>4 DEF Logins
<1>6. \A q \in Slots : req[q].pc = "revoke" /\ q # p => req'[q] = req[q]
  BY <1>3
\* where the sessions of the next state come from
<1>7. ASSUME NEW s \in Opened', s.name # req[p].name
      PROVE  s \in Opened
  <2>1. CASE s \in sessions'
    <3>1. CASE UpdateRevoke(p)
      BY <2>1, <3>1 DEF UpdateRevoke, Revoke, Opened
    <3>2. CASE PasswordRevoke(p)
      <4>1. ASSUME NEW t \in sessions, t.name = req[p].name,
                   s = [t EXCEPT !.pw = IF t.pw > req[p].row.pw THEN t.pw ELSE req[p].row.pw]
            PROVE  FALSE
        BY <1>0, <1>7, <4>1 DEF Session
      <4>2. QED
        BY <2>1, <3>2, <4>1 DEF PasswordRevoke, Revoke, Opened
    <3>3. QED
      BY <3>1, <3>2
  <2>2. ASSUME NEW q \in Logins', s = AsSession(req'[q])
        PROVE  s \in Opened
    <3>1. q \in Logins /\ q \in Slots /\ q # p /\ req[q].name # req[p].name
      BY <1>4, <1>5, <1>7, <2>2 DEF Logins, AsSession
    <3>2. req'[q] = req[q]
      BY <1>3, <3>1
    <3>3. QED
      BY <2>2, <3>1, <3>2 DEF Opened
  <2>3. QED
    BY <2>1, <2>2 DEF Opened
<1>8. ASSUME NEW q \in Logins, req[q].name = req[p].name
      PROVE  AsSession(req'[q]).late
  <2>1. q \in Slots /\ q # p /\ req'[q] = [req[q] EXCEPT !.late = TRUE]
    BY <1>3, <1>5, <1>8 DEF Logins
  <2>2. req'[q].late = TRUE
    BY <1>0, <2>1 DEF Request
  <2>3. AsSession(req'[q]).late = TRUE
    BY <2>2 DEF AsSession
  <2>4. QED
    BY <2>3, Zenon
\* a session that change_own_password keeps
<1>9. ASSUME NEW s \in sessions', s.name = req[p].name
      PROVE  /\ req[p].op = "password"
             /\ \E t \in sessions : /\ Keeps(req[p], t)
                                    /\ s.key = t.key /\ s.name = t.name /\ s.born = t.born
                                    /\ s.late = t.late
                                    /\ s.pw = IF t.pw > req[p].row.pw THEN t.pw ELSE req[p].row.pw
  <2>1. ~UpdateRevoke(p)
    BY <1>9 DEF UpdateRevoke, Revoke
  <2>2. PasswordRevoke(p)
    BY <2>1
  <2>3. PICK t \in sessions :
            /\ t.name = req[p].name /\ t.key = req[p].key
            /\ s = [t EXCEPT !.pw = IF t.pw > req[p].row.pw THEN t.pw ELSE req[p].row.pw]
    BY <1>9, <2>2 DEF PasswordRevoke, Revoke
  <2>4. /\ s.key = t.key /\ s.name = t.name /\ s.born = t.born /\ s.late = t.late
        /\ s.pw = IF t.pw > req[p].row.pw THEN t.pw ELSE req[p].row.pw
    BY <1>0, <2>3 DEF Session
  <2>5. req[p].op = "password" /\ Keeps(req[p], t)
    BY <1>1, <2>2, <2>3 DEF PasswordRevoke, Keeps
  <2>6. QED
    BY <2>4, <2>5, Zenon
<1>10. Credentials'
  <2> SUFFICES ASSUME NEW s \in Opened' PROVE Follows(s, users', req', skipped')
    BY Zenon DEF Credentials
  <2>1. CASE s.name # req[p].name
    <3>1. Follows(s, users, req, skipped)
      BY <1>7, <2>1 DEF SessionInv, Credentials
    <3>2. \A q \in Slots : req[q].pc = "revoke" /\ req[q].name = s.name => req'[q] = req[q]
      BY <1>6, <2>1
    <3>3. QED
      BY <1>1, <3>1, <3>2, FollowsLasts, ZenonT(40)
  <2>2. ASSUME s.name = req[p].name, NEW q \in Logins', s = AsSession(req'[q])
        PROVE  Follows(s, users', req', skipped')
    <3>1. q \in Logins /\ req[q].name = req[p].name
      BY <1>4, <1>5, <2>2 DEF Logins, AsSession
    <3>2. s.late
      BY <1>8, <2>2, <3>1, Zenon
    <3>3. QED
      BY <3>2, Zenon DEF Follows
  <2>3. ASSUME s.name = req[p].name, s \in sessions'
        PROVE  Follows(s, users', req', skipped')
    <3>1. PICK t \in sessions :
              /\ Keeps(req[p], t)
              /\ s.key = t.key /\ s.name = t.name /\ s.born = t.born /\ s.late = t.late
              /\ s.pw = IF t.pw > req[p].row.pw THEN t.pw ELSE req[p].row.pw
      BY <1>9, <2>3, Zenon
    <3>2. t \in Opened /\ Follows(t, users, req, skipped)
      BY <1>0 DEF SessionInv, Credentials
    <3>3. CASE t.late \/ t.name \in skipped
      BY <1>1, <3>1, <3>3, Zenon DEF Follows
    <3>4. ASSUME NEW q \in Slots, Ends(req[q], t)
          PROVE  Follows(s, users', req', skipped')
      <4>1. q # p
        BY <3>1, <3>4, Zenon DEF Ends, Keeps
      <4>2. req'[q] = req[q]
        BY <1>6, <3>4, <4>1, Zenon DEF Ends
      <4>3. Ends(req'[q], s)
        BY <3>1, <3>4, <4>2, Zenon DEF Ends
      <4>4. QED
        BY <4>3, Zenon DEF Follows
    <3>5. CASE Backed(t, users, req)
      <4>1. PICK u \in users :
                /\ u.name = t.name /\ u.born = t.born
                /\ u.pw = t.pw \/ \E q \in Slots : Keeps(req[q], t) /\ u.pw = req[q].row.pw
        BY <3>5, Zenon DEF Backed
      <4>2. t.pw \in Nat /\ u.pw \in Nat /\ req[p].row.pw \in Nat /\ t.pw <= u.pw
        BY <1>0, <3>2, <4>1 DEF Session, Table, Request, User, SessionInv, Ages, NotAhead
      <4>3. req[p].row.pw <= u.pw
        <5>1. Keeps(req[p], req[p]) /\ u.name = req[p].name
          BY <3>1, <4>1 DEF Keeps
        <5>2. NotAhead(req[p].row.pw, req[p].name, users, secrets)
          BY <5>1 DEF SessionInv, Ages
        <5>3. QED
          BY <5>1, <5>2 DEF NotAhead
      <4>4. CASE u.pw = t.pw \/ u.pw = req[p].row.pw
        <5>1. u.pw = s.pw
          BY <3>1, <4>2, <4>3, <4>4
        <5>2. QED
          BY <1>1, <3>1, <4>1, <5>1, Zenon DEF Follows, Backed
      <4>5. ASSUME NEW q \in Slots, q # p, Keeps(req[q], t), u.pw = req[q].row.pw
            PROVE  Follows(s, users', req', skipped')
        <5>1. req'[q] = req[q] /\ Keeps(req[q], s)
          BY <1>6, <3>1, <4>5, Zenon DEF Keeps
        <5>2. QED
          BY <1>1, <3>1, <4>1, <4>5, <5>1, ZenonT(40) DEF Follows, Backed
      <4>6. QED
        BY <4>1, <4>4, <4>5, Zenon
    <3>6. QED
      BY <3>2, <3>3, <3>4, <3>5, Zenon DEF Follows
  <2>4. s \in sessions' \/ \E q \in Logins' : s = AsSession(req'[q])
    BY DEF Opened
  <2>5. QED
    BY <2>1, <2>2, <2>3, <2>4, Zenon
\* passwords and keys are those of sessions of the state before
<1>11. ASSUME NEW s \in Opened'
       PROVE  s.key <= made /\ NotAhead(s.pw, s.name, users, secrets)
  <2>1. \A t \in Opened : t.key <= made /\ NotAhead(t.pw, t.name, users, secrets)
    BY DEF SessionInv, Keys, Ages
  <2>2. ASSUME NEW q \in Logins', s = AsSession(req'[q])
        PROVE  s.key <= made /\ NotAhead(s.pw, s.name, users, secrets)
    <3>1. q \in Logins /\ q \in Slots /\ q # p
      BY <1>5, <2>2 DEF Logins
    <3>2. LET t == AsSession(req[q])
          IN t \in Opened /\ s.key = t.key /\ s.name = t.name /\ s.pw = t.pw
      BY <1>4, <2>2, <3>1 DEF AsSession, Opened
    <3>3. QED
      BY <2>1, <3>2
  <2>3. ASSUME s.name = req[p].name, s \in sessions'
        PROVE  s.key <= made /\ NotAhead(s.pw, s.name, users, secrets)
    <3>1. PICK t \in sessions :
              /\ Keeps(req[p], t) /\ s.key = t.key /\ s.name = t.name
              /\ s.pw = IF t.pw > req[p].row.pw THEN t.pw ELSE req[p].row.pw
      BY <1>9, <2>3, Zenon
    <3>2. NotAhead(req[p].row.pw, req[p].name, users, secrets)
      BY <3>1 DEF Keeps, SessionInv, Ages
    <3>3. s.key <= made /\ NotAhead(t.pw, t.name, users, secrets)
      BY <1>0, <2>1, <3>1
    <3>4. s.pw = t.pw \/ s.pw = req[p].row.pw
      BY <3>1
    <3>5. QED
      BY <2>3, <3>1, <3>2, <3>3, <3>4
  <2>4. s \in sessions' \/ \E q \in Logins' : s = AsSession(req'[q])
    BY DEF Opened
  <2>5. QED
    BY <1>7, <2>1, <2>2, <2>3, <2>4
<1>12. Ages'
  <2>1. \A s \in Opened' : NotAhead(s.pw, s.name, users', secrets')
    BY <1>1, <1>11
  <2>2. ASSUME NEW q \in Slots, Keeps(req'[q], req'[q])
        PROVE  NotAhead(req'[q].row.pw, req'[q].name, users', secrets')
    <3>1. q # p /\ req'[q] = req[q]
      BY <1>2, <1>3, <1>4, <1>6, <2>2 DEF Keeps
    <3>2. QED
      BY <1>1, <2>2, <3>1 DEF SessionInv, Ages
  <2>3. QED
    BY <1>1, <2>1, <2>2 DEF SessionInv, Ages
<1>13. Keys'
  <2>1. \A q \in Slots : req'[q].op = "password" => q # p /\ req[q].op = "password" /\ req'[q].key = req[q].key
    BY <1>2, <1>3, <1>4
  <2>2. \A s \in sessions' : \E t \in sessions : s.key = t.key
    <3>1. ASSUME NEW s \in sessions', s.name # req[p].name PROVE s \in sessions
      <4>1. CASE UpdateRevoke(p)
        BY <3>1, <4>1 DEF UpdateRevoke, Revoke
      <4>2. CASE PasswordRevoke(p)
        <5>1. ASSUME NEW t \in sessions, t.name = req[p].name,
                     s = [t EXCEPT !.pw = IF t.pw > req[p].row.pw THEN t.pw ELSE req[p].row.pw]
              PROVE  FALSE
          BY <1>0, <3>1, <5>1 DEF Session
        <5>2. QED
          BY <3>1, <4>2, <5>1 DEF PasswordRevoke, Revoke
      <4>3. QED
        BY <4>1, <4>2
    <3>2. ASSUME NEW s \in sessions', s.name = req[p].name PROVE \E t \in sessions : s.key = t.key
      BY <1>9, <3>2, Zenon
    <3>3. QED
      BY <3>1, <3>2
  <2>3. ASSUME NEW q \in Logins'
        PROVE  /\ \A s \in sessions' : s.key # req'[q].key
               /\ \A x \in Slots : req'[x].op = "password" => req'[x].key # req'[q].key
               /\ \A x \in Logins' : x # q => req'[x].key # req'[q].key
    <3>1. q \in Logins /\ req'[q].key = req[q].key
      BY <1>4, <1>5 DEF Logins
    <3>2. /\ \A s \in sessions : s.key # req[q].key
          /\ \A x \in Slots : req[x].op = "password" => req[x].key # req[q].key
          /\ \A x \in Logins : x # q => req[x].key # req[q].key
      BY <3>1 DEF SessionInv, Keys
    <3>3. \A x \in Logins' : x \in Logins /\ req'[x].key = req[x].key
      BY <1>4, <1>5 DEF Logins
    <3>4. QED
      BY <2>1, <2>2, <3>1, <3>2, <3>3
  <2>4. \A q \in Slots : req'[q].op = "password" => req'[q].key <= made'
    BY <1>1, <2>1 DEF SessionInv, Keys
  <2>5. QED
    BY <1>1, <1>11, <2>3, <2>4 DEF Keys
<1>14. QED
  BY <1>1, <1>2, <1>10, <1>12, <1>13 DEF SessionInv, NobodyServed

(* A request dropped before it has revoked leaves its user in skipped. *)
LEMMA DroppedKeeps ==
    ASSUME AccountsInv, SessionInv, NEW p \in Slots, Dropped(p)
    PROVE  SessionInv'
<1> USE DEF rows, counts, history
<1>0. /\ Idle \in Request /\ made \in Nat /\ made <= made /\ sessions \subseteq Opened
      /\ req \in [Slots -> Request] /\ Idle.pc = "idle" /\ Idle.op = "none"
  BY IdleShape DEF AccountsInv, Shapes, Opened, Idle
<1>1. /\ req[p] # Idle /\ Put(p, Idle) /\ UNCHANGED <<users, secrets, sessions, hub, made>>
      /\ skipped' = IF req[p].pc = "revoke" THEN skipped \cup {req[p].name} ELSE skipped
  BY DEF Dropped, Return
<1>2. hub = "up"
  BY <1>1, ServedWhenUp
<1>3. \A s \in sessions : \A q \in Logins : q # p => s.key # req[q].key
  BY DEF SessionInv, Keys
<1>4. CASE req[p].pc # "revoke"
  BY <1>0, <1>1, <1>2, <1>3, <1>4, QuietStep
<1>5. CASE req[p].pc = "revoke"
  <2>1. req'[p] = Idle /\ \A q \in Slots : q # p => req'[q] = req[q]
    BY <1>0, <1>1 DEF Put
  <2>2. Logins' = Logins /\ \A q \in Logins : q \in Slots /\ req'[q] = req[q]
    BY <1>0, <1>5, <2>1 DEF Logins
  <2>3. Opened' = Opened
    BY <1>1, <2>2 DEF Opened
  <2>4. Credentials'
    <3> SUFFICES ASSUME NEW s \in Opened' PROVE Follows(s, users', req', skipped')
      BY Zenon DEF Credentials
    <3>1. Follows(s, users, req, skipped)
      BY <2>3 DEF SessionInv, Credentials
    <3>2. CASE s.name = req[p].name
      <4>1. s.name \in skipped'
        BY <1>1, <1>5, <3>2
      <4>2. QED
        BY <4>1, Zenon DEF Follows
    <3>3. CASE s.name # req[p].name
      <4>1. \A q \in Slots : req[q].pc = "revoke" /\ req[q].name = s.name => req'[q] = req[q]
        BY <2>1, <3>3
      <4>2. s.name \in skipped => s.name \in skipped'
        BY <1>1
      <4>3. QED
        BY <1>1, <3>1, <4>1, <4>2, FollowsLasts, ZenonT(40)
    <3>4. QED
      BY <3>2, <3>3
  <2>5. Ages'
    BY <1>0, <1>1, <2>1, <2>3 DEF SessionInv, Ages, Keeps
  <2>6. \A q \in Slots : req'[q].op = "password" => req'[q] = req[q]
    BY <1>0, <2>1
  <2>7. Keys'
    BY <1>1, <2>2, <2>3, <2>6 DEF SessionInv, Keys
  <2>8. QED
    BY <1>1, <1>2, <2>4, <2>5, <2>7 DEF SessionInv, NobodyServed
<1>6. QED
  BY <1>4, <1>5

(* No session and no request outlives the hub's process. *)
LEMMA RestartKeeps ==
    ASSUME AccountsInv, SessionInv, Stop \/ Start
    PROVE  SessionInv'
<1> USE DEF rows, counts, history
<1>0. AccountsInv' /\ Table(users, births) /\ secrets \in Nat /\ Idle.pc = "idle" /\ Idle.op = "none"
  BY EndingSteps, InsertSteps DEF AccountsInv, Shapes, Idle
<1>1. sessions' = {} /\ req' = [p \in Slots |-> Idle]
  BY DEF Stop, Start, SessionInv, NobodyServed
<1>2. Logins' = {} /\ Opened' = {} /\ \A p \in Slots : req'[p] = Idle
  BY <1>0, <1>1 DEF Logins, Opened
<1>3. \A u \in users' : u.pw <= secrets'
  <2>0. \A u \in users : u.pw \in Nat /\ u.pw <= secrets
    BY <1>0 DEF SessionInv, Ages, Table, User
  <2>1. CASE UNCHANGED <<users, secrets>>
    BY <2>0, <2>1
  <2>2. CASE InsertUser(Config, "admin")
    BY <1>0, <2>0, <2>2 DEF InsertUser
  <2>3. QED
    BY <2>1, <2>2 DEF Stop, Start
<1>4. QED
  BY <1>0, <1>1, <1>2, <1>3 DEF SessionInv, Credentials, Ages, Keys, Keeps, NobodyServed

(* Every step keeps what is said of the sessions: login, logout and the      *)
(* expiry of a session in auth.rs, the handlers of users.rs and              *)
(* auth_routes.rs with their revocations, and the hub's restarts.            *)
THEOREM SessionInvariant == Spec => []SessionInv
<1>1. Init => SessionInv
  <2> SUFFICES ASSUME Init PROVE SessionInv
    OBVIOUS
  <2>1. Idle.pc = "idle" /\ Idle.op = "none" /\ \A p \in Slots : req[p] = Idle
    BY DEF Idle, Init
  <2>2. Logins = {} /\ Opened = {}
    BY <2>1 DEF Init, Logins, Opened
  <2>3. QED
    BY <2>1, <2>2 DEF Init, SessionInv, Credentials, Ages, Keys, Keeps, NobodyServed
<1>2. AccountsInv /\ SessionInv /\ [Next]_vars => SessionInv'
  <2> SUFFICES ASSUME AccountsInv, SessionInv, [Next]_vars PROVE SessionInv'
    OBVIOUS
  <2>0. made \in Nat
    BY DEF AccountsInv, Shapes
  <2>1. CASE UNCHANGED vars
    BY <2>0, <2>1, SessionsRemoved DEF vars, rows, counts, history
  <2>2. ASSUME NEW s \in sessions, Logout(s) PROVE SessionInv'
    BY <2>0, <2>2, SessionsRemoved DEF Logout, Admit, rows, history
  <2>3. CASE Next
    BY <2>2, <2>3, LoginOpens, QuietSteps, CreateKeeps, UpdateKeeps, DeleteKeeps, RevokeKeeps,
       DroppedKeeps, RestartKeeps DEF Next
  <2>4. QED
    BY <2>1, <2>3
<1>3. QED
  BY <1>1, <1>2, AccountsInvariant, PTL DEF Spec

(* A session lives no longer than the password and the account it was        *)
(* opened on, up to the exceptions the code leaves: this is what the calls   *)
(* of revoke_sessions_for and revoke_other_sessions_for are for, with any    *)
(* number of changes of one account at a time.                               *)
THEOREM SessionsFollow == Spec => []SessionsFollowCredentials
<1>1. SessionInv => SessionsFollowCredentials
  <2> SUFFICES ASSUME SessionInv, NEW s \in sessions
               PROVE  \/ Current(s)
                      \/ s.late \/ s.name \in skipped
                      \/ \E p \in Slots : req[p].pc = "revoke" /\ s.name = req[p].name
    BY Zenon DEF SessionsFollowCredentials
  <2>1. Follows(s, users, req, skipped)
    BY DEF SessionInv, Credentials, Opened
  <2>2. ASSUME NEW q \in Slots, Ends(req[q], s) \/ Keeps(req[q], s)
        PROVE  req[q].pc = "revoke" /\ s.name = req[q].name
    BY <2>2, Zenon DEF Ends, Keeps
  <2>3. CASE Backed(s, users, req)
    <3>1. PICK u \in users :
              /\ u.name = s.name /\ u.born = s.born
              /\ u.pw = s.pw \/ \E q \in Slots : Keeps(req[q], s) /\ u.pw = req[q].row.pw
      BY <2>3, Zenon DEF Backed
    <3>2. u.pw = s.pw => Current(s)
      BY <3>1 DEF Current, Named
    <3>3. QED
      BY <2>2, <3>1, <3>2, Zenon
  <2>4. QED
    BY <2>1, <2>2, <2>3, Zenon DEF Follows
<1>2. QED
  BY <1>1, SessionInvariant, PTL

=============================================================================
