------------------------------ MODULE Memberships ------------------------------
(***************************************************************************)
(* Accounts, organizations and the seats that join them: registration      *)
(* (services/auth.py), the resolution of who a request acts for            *)
(* (api/deps.py) and the administration of members                         *)
(* (services/membership.py).                                               *)
(*                                                                         *)
(* A request reads at several awaits and writes last, so another one may   *)
(* change what it read: each read is an action of its own. Passwords and   *)
(* their hashes are left out; a token names a person and nothing else. A   *)
(* request that fails rolls back and changes nothing.                      *)
(***************************************************************************)
EXTENDS Integers, FiniteSets

CONSTANTS
    Users,            \* people, by e-mail address
    Orgs,             \* organizations, by slug
    Members,          \* requests in flight
    NoSeat,           \* no membership
    NoOrg,            \* no X-Organization-ID header
    MaxActs           \* how many requests are ever begun and statuses changed by hand

ASSUME MembersAssumption == IsFiniteSet(Users) /\ NoOrg \notin Orgs

VARIABLES
    account,          \* users: "absent", "active" or "suspended"
    org,              \* organizations, the same
    seat,             \* organization_members: <<org, user>> -> seat
    tokens,           \* whose unexpired access token is in use
    req,              \* what each request in flight has read
    begun, byHand     \* the two counters bounded by MaxActs

vars == <<account, org, seat, tokens, req, begun, byHand>>

Roles == {"member", "admin", "owner"}
Rank  == [r \in Roles |-> IF r = "owner" THEN 2 ELSE IF r = "admin" THEN 1 ELSE 0]
Seats == [role : Roles, active : BOOLEAN]

Status == {"absent", "active", "suspended"}

Idle == [pc |-> "idle"]
Requests ==
    [pc : {"insert"}, user : Users, org : Orgs] \cup
    [pc : {"look", "count", "write"}, op : {"change", "remove"}, user : Users, org : Orgs,
     actor : Roles, target : Users, role : Roles, seen : Roles, owners : SUBSET Users]

Owners(s, o) == {u \in Users : s[<<o, u>>] \in [role : {"owner"}, active : {TRUE}]}

-----------------------------------------------------------------------------
(* The organization a request acts on: the one its header names, or the    *)
(* only one the caller sits in; {} refuses it.                             *)
Usable(u) == {o \in Orgs : /\ seat[<<o, u>>] \in Seats
                           /\ seat[<<o, u>>].active
                           /\ org[o] = "active"}

CurrentMembership(u, header) ==
    IF header # NoOrg THEN Usable(u) \cap {header}
    ELSE IF Cardinality(Usable(u)) = 1 THEN Usable(u) ELSE {}

(* The slug is the wanted one or, when that is taken, one with a suffix.   *)
UniqueSlug(wanted) == IF org[wanted] = "absent" THEN {wanted} ELSE {o \in Orgs : org[o] = "absent"}

(* register: the address must be unknown.                                  *)
Register(p, u, wanted) ==
    /\ req[p] = Idle /\ begun + byHand < MaxActs
    /\ account[u] = "absent"
    /\ \E o \in UniqueSlug(wanted) :
          req' = [req EXCEPT ![p] = [pc |-> "insert", user |-> u, org |-> o]]
    /\ begun' = begun + 1
    /\ UNCHANGED <<account, org, seat, tokens, byHand>>

(* The account, the organization and the owner's seat in one transaction;  *)
(* the unique indexes refuse an address or a slug taken meanwhile.         *)
Insert(p) ==
    /\ req[p].pc = "insert"
    /\ LET u == req[p].user  o == req[p].org
           free == account[u] = "absent" /\ org[o] = "absent" IN
       /\ account' = [account EXCEPT ![u] = IF free THEN "active" ELSE @]
       /\ org'     = [org EXCEPT ![o] = IF free THEN "active" ELSE @]
       /\ seat'    = [seat EXCEPT ![<<o, u>>] = IF free THEN [role |-> "owner", active |-> TRUE] ELSE @]
    /\ req' = [req EXCEPT ![p] = Idle]
    /\ UNCHANGED <<tokens, begun, byHand>>

Login(u)  == /\ account[u] = "active" /\ u \notin tokens
             /\ tokens' = tokens \cup {u}
             /\ UNCHANGED <<account, org, seat, req, begun, byHand>>

Expire(u) == /\ u \in tokens
             /\ tokens' = tokens \ {u}
             /\ UNCHANGED <<account, org, seat, req, begun, byHand>>

(* get_current_user: a token that has not expired, and an active account.  *)
CurrentUser(u) == u \in tokens /\ account[u] = "active"

(* The dependencies of the two routes: an active account, a usable seat,   *)
(* and for a change of role an administrator. The seat read here is the    *)
(* actor for the rest of the request.                                      *)
Begin(p, op, u, header, target, role) ==
    /\ req[p] = Idle /\ begun + byHand < MaxActs
    /\ CurrentUser(u)
    /\ \E o \in CurrentMembership(u, header) :
          LET actor == seat[<<o, u>>].role IN
          /\ op = "change" \/ target # u => Rank[actor] >= Rank["admin"]
          /\ IF op = "change" THEN target # u ELSE role = "member"   \* a removal gives none
          /\ req' = [req EXCEPT ![p] =
                [pc |-> "look", op |-> op, user |-> u, org |-> o, actor |-> actor,
                 target |-> target, role |-> role, seen |-> "member", owners |-> {}]]
    /\ begun' = begun + 1
    /\ UNCHANGED <<account, org, seat, tokens, byHand>>

(* The target, of this organization and whatever its status, and the rules *)
(* on owners: only an owner makes, demotes or removes one. A session that  *)
(* holds a row keeps its values, so the caller's own seat is seen as it    *)
(* was when the request began.                                             *)
\* Fault: the role that is given is not looked at.
RefusedByTarget(r, seen) ==
    r.actor # "owner" /\ seen = "owner" /\ (r.op = "remove" => r.target # r.user)

Refused(r, seen) ==
    /\ r.actor # "owner"
    /\ \/ r.op = "change" /\ "owner" \in {seen, r.role}
       \/ r.op = "remove" /\ seen = "owner" /\ r.target # r.user

Look(p) ==
    LET r == req[p]
        s == seat[<<r.org, r.target>>]
        seen == IF r.target = r.user THEN r.actor ELSE s.role IN
    /\ r.pc = "look"
    /\ IF s = NoSeat \/ Refused(r, seen) \/ (r.op = "change" /\ seen = r.role)
       THEN req' = [req EXCEPT ![p] = Idle]
       ELSE req' = [req EXCEPT ![p] =
                [r EXCEPT !.pc = IF seen = "owner" THEN "count" ELSE "write", !.seen = seen]]
    /\ UNCHANGED <<account, org, seat, tokens, begun, byHand>>

(* _require_another_owner_remains: a count, and no lock.                   *)
\* Fault: nobody is kept back.
CountAll(p) ==
    LET owners == Owners(seat, req[p].org) IN
    /\ req[p].pc = "count"
    /\ req' = [req EXCEPT ![p] = [@ EXCEPT !.pc = "write", !.owners = owners]]
    /\ UNCHANGED <<account, org, seat, tokens, begun, byHand>>

Count(p) ==
    LET owners == Owners(seat, req[p].org) IN
    /\ req[p].pc = "count"
    /\ req' = [req EXCEPT ![p] = IF Cardinality(owners) <= 1 THEN Idle
                                 ELSE [@ EXCEPT !.pc = "write", !.owners = owners]]
    /\ UNCHANGED <<account, org, seat, tokens, begun, byHand>>

(* The statement and the commit. A row that is gone meanwhile makes the    *)
(* update an error and the deletion a warning: nothing changes either way. *)
Write(p) ==
    LET r == req[p] IN
    /\ r.pc = "write"
    /\ seat' = [seat EXCEPT ![<<r.org, r.target>>] =
                   IF r.op = "remove" \/ @ = NoSeat THEN NoSeat ELSE [@ EXCEPT !.role = r.role]]
    /\ req' = [req EXCEPT ![p] = Idle]
    /\ UNCHANGED <<account, org, tokens, begun, byHand>>

(* The request dies or the database is away: its session rolls back.       *)
Abort(p) ==
    /\ req[p] # Idle
    /\ req' = [req EXCEPT ![p] = Idle]
    /\ UNCHANGED <<account, org, seat, tokens, begun, byHand>>

(* No code moves a status; an operator does, on any of the three tables.   *)
Flip(s) == IF s = "active" THEN "suspended" ELSE "active"

ByHand ==
    /\ begun + byHand < MaxActs /\ byHand' = byHand + 1
    /\ \/ \E u \in Users : account[u] # "absent" /\ account' = [account EXCEPT ![u] = Flip(@)]
                           /\ UNCHANGED <<org, seat>>
       \/ \E o \in Orgs : org[o] # "absent" /\ org' = [org EXCEPT ![o] = Flip(@)]
                          /\ UNCHANGED <<account, seat>>
       \/ \E c \in Orgs \X Users : /\ seat[c] # NoSeat
                                   /\ seat' = [seat EXCEPT ![c].active = ~@]
                                   /\ UNCHANGED <<account, org>>
    /\ UNCHANGED <<tokens, req, begun>>

(* One founded organization, with any roles among its members.             *)
SeatsOf(o, roles) ==
    [c \in Orgs \X Users |-> IF c[1] = o /\ c[2] \in DOMAIN roles
                             THEN [role |-> roles[c[2]], active |-> TRUE] ELSE NoSeat]

Init ==
    /\ \E o \in Orgs, there \in SUBSET Users :
          /\ account = [u \in Users |-> IF u \in there THEN "active" ELSE "absent"]
          /\ org = [x \in Orgs |-> IF x = o THEN "active" ELSE "absent"]
          /\ \E roles \in [there -> Roles] :
                (\E u \in there : roles[u] = "owner") /\ seat = SeatsOf(o, roles)
    /\ tokens = {}
    /\ req = [p \in Members |-> Idle]
    /\ begun = 0 /\ byHand = 0

Next ==
    \/ \E p \in Members, u \in Users, o \in Orgs : Register(p, u, o)
    \/ \E p \in Members : Insert(p) \/ Look(p) \/ Count(p) \/ Write(p) \/ Abort(p)
    \/ \E u \in Users : Login(u) \/ Expire(u)
    \/ \E p \in Members, op \in {"change", "remove"}, u, target \in Users,
          header \in Orgs \cup {NoOrg}, role \in Roles : Begin(p, op, u, header, target, role)
    \/ ByHand

Spec == Init /\ [][Next]_vars

-----------------------------------------------------------------------------
TypeOK ==
    /\ account \in [Users -> Status]
    /\ org \in [Orgs -> Status]
    /\ seat \in [Orgs \X Users -> Seats \cup {NoSeat}]
    /\ tokens \subseteq Users
    /\ req \in [Members -> Requests \cup {Idle}]

(* A request that leaves an organization without an active owner decided   *)
(* on what was no longer so: when it wrote, its target's role or the owners*)
(* it had counted were not the ones it had read.                           *)
LastOwnerGoesOnlyUnseen ==
    [][\A p \in Members : LET r == req[p] IN
         r.pc = "write" /\ req'[p] = Idle /\ Owners(seat, r.org) # {} /\ Owners(seat', r.org) = {}
           => \/ seat[<<r.org, r.target>>].role # r.seen
              \/ r.seen = "owner" /\ Owners(seat, r.org) # r.owners]_vars

(* Nobody makes themselves an owner: but for founders, who becomes one was *)
(* made one by somebody else, an owner when their request began.           *)
OwnershipIsGranted ==
    [][\A o \in Orgs, u \in Users :
         LET was == seat[<<o, u>>]  is == seat'[<<o, u>>] IN
         is # NoSeat /\ is.role = "owner" /\ (was = NoSeat \/ was.role # "owner") /\ org[o] # "absent"
           => \E p \in Members : /\ req[p].pc = "write" /\ req[p].org = o /\ req[p].target = u
                                 /\ req[p].actor = "owner" /\ req[p].user # u]_vars

(* What services/membership.py:15 says: the last active owner cannot be    *)
(* demoted or removed. (A hand that suspends its seat still may.)          *)
LastOwnerStays ==
    [][byHand' = byHand =>
        \A o \in Orgs : Owners(seat, o) # {} => Owners(seat', o) # {}]_vars
=============================================================================
