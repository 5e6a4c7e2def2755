----------------------------- MODULE PeopleProofs -----------------------------
(***************************************************************************)
(* Theorems about what the people of an organization do in it. Of          *)
(* Memberships, for every set of people, organizations and requests:       *)
(* types, how an organization can lose its last owner, and how anybody     *)
(* becomes one. Of Conversations, for any number of requests, runs,        *)
(* conversations and tools, and however much of a conversation is read     *)
(* back: the turns of a run are read in the order it wrote them, and no    *)
(* result is sent to a model without the turn that asked for it before it. *)
(***************************************************************************)
EXTENDS Memberships, Conversations, FiniteSetTheorems, WellFoundedInduction, TLAPS

-----------------------------------------------------------------------------
(* Memberships.                                                            *)

(* What a request that passed a check of the code may rely on later: who   *)
(* changes a role changes another's; who makes an owner is one; who writes *)
(* over an owner counted two.                                              *)
Informed(r) ==
    /\ r.pc \in {"look", "count", "write"} /\ r.op = "change" => r.target # r.user
    /\ r.pc \in {"count", "write"} /\ r.op = "change" /\ r.actor # "owner" => r.role # "owner"
    /\ r.pc = "write" /\ r.seen = "owner" => Cardinality(r.owners) > 1

SeatInv == TypeOK /\ \A p \in Members : Informed(req[p])

Tables == /\ account \in [Users -> Status]
          /\ org \in [Orgs -> Status]
          /\ seat \in [Orgs \X Users -> Seats \cup {NoSeat}]
          /\ tokens \subseteq Users

Checks == [pc : {"look", "count", "write"}, op : {"change", "remove"}, user : Users, org : Orgs,
           actor : Roles, target : Users, role : Roles, seen : Roles, owners : SUBSET Users]

-----------------------------------------------------------------------------
\* The request that moves is well typed and informed, and the others are as before.
LEMMA RequestStep ==
    ASSUME SeatInv, NEW p \in Members, NEW new \in Requests \cup {Idle}, Informed(new),
           req' = [req EXCEPT ![p] = new], Tables'
    PROVE  SeatInv'
<1>1. req' \in [Members -> Requests \cup {Idle}]
  BY DEF SeatInv, TypeOK
<1>2. \A q \in Members : Informed(req'[q])
  <2> TAKE q \in Members
  <2>1. CASE q = p
    BY <2>1 DEF SeatInv, TypeOK
  <2>2. CASE q # p
    <3>1. req'[q] = req[q]
      BY <2>2 DEF SeatInv, TypeOK
    <3> QED BY <3>1 DEF SeatInv
  <2> QED BY <2>1, <2>2
<1> QED BY <1>1, <1>2 DEF SeatInv, TypeOK, Tables

\* A request that ends, whatever it wrote, owes nothing.
LEMMA IdleIsInformed == Idle \in Requests \cup {Idle} /\ Informed(Idle)
BY DEF Informed, Idle

LEMMA TablesKept ==
    ASSUME SeatInv, UNCHANGED <<account, org, seat, tokens>>
    PROVE  Tables'
BY DEF SeatInv, TypeOK, Tables

\* What is known of a request between its first read and its write.
LEMMA RequestAtWork ==
    ASSUME SeatInv, NEW p \in Members, req[p].pc \in {"look", "count", "write"}
    PROVE  req[p] \in Checks /\ Informed(req[p]) /\ req[p] # Idle
BY DEF SeatInv, TypeOK, Requests, Checks, Idle

LEMMA OwnersAreUsers ==
    ASSUME NEW s, NEW o
    PROVE  Owners(s, o) \subseteq Users
BY DEF Owners

-----------------------------------------------------------------------------
LEMMA InitInv == Init => SeatInv
<1> SUFFICES ASSUME Init PROVE SeatInv
  OBVIOUS
<1>1. tokens = {} /\ req = [p \in Members |-> Idle]
  BY DEF Init
<1>2. account \in [Users -> Status] /\ org \in [Orgs -> Status]
  BY DEF Init, Status
<1>3. seat \in [Orgs \X Users -> Seats \cup {NoSeat}]
  <2>1. PICK o \in Orgs, there \in SUBSET Users :
          \E roles \in [there -> Roles] : seat = SeatsOf(o, roles)
    BY Zenon DEF Init
  <2>2. PICK roles \in [there -> Roles] : seat = SeatsOf(o, roles)
    BY <2>1
  <2>3. \A u \in DOMAIN roles : [role |-> roles[u], active |-> TRUE] \in Seats
    BY <2>2 DEF Seats
  <2> QED BY <2>2, <2>3 DEF SeatsOf
<1> QED BY <1>1, <1>2, <1>3 DEF SeatInv, TypeOK, Informed, Idle

LEMMA RegisterKeeps ==
    ASSUME SeatInv, NEW p \in Members, NEW u \in Users, NEW wanted \in Orgs, Register(p, u, wanted)
    PROVE  SeatInv'
<1>1. PICK o \in UniqueSlug(wanted) :
         req' = [req EXCEPT ![p] = [pc |-> "insert", user |-> u, org |-> o]]
  BY DEF Register
<1>2. o \in Orgs
  BY DEF UniqueSlug
<1> DEFINE new == [pc |-> "insert", user |-> u, org |-> o]
<1>3. new \in Requests \cup {Idle} /\ Informed(new)
  BY <1>2 DEF Requests, Informed
<1>4. Tables'
  BY TablesKept DEF Register
<1> HIDE DEF new
<1>5. req' = [req EXCEPT ![p] = new]
  BY <1>1 DEF new
<1> QED BY <1>3, <1>4, <1>5, RequestStep

LEMMA InsertKeeps ==
    ASSUME SeatInv, NEW p \in Members, Insert(p)
    PROVE  SeatInv'
<1> DEFINE u == req[p].user
           o == req[p].org
           free == account[u] = "absent" /\ org[o] = "absent"
<1>1. /\ account' = [account EXCEPT ![u] = IF free THEN "active" ELSE @]
      /\ org' = [org EXCEPT ![o] = IF free THEN "active" ELSE @]
      /\ seat' = [seat EXCEPT ![<<o, u>>] = IF free THEN [role |-> "owner", active |-> TRUE] ELSE @]
      /\ tokens' = tokens
      /\ req' = [req EXCEPT ![p] = Idle]
  BY DEF Insert
<1>2. [role |-> "owner", active |-> TRUE] \in Seats
  BY DEF Seats, Roles
<1> HIDE DEF u, o, free
<1>3. Tables'
  BY <1>1, <1>2 DEF SeatInv, TypeOK, Tables, Status
<1> QED BY <1>1, <1>3, IdleIsInformed, RequestStep

LEMMA SessionKeeps ==
    ASSUME SeatInv, NEW u \in Users, Login(u) \/ Expire(u)
    PROVE  SeatInv'
BY DEF SeatInv, TypeOK, Login, Expire

LEMMA BeginKeeps ==
    ASSUME SeatInv, NEW p \in Members, NEW op \in {"change", "remove"}, NEW u \in Users,
           NEW header \in Orgs \cup {NoOrg}, NEW target \in Users, NEW role \in Roles,
           Begin(p, op, u, header, target, role)
    PROVE  SeatInv'
<1>1. PICK o \in CurrentMembership(u, header) :
         /\ op = "change" => target # u
         /\ req' = [req EXCEPT ![p] =
               [pc |-> "look", op |-> op, user |-> u, org |-> o, actor |-> seat[<<o, u>>].role,
                target |-> target, role |-> role, seen |-> "member", owners |-> {}]]
  BY Zenon DEF Begin
<1>2. o \in Usable(u)
  BY DEF CurrentMembership
<1>3. o \in Orgs /\ seat[<<o, u>>].role \in Roles
  BY <1>2 DEF Usable, Seats
<1> DEFINE new == [pc |-> "look", op |-> op, user |-> u, org |-> o, actor |-> seat[<<o, u>>].role,
                   target |-> target, role |-> role, seen |-> "member", owners |-> {}]
<1>4. new \in Requests \cup {Idle} /\ Informed(new)
  BY <1>1, <1>3 DEF Requests, Informed, Roles
<1>5. Tables'
  BY TablesKept DEF Begin
<1>6. req' = [req EXCEPT ![p] = new]
  BY <1>1
<1> HIDE DEF new
<1> QED BY <1>4, <1>5, <1>6, RequestStep

LEMMA LookKeeps ==
    ASSUME SeatInv, NEW p \in Members, Look(p)
    PROVE  SeatInv'
<1> DEFINE r == req[p]
           s == seat[<<r.org, r.target>>]
           seen == IF r.target = r.user THEN r.actor ELSE s.role
           pc == IF seen = "owner" THEN "count" ELSE "write"
           new == [r EXCEPT !.pc = pc, !.seen = seen]
<1>1. r \in Checks /\ Informed(r) /\ r.pc = "look"
  BY RequestAtWork DEF Look
<1>2. Tables'
  BY TablesKept DEF Look
<1>3. CASE req' = [req EXCEPT ![p] = Idle]
  BY <1>2, <1>3, IdleIsInformed, RequestStep
<1>4. CASE s # NoSeat /\ ~Refused(r, seen) /\ req' = [req EXCEPT ![p] = new]
  <2>1. s \in Seats
    BY <1>1, <1>4 DEF SeatInv, TypeOK, Checks
  <2>2. seen \in Roles
    BY <1>1, <2>1 DEF Checks, Seats
  <2> HIDE DEF seen
  <2>3. new \in Checks
    BY <1>1, <2>2 DEF Checks
  <2>4. /\ new.op = r.op /\ new.target = r.target /\ new.user = r.user /\ new.actor = r.actor
        /\ new.role = r.role /\ new.owners = r.owners /\ new.pc = pc /\ new.seen = seen
    BY <1>1 DEF Checks
  <2>5. Informed(new)
    BY <1>1, <1>4, <2>2, <2>4 DEF Informed, Refused
  <2>6. new \in Requests \cup {Idle}
    BY <2>3 DEF Checks, Requests
  <2> HIDE DEF new
  <2> QED BY <1>2, <1>4, <2>5, <2>6, RequestStep
<1> QED BY <1>3, <1>4, Zenon DEF Look

LEMMA CountKeeps ==
    ASSUME SeatInv, NEW p \in Members, Count(p)
    PROVE  SeatInv'
<1> DEFINE r == req[p]
           owners == Owners(seat, r.org)
           new == [r EXCEPT !.pc = "write", !.owners = owners]
<1>1. r \in Checks /\ Informed(r) /\ r.pc = "count"
  BY RequestAtWork DEF Count
<1>2. Tables'
  BY TablesKept DEF Count
<1>3. req' = [req EXCEPT ![p] = IF Cardinality(owners) <= 1 THEN Idle ELSE new]
  BY DEF Count
<1>4. CASE Cardinality(owners) <= 1
  BY <1>2, <1>3, <1>4, IdleIsInformed, RequestStep
<1>5. CASE ~(Cardinality(owners) <= 1)
  <2>1. owners \in SUBSET Users
    BY OwnersAreUsers
  <2>2. Cardinality(owners) > 1
    <3>1. Cardinality(owners) \in Nat
      BY <2>1, MembersAssumption, FS_Subset, FS_CardinalityType
    <3> HIDE DEF owners
    <3> QED BY <1>5, <3>1
  <2> HIDE DEF owners
  <2>3. new \in Requests
    BY <1>1, <2>1 DEF Checks, Requests
  <2>4. Informed(new)
    BY <1>1, <2>2 DEF Informed, Checks
  <2> HIDE DEF new
  <2> QED BY <1>2, <1>3, <1>5, <2>3, <2>4, RequestStep
<1> QED BY <1>4, <1>5

LEMMA WriteKeeps ==
    ASSUME SeatInv, NEW p \in Members, Write(p)
    PROVE  SeatInv'
<1> DEFINE r == req[p]
           c == <<r.org, r.target>>
<1>1. r \in Checks
  BY RequestAtWork DEF Write
<1>2. seat' = [seat EXCEPT ![c] = IF r.op = "remove" \/ @ = NoSeat THEN NoSeat ELSE [@ EXCEPT !.role = r.role]]
  BY DEF Write
<1>3. c \in Orgs \X Users /\ r.role \in Roles
  BY <1>1 DEF Checks
<1> HIDE DEF r, c
<1>4. seat[c] # NoSeat => [seat[c] EXCEPT !.role = r.role] \in Seats
  BY <1>3 DEF SeatInv, TypeOK, Seats
<1>5. seat' \in [Orgs \X Users -> Seats \cup {NoSeat}]
  BY <1>2, <1>3, <1>4 DEF SeatInv, TypeOK
<1>6. Tables' /\ req' = [req EXCEPT ![p] = Idle]
  BY <1>5 DEF Tables, SeatInv, TypeOK, Write
<1> QED BY <1>6, IdleIsInformed, RequestStep

LEMMA AbortKeeps ==
    ASSUME SeatInv, NEW p \in Members, Abort(p)
    PROVE  SeatInv'
BY TablesKept, IdleIsInformed, RequestStep DEF Abort

LEMMA ByHandKeeps ==
    ASSUME SeatInv, ByHand
    PROVE  SeatInv'
<1>1. tokens' = tokens /\ req' = req
  BY DEF ByHand
<1>2. Tables'
  <2>1. CASE \E u \in Users : account[u] # "absent" /\ account' = [account EXCEPT ![u] = Flip(@)]
                              /\ UNCHANGED <<org, seat>>
    BY <1>1, <2>1 DEF SeatInv, TypeOK, Tables, Flip, Status
  <2>2. CASE \E o \in Orgs : org[o] # "absent" /\ org' = [org EXCEPT ![o] = Flip(@)]
                             /\ UNCHANGED <<account, seat>>
    BY <1>1, <2>2 DEF SeatInv, TypeOK, Tables, Flip, Status
  <2>3. CASE \E c \in Orgs \X Users : /\ seat[c] # NoSeat
                                      /\ seat' = [seat EXCEPT ![c].active = ~@]
                                      /\ UNCHANGED <<account, org>>
    <3>1. PICK c \in Orgs \X Users : /\ seat[c] # NoSeat
                                     /\ seat' = [seat EXCEPT ![c].active = ~@]
                                     /\ UNCHANGED <<account, org>>
      BY <2>3
    <3>2. seat[c] \in Seats
      BY <3>1 DEF SeatInv, TypeOK
    <3>3. [seat[c] EXCEPT !.active = ~@] \in Seats
      BY <3>2 DEF Seats
    <3>4. seat' \in [Orgs \X Users -> Seats \cup {NoSeat}]
      BY <3>1, <3>3 DEF SeatInv, TypeOK
    <3> QED BY <1>1, <3>1, <3>4 DEF SeatInv, TypeOK, Tables
  <2> QED BY <2>1, <2>2, <2>3, Zenon DEF ByHand
<1> QED BY <1>1, <1>2 DEF SeatInv, TypeOK, Tables

LEMMA StepKeeps == SeatInv /\ [Next]_vars => SeatInv'
<1> SUFFICES ASSUME SeatInv, [Next]_vars PROVE SeatInv'
  OBVIOUS
<1>1. ASSUME NEW p \in Members, NEW u \in Users, NEW o \in Orgs, Register(p, u, o)
      PROVE  SeatInv'
  BY <1>1, RegisterKeeps
<1>2. ASSUME NEW p \in Members, Insert(p) \/ Look(p) \/ Count(p) \/ Write(p) \/ Abort(p)
      PROVE  SeatInv'
  BY <1>2, InsertKeeps, LookKeeps, CountKeeps, WriteKeeps, AbortKeeps
<1>3. ASSUME NEW u \in Users, Login(u) \/ Expire(u)
      PROVE  SeatInv'
  BY <1>3, SessionKeeps
<1>4. ASSUME NEW p \in Members, NEW op \in {"change", "remove"}, NEW u \in Users, NEW target \in Users,
             NEW header \in Orgs \cup {NoOrg}, NEW role \in Roles, Begin(p, op, u, header, target, role)
      PROVE  SeatInv'
  BY <1>4, BeginKeeps
<1>5. CASE ByHand
  BY <1>5, ByHandKeeps
<1>6. CASE UNCHANGED vars
  BY <1>6 DEF vars, SeatInv, TypeOK
<1> QED BY <1>1, <1>2, <1>3, <1>4, <1>5, <1>6, Zenon DEF Next

LEMMA Invariance == Spec => []SeatInv
BY InitInv, StepKeeps, PTL DEF Spec

\* Accounts, organizations, seats and what each request holds are always of their types.
THEOREM TypeCorrect == Spec => []TypeOK
<1>1. SeatInv => TypeOK
  BY DEF SeatInv
<1> QED BY <1>1, Invariance, PTL

-----------------------------------------------------------------------------
(* Both action properties look at one request, at work, that ends: it      *)
(* wrote, or it was lost and no seat moved.                                *)
Loses(p) ==
    LET r == req[p] IN
    r.pc = "write" /\ req'[p] = Idle /\ Owners(seat, r.org) # {} /\ Owners(seat', r.org) = {}
      => \/ seat[<<r.org, r.target>>].role # r.seen
         \/ r.seen = "owner" /\ Owners(seat, r.org) # r.owners

Gains(o, u) ==
    LET was == seat[<<o, u>>]  is == seat'[<<o, u>>] IN
    is # NoSeat /\ is.role = "owner" /\ (was = NoSeat \/ was.role # "owner") /\ org[o] # "absent"
      => \E p \in Members : /\ req[p].pc = "write" /\ req[p].org = o /\ req[p].target = u
                            /\ req[p].actor = "owner" /\ req[p].user # u

\* Of two owners one is left when the other's seat changes.
LEMMA AnotherStays ==
    ASSUME SeatInv, NEW p \in Members, Write(p), req[p].seen = "owner",
           Owners(seat, req[p].org) = req[p].owners
    PROVE  Owners(seat', req[p].org) # {}
<1> DEFINE r == req[p]
           c == <<r.org, r.target>>
<1>1. r \in Checks /\ Cardinality(r.owners) > 1
  BY RequestAtWork DEF Write, Informed
<1>2. PICK u \in r.owners : u # r.target
  <2>1. SUFFICES ASSUME r.owners \subseteq {r.target} PROVE FALSE
    OBVIOUS
  <2>2. Cardinality(r.owners) <= Cardinality({r.target}) /\ Cardinality({r.target}) = 1
    BY <2>1, FS_Subset, FS_Singleton
  <2>3. Cardinality(r.owners) \in Nat
    BY <1>1, MembersAssumption, FS_Subset, FS_CardinalityType DEF Checks
  <2> QED BY <1>1, <2>2, <2>3
<1>3. u \in Users /\ seat[<<r.org, u>>] \in [role : {"owner"}, active : {TRUE}]
  BY <1>2 DEF Owners
<1>4. <<r.org, u>> # c /\ <<r.org, u>> \in Orgs \X Users
  BY <1>1, <1>2, <1>3 DEF Checks
<1>5. PICK to : seat' = [seat EXCEPT ![c] = to]
  BY DEF Write
<1> HIDE DEF c
<1>6. seat'[<<r.org, u>>] = seat[<<r.org, u>>]
  BY <1>4, <1>5 DEF SeatInv, TypeOK
<1> QED BY <1>3, <1>6 DEF Owners

\* An owner other than the target keeps the organization owned.
LEMMA OwnersBesideStay ==
    ASSUME SeatInv, NEW p \in Members, Write(p), seat[<<req[p].org, req[p].target>>] = NoSeat \/
           seat[<<req[p].org, req[p].target>>].role # "owner",
           Owners(seat, req[p].org) # {}
    PROVE  Owners(seat', req[p].org) # {}
<1> DEFINE r == req[p]
           c == <<r.org, r.target>>
<1>1. r \in Checks
  BY RequestAtWork DEF Write
<1>2. seat' = [seat EXCEPT ![c] = IF r.op = "remove" \/ @ = NoSeat THEN NoSeat ELSE [@ EXCEPT !.role = r.role]]
  BY DEF Write
<1>3. c \in Orgs \X Users
  BY <1>1 DEF Checks
<1>4. PICK u \in Users : seat[<<r.org, u>>] \in [role : {"owner"}, active : {TRUE}]
  BY DEF Owners
<1>5. seat'[<<r.org, u>>] = seat[<<r.org, u>>]
  <2>1. CASE seat[c] = NoSeat
    <3>1. seat' = [seat EXCEPT ![c] = NoSeat]
      BY <1>2, <2>1
    <3> HIDE DEF c
    <3> QED BY <2>1, <3>1, <1>3, <1>4, <1>1 DEF SeatInv, TypeOK, Checks
  <2>2. CASE seat[c] # NoSeat /\ seat[c].role # "owner"
    <3>1. u # r.target
      BY <1>4, <2>2
    <3>2. <<r.org, u>> # c /\ <<r.org, u>> \in Orgs \X Users
      BY <1>1, <3>1 DEF Checks
    <3>3. PICK to : seat' = [seat EXCEPT ![c] = to]
      BY <1>2
    <3> HIDE DEF c
    <3> QED BY <3>2, <3>3 DEF SeatInv, TypeOK
  <2> QED BY <2>1, <2>2
<1> QED BY <1>4, <1>5 DEF Owners

\* Only the request itself ends itself.
LEMMA WhoEnds ==
    ASSUME SeatInv, [Next]_vars, NEW p \in Members, req[p].pc = "write", req'[p] = Idle
    PROVE  Write(p) \/ seat' = seat
<1>1. req[p] # Idle
  BY RequestAtWork
<1>2. ASSUME NEW q \in Members, Write(q)
      PROVE  q = p
  BY <1>1, <1>2 DEF Write, SeatInv, TypeOK
<1>3. ASSUME NEW q \in Members, Insert(q)
      PROVE  FALSE
  <2>1. q # p
    BY <1>3 DEF Insert
  <2>2. req' = [req EXCEPT ![q] = Idle]
    BY <1>3 DEF Insert
  <2> QED BY <1>1, <2>1, <2>2 DEF SeatInv, TypeOK
<1>4. CASE ByHand
  BY <1>1, <1>4 DEF ByHand
<1>5. CASE UNCHANGED vars
  BY <1>5 DEF vars
<1>6. ASSUME NEW q \in Members, Look(q) \/ Count(q) \/ Abort(q)
      PROVE  seat' = seat
  BY <1>6 DEF Look, Count, Abort
<1>7. ASSUME NEW q \in Members, NEW u \in Users, NEW o \in Orgs, Register(q, u, o)
      PROVE  seat' = seat
  BY <1>7 DEF Register
<1>8. ASSUME NEW u \in Users, Login(u) \/ Expire(u)
      PROVE  seat' = seat
  BY <1>8 DEF Login, Expire
<1>9. ASSUME NEW q \in Members, NEW op \in {"change", "remove"}, NEW u \in Users, NEW target \in Users,
             NEW header \in Orgs \cup {NoOrg}, NEW role \in Roles, Begin(q, op, u, header, target, role)
      PROVE  seat' = seat
  BY <1>9 DEF Begin
<1> QED BY <1>2, <1>3, <1>4, <1>5, <1>6, <1>7, <1>8, <1>9, Zenon DEF Next

LEMMA StepLosesUnseen ==
    ASSUME SeatInv, [Next]_vars, NEW p \in Members
    PROVE  Loses(p)
<1> DEFINE r == req[p]
           target == seat[<<r.org, r.target>>]
<1>1. SUFFICES ASSUME r.pc = "write", req'[p] = Idle, Owners(seat, r.org) # {}, Owners(seat', r.org) = {},
                      target.role = r.seen, ~(r.seen = "owner" /\ Owners(seat, r.org) # r.owners)
               PROVE  FALSE
  BY Zenon DEF Loses
<1>2. CASE Write(p)
  <2>1. CASE r.seen = "owner"
    BY <1>1, <1>2, <2>1, AnotherStays
  <2>2. CASE r.seen # "owner"
    BY <1>1, <1>2, <2>2, OwnersBesideStay
  <2> QED BY <2>1, <2>2
<1>3. CASE seat' = seat
  BY <1>1, <1>3
<1> QED BY <1>1, <1>2, <1>3, WhoEnds

\* An organization loses its last owner only through a request that acted on what was
\* no longer so, its target's role or the owners it had counted.
THEOREM LastOwnerGoesUnseen == Spec => LastOwnerGoesOnlyUnseen
<1>1. SeatInv /\ [Next]_vars => [\A p \in Members : Loses(p)]_vars
  BY StepLosesUnseen
<1>2. LastOwnerGoesOnlyUnseen <=> [][\A p \in Members : Loses(p)]_vars
  BY DEF LastOwnerGoesOnlyUnseen, Loses
<1> QED BY <1>1, <1>2, Invariance, PTL DEF Spec

-----------------------------------------------------------------------------
\* Only founders, writers and hands touch a seat.
LEMMA WhoSeats ==
    ASSUME SeatInv, [Next]_vars, seat' # seat
    PROVE  ByHand \/ \E p \in Members : Insert(p) \/ Write(p)
<1>1. ASSUME NEW p \in Members, NEW u \in Users, NEW o \in Orgs, Register(p, u, o)
      PROVE  FALSE
  BY <1>1 DEF Register
<1>2. ASSUME NEW p \in Members, Look(p) \/ Count(p) \/ Abort(p)
      PROVE  FALSE
  BY <1>2 DEF Look, Count, Abort
<1>3. ASSUME NEW u \in Users, Login(u) \/ Expire(u)
      PROVE  FALSE
  BY <1>3 DEF Login, Expire
<1>4. ASSUME NEW p \in Members, NEW op \in {"change", "remove"}, NEW u \in Users, NEW target \in Users,
             NEW header \in Orgs \cup {NoOrg}, NEW role \in Roles, Begin(p, op, u, header, target, role)
      PROVE  FALSE
  BY <1>4 DEF Begin
<1>5. CASE UNCHANGED vars
  BY <1>5 DEF vars
<1> QED BY <1>1, <1>2, <1>3, <1>4, <1>5, Zenon DEF Next

LEMMA StepGainsByOwner ==
    ASSUME SeatInv, [Next]_vars, NEW o \in Orgs, NEW u \in Users
    PROVE  Gains(o, u)
<1> DEFINE c == <<o, u>>
           was == seat[c]
           is == seat'[c]
<1>1. SUFFICES ASSUME is # NoSeat, is.role = "owner", was = NoSeat \/ was.role # "owner", org[o] # "absent"
               PROVE  \E p \in Members : /\ req[p].pc = "write" /\ req[p].org = o /\ req[p].target = u
                                         /\ req[p].actor = "owner" /\ req[p].user # u
  BY Zenon DEF Gains
<1>2. c \in Orgs \X Users /\ is # was
  BY <1>1
<1>3. ASSUME NEW p \in Members, Insert(p)
      PROVE  FALSE
  <2>1. PICK to : seat' = [seat EXCEPT ![<<req[p].org, req[p].user>>] =
                             IF account[req[p].user] = "absent" /\ org[req[p].org] = "absent" THEN to ELSE @]
    BY <1>3 DEF Insert
  <2>2. CASE c = <<req[p].org, req[p].user>>
    <3>1. seat' = seat
      BY <1>1, <2>1, <2>2 DEF SeatInv, TypeOK
    <3> QED BY <1>2, <3>1
  <2>3. CASE c # <<req[p].org, req[p].user>>
    BY <1>2, <2>1, <2>3 DEF SeatInv, TypeOK
  <2> QED BY <2>2, <2>3
<1>4. CASE ByHand
  <2>1. PICK d \in Orgs \X Users : seat[d] # NoSeat /\ seat' = [seat EXCEPT ![d].active = ~@]
    BY <1>2, <1>4 DEF ByHand
  <2>2. seat[d] \in Seats
    BY <2>1 DEF SeatInv, TypeOK
  <2>3. PICK flag : seat' = [seat EXCEPT ![d] = [@ EXCEPT !.active = flag]]
    BY <2>1
  <2>4. c = d
    BY <1>2, <2>3 DEF SeatInv, TypeOK
  <2>5. is = [was EXCEPT !.active = flag]
    BY <1>2, <2>3, <2>4 DEF SeatInv, TypeOK
  <2>6. is.role = was.role
    BY <2>2, <2>4, <2>5 DEF Seats
  <2> QED BY <1>1, <2>1, <2>4, <2>6
<1>5. ASSUME NEW p \in Members, Write(p)
      PROVE  /\ req[p].pc = "write" /\ req[p].org = o /\ req[p].target = u
             /\ req[p].actor = "owner" /\ req[p].user # u
  <2> DEFINE r == req[p]
             d == <<r.org, r.target>>
  <2>1. r \in Checks /\ Informed(r) /\ r.pc = "write"
    BY <1>5, RequestAtWork DEF Write
  <2>2. seat' = [seat EXCEPT ![d] = IF r.op = "remove" \/ @ = NoSeat THEN NoSeat ELSE [@ EXCEPT !.role = r.role]]
    BY <1>5 DEF Write
  <2>3. d \in Orgs \X Users
    BY <2>1 DEF Checks
  <2>4. c = d
    <3>1. PICK to : seat' = [seat EXCEPT ![d] = to]
      BY <2>2
    <3> HIDE DEF d
    <3> QED BY <1>2, <3>1 DEF SeatInv, TypeOK
  <2>5. is = IF r.op = "remove" \/ was = NoSeat THEN NoSeat ELSE [was EXCEPT !.role = r.role]
    BY <1>2, <2>2, <2>4 DEF SeatInv, TypeOK
  <2>6. r.op # "remove" /\ was # NoSeat /\ is = [was EXCEPT !.role = r.role]
    BY <1>1, <2>5
  <2>7. was \in Seats
    BY <1>2, <2>6 DEF SeatInv, TypeOK
  <2>8. r.role = "owner"
    BY <1>1, <2>6, <2>7 DEF Seats
  <2>9. r.op = "change"
    BY <2>1, <2>6 DEF Checks
  <2> QED BY <2>1, <2>4, <2>8, <2>9 DEF Informed
<1> QED BY <1>2, <1>3, <1>4, <1>5, WhoSeats

\* Whoever becomes an owner of an organization that exists was made one by somebody else,
\* an owner when their request began.
THEOREM OwnershipGranted == Spec => OwnershipIsGranted
<1>1. SeatInv /\ [Next]_vars => [\A o \in Orgs, u \in Users : Gains(o, u)]_vars
  BY StepGainsByOwner
<1>2. OwnershipIsGranted <=> [][\A o \in Orgs, u \in Users : Gains(o, u)]_vars
  BY DEF OwnershipIsGranted, Gains
<1> QED BY <1>1, <1>2, Invariance, PTL DEF Spec

-----------------------------------------------------------------------------
(* The inductive invariant.                                                *)

TurnsOf(r)   == {m \in turns : m.run = r}
Busy(p)    == call[p].pc \notin {"idle", "told"}
Appends(p) == call[p].pc \in {"position", "store"}

\* A turn is its run's, in the run's conversation; the transaction it was written in
\* has begun; and the turn that asked for a result is there, at a lower position.
TurnRowOK(m) ==
    /\ runs[m.run] # None /\ m.talk = runs[m.run].talk
    /\ m.nth <= Cardinality(TurnsOf(m.run))
    /\ m.created_at <= clock
    /\ m.kind = "result" =>
          \E n \in turns : /\ n.kind = "request" /\ n.run = m.run /\ n.tool = m.tool
                           /\ n.sequence < m.sequence

\* A run numbers its turns in the order of their positions, and what one transaction
\* writes has as many positions as turns.
PairOK(m, n) ==
    /\ m.run = n.run /\ m.nth = n.nth => m = n
    /\ m.run = n.run /\ m.nth < n.nth => m.sequence < n.sequence
    /\ m.sequence = n.sequence /\ m.created_at = n.created_at => m = n

\* A request that works on a run is the only one, and the run is under way.
HoldsRun(p) ==
    Busy(p) =>
       /\ runs[call[p].run] # None /\ runs[call[p].run].status = "running"
       /\ \A q \in Callers \ {p} : Busy(q) => call[q].run # call[p].run

\* A result is appended for a request that is stored; a transaction that has begun is
\* nobody else's, and the position that was read is past the run's.
AppendOK(p) ==
    LET c == call[p] IN
    Appends(p) =>
       /\ c.kinds = <<"result">> =>
             \E n \in TurnsOf(c.run) : n.kind = "request" /\ n.tool = runs[c.run].tools
       /\ c.created_at <= clock
       /\ c.created_at # 0 =>
             /\ \A m \in turns : m.created_at # c.created_at
             /\ \A q \in Callers \ {p} : Appends(q) => call[q].created_at # c.created_at
       /\ c.pc = "store" => /\ c.created_at # 0 /\ c.sequence # 0
                            /\ \A m \in TurnsOf(c.run) : m.sequence < c.sequence

\* What is sent to a model has each request before its result.
SentOK(sent) ==
    \A j \in DOMAIN sent : sent[j].kind = "result" =>
        \E i \in 1 .. j - 1 : /\ sent[i].kind = "request"
                              /\ sent[i].run = sent[j].run /\ sent[i].tool = sent[j].tool

TurnsFit ==
    /\ IsFiniteSet(turns)
    /\ \E bound \in Nat : \A m \in turns : m.sequence <= bound
    /\ \A m \in turns : TurnRowOK(m)
    /\ \A m, n \in turns : PairOK(m, n)

CallsOK == \A p \in Callers : HoldsRun(p) /\ AppendOK(p) /\ (Busy(p) => SentOK(call[p].sent))

TalkInv == ConversationsTypeOK /\ TurnsFit /\ CallsOK

-----------------------------------------------------------------------------
(* A set of numbers that is bounded has a greatest one: the least bound.   *)
LEMMA MaxIsReached ==
  ASSUME NEW S \in SUBSET Nat, S # {}, NEW b \in Nat, \A s \in S : s <= b
  PROVE  Max(S) \in S /\ \A s \in S : s <= Max(S)
<1> DEFINE Bounds == {n \in Nat : \A s \in S : s <= n}
<1>1. b \in Bounds /\ Bounds \subseteq Nat
  OBVIOUS
<1>2. PICK n \in Bounds : \A k \in Bounds : ~ (<<k, n>> \in OpToRel(<, Nat))
  <2> HIDE DEF Bounds
  <2> QED
    BY <1>1, NatLessThanWellFounded, WFMin, Zenon
<1>3. n \in Nat /\ \A s \in S : s <= n
  OBVIOUS
<1>4. n \in S
  <2> SUFFICES ASSUME n \notin S PROVE FALSE
    OBVIOUS
  <2>1. \A s \in S : s < n
    BY <1>3
  <2>2. n - 1 \in Nat /\ \A s \in S : s <= n - 1
    <3>1. PICK s \in S : TRUE
      OBVIOUS
    <3>2. s \in Nat /\ s < n
      BY <2>1, <3>1
    <3> QED
      BY <1>3, <2>1, <3>2
  <2>3. <<n - 1, n>> \in OpToRel(<, Nat)
    BY <1>3, <2>2 DEF OpToRel
  <2> QED
    BY <1>2, <2>2, <2>3
<1>5. \E x \in S : \A y \in S : x >= y
  BY <1>3, <1>4
<1>6. Max(S) \in S /\ \A y \in S : Max(S) >= y
  BY <1>5 DEF Max
<1> QED
  BY <1>6

-----------------------------------------------------------------------------
(* The order of the turns of a conversation.                               *)

LEMMA TalkTables ==
  ASSUME ConversationsTypeOK, TurnsFit, NEW t
  PROVE  /\ RowsOf(t) \subseteq turns /\ turns \subseteq Rows
         /\ IsFiniteSet(RowsOf(t)) /\ Cardinality(RowsOf(t)) \in Nat
<1>1. RowsOf(t) \in SUBSET turns
  BY DEF RowsOf
<1>2. IsFiniteSet(RowsOf(t))
  BY <1>1, FS_Subset DEF TurnsFit
<1> QED
  BY <1>1, <1>2, FS_CardinalityType DEF ConversationsTypeOK

LEMMA PrecedesIsTotal ==
  ASSUME ConversationsTypeOK, TurnsFit, NEW a \in turns, NEW b \in turns, NEW c \in turns
  PROVE  /\ ~ Precedes(a, a)
         /\ Precedes(a, b) => ~ Precedes(b, a)
         /\ Precedes(a, b) /\ Precedes(b, c) => Precedes(a, c)
         /\ Precedes(a, b) \/ Precedes(b, a) \/ a = b
<1>1. \A m \in turns : m.sequence \in Nat /\ m.created_at \in Nat
  BY DEF ConversationsTypeOK, Rows
<1>2. a.sequence = b.sequence /\ a.created_at = b.created_at => a = b
  BY DEF TurnsFit, PairOK
<1> QED
  BY <1>1, <1>2 DEF Precedes

\* The turns that precede one are fewer than all of them.
LEMMA RankIsBounded ==
  ASSUME ConversationsTypeOK, TurnsFit, NEW t, NEW m \in RowsOf(t)
  PROVE  Place(t, m) \in 0 .. Cardinality(RowsOf(t)) - 1
<1> DEFINE Before == {x \in RowsOf(t) : Precedes(x, m)}
<1>1. Before \in SUBSET RowsOf(t) /\ m \notin Before
  BY TalkTables, PrecedesIsTotal
<1>2. IsFiniteSet(RowsOf(t)) /\ Cardinality(RowsOf(t)) \in Nat
  BY TalkTables
<1>3. /\ IsFiniteSet(Before)
      /\ Cardinality(Before) <= Cardinality(RowsOf(t))
      /\ Cardinality(RowsOf(t)) = Cardinality(Before) => RowsOf(t) = Before
  <2> HIDE DEF Before
  <2> QED
    BY <1>1, <1>2, FS_Subset
<1>4. Cardinality(Before) \in Nat
  BY <1>3, FS_CardinalityType
<1>5. Cardinality(Before) # Cardinality(RowsOf(t))
  BY <1>1, <1>3
<1>6. Place(t, m) = Cardinality(Before)
  BY DEF Place
<1> QED
  BY <1>2, <1>3, <1>4, <1>5, <1>6

LEMMA RankGrows ==
  ASSUME ConversationsTypeOK, TurnsFit, NEW t, NEW a \in RowsOf(t), NEW b \in RowsOf(t), Precedes(a, b)
  PROVE  Place(t, a) < Place(t, b)
<1> DEFINE A == {x \in RowsOf(t) : Precedes(x, a)}
           B == {x \in RowsOf(t) : Precedes(x, b)}
<1>1. A \subseteq B
  BY TalkTables, PrecedesIsTotal
<1>2. a \in B /\ a \notin A
  BY TalkTables, PrecedesIsTotal
<1>3. IsFiniteSet(RowsOf(t))
  BY TalkTables
<1>4. B \in SUBSET RowsOf(t)
  OBVIOUS
<1>5. IsFiniteSet(B)
  BY <1>3, <1>4, FS_Subset
<1> HIDE DEF A, B
<1>6. A \in SUBSET B
  BY <1>1
<1>7. /\ IsFiniteSet(A)
      /\ Cardinality(A) <= Cardinality(B)
      /\ Cardinality(B) = Cardinality(A) => B = A
  BY <1>5, <1>6, FS_Subset
<1>8. Cardinality(A) \in Nat /\ Cardinality(B) \in Nat
  BY <1>5, <1>7, FS_CardinalityType
<1>9. Cardinality(A) < Cardinality(B)
  BY <1>2, <1>7, <1>8
<1> QED
  BY <1>9 DEF Place, A, B

LEMMA RankTellsTheOrder ==
  ASSUME ConversationsTypeOK, TurnsFit, NEW t, NEW a \in RowsOf(t), NEW b \in RowsOf(t)
  PROVE  /\ Place(t, a) = Place(t, b) => a = b
         /\ Place(t, a) < Place(t, b) => Precedes(a, b)
<1>1. Place(t, a) \in Int /\ Place(t, b) \in Int
  BY RankIsBounded, TalkTables
<1>2. Precedes(a, b) \/ Precedes(b, a) \/ a = b
  BY TalkTables, PrecedesIsTotal
<1>3. Precedes(a, b) => Place(t, a) < Place(t, b)
  BY RankGrows
<1>4. Precedes(b, a) => Place(t, b) < Place(t, a)
  BY RankGrows
<1> QED
  BY <1>1, <1>2, <1>3, <1>4

\* Ranks are distinct numbers below the number of turns, so every such number is one.
LEMMA RankIsReached ==
  ASSUME ConversationsTypeOK, TurnsFit, NEW t, NEW i \in 0 .. Cardinality(RowsOf(t)) - 1
  PROVE  \E m \in RowsOf(t) : Place(t, m) = i
<1> DEFINE N == Cardinality(RowsOf(t))
           f == [m \in RowsOf(t) |-> Place(t, m)]
<1>1. N \in Nat
  BY TalkTables
<1>2. f \in [RowsOf(t) -> 0 .. N - 1]
  BY RankIsBounded
<1>3. \A a, b \in RowsOf(t) : f[a] = f[b] => a = b
  BY RankTellsTheOrder
<1>4. f \in Injection(RowsOf(t), 0 .. N - 1)
  <2> HIDE DEF f, N
  <2> QED
    BY <1>2, <1>3 DEF Injection, IsInjective
<1>5. IsFiniteSet(0 .. N - 1) /\ Cardinality(0 .. N - 1) = N
  <2>1. IsFiniteSet(0 .. N - 1) /\ Cardinality(0 .. N - 1) = IF 0 > N - 1 THEN 0 ELSE N - 1 - 0 + 1
    <3> HIDE DEF N
    <3> QED
      BY <1>1, FS_Interval
  <2> QED
    BY <1>1, <2>1
<1>6. f \in Surjection(RowsOf(t), 0 .. N - 1)
  <2> HIDE DEF f
  <2> QED
    BY <1>4, <1>5, FS_Injection
<1>7. \E m \in RowsOf(t) : f[m] = i
  <2> HIDE DEF f
  <2> QED
    BY <1>6 DEF Surjection
<1> QED
  BY <1>7

LEMMA InOrderIsTheOrder ==
  ASSUME ConversationsTypeOK, TurnsFit, NEW t
  PROVE  /\ InOrder(t) \in Seq(Rows) /\ Len(InOrder(t)) = Cardinality(RowsOf(t))
         /\ DOMAIN InOrder(t) = 1 .. Cardinality(RowsOf(t))
         /\ \A i \in DOMAIN InOrder(t) : InOrder(t)[i] \in RowsOf(t) /\ Place(t, InOrder(t)[i]) = i - 1
         /\ \A m \in RowsOf(t) : \E i \in DOMAIN InOrder(t) : InOrder(t)[i] = m
<1> DEFINE N == Cardinality(RowsOf(t))
<1>1. N \in Nat /\ RowsOf(t) \subseteq Rows
  BY TalkTables
<1>2. DOMAIN InOrder(t) = 1 .. N
  BY DEF InOrder
<1>3. ASSUME NEW i \in 1 .. N
      PROVE  InOrder(t)[i] \in RowsOf(t) /\ Place(t, InOrder(t)[i]) = i - 1
  <2>1. \E m \in RowsOf(t) : Place(t, m) = i - 1
    BY <1>1, RankIsReached
  <2> QED
    BY <2>1 DEF InOrder
<1>4. InOrder(t) = [i \in 1 .. N |-> InOrder(t)[i]]
  BY DEF InOrder
<1>5. InOrder(t) \in [1 .. N -> Rows]
  BY <1>1, <1>3, <1>4
<1>6. InOrder(t) \in Seq(Rows) /\ Len(InOrder(t)) = N
  BY <1>1, <1>5, <1>2
<1>7. ASSUME NEW m \in RowsOf(t)
      PROVE  \E i \in 1 .. N : InOrder(t)[i] = m
  <2>1. Place(t, m) + 1 \in 1 .. N
    BY <1>1, RankIsBounded
  <2>2. InOrder(t)[Place(t, m) + 1] \in RowsOf(t) /\ Place(t, InOrder(t)[Place(t, m) + 1]) = Place(t, m)
    <3>1. PICK i \in 1 .. N : i = Place(t, m) + 1
      BY <2>1
    <3>2. InOrder(t)[i] \in RowsOf(t) /\ Place(t, InOrder(t)[i]) = i - 1
      BY <1>3
    <3>3. Place(t, m) = i - 1
      BY <3>1, RankIsBounded, <1>1
    <3> QED
      BY <3>1, <3>2, <3>3
  <2>3. InOrder(t)[Place(t, m) + 1] = m
    BY <2>2, RankTellsTheOrder
  <2> QED
    BY <2>1, <2>3
<1> QED
  BY <1>2, <1>3, <1>6, <1>7

\* The places of two turns in the order are as the turns are.
LEMMA PlacesTellTheOrder ==
  ASSUME ConversationsTypeOK, TurnsFit, NEW t, NEW i \in DOMAIN InOrder(t), NEW j \in DOMAIN InOrder(t)
  PROVE  i < j <=> Precedes(InOrder(t)[i], InOrder(t)[j])
<1> DEFINE a == InOrder(t)[i]
           b == InOrder(t)[j]
<1>1. i \in Int /\ j \in Int
  BY InOrderIsTheOrder, TalkTables
<1>2. a \in RowsOf(t) /\ b \in RowsOf(t) /\ Place(t, a) = i - 1 /\ Place(t, b) = j - 1
  BY InOrderIsTheOrder
<1>3. i < j => Precedes(a, b)
  BY <1>1, <1>2, RankTellsTheOrder
<1>4. Precedes(a, b) => i - 1 < j - 1
  BY <1>2, RankGrows
<1> QED
  BY <1>1, <1>3, <1>4

-----------------------------------------------------------------------------
(* What is read of a conversation.                                         *)

\* The turns that are read are the first ones, in their order.
LEMMA MessagesAreTheFirst ==
  ASSUME ConversationsTypeOK, TurnsFit, MaxReplayed \in Nat, NEW t
  PROVE  /\ Messages(t) \in Seq(Rows)
         /\ DOMAIN Messages(t) = 1 .. Len(Messages(t)) /\ Len(Messages(t)) \in Nat
         /\ DOMAIN Messages(t) \subseteq DOMAIN InOrder(t)
         /\ \A i \in DOMAIN Messages(t) : Messages(t)[i] = InOrder(t)[i]
<1> DEFINE all == InOrder(t)
           n   == IF Len(all) < MaxReplayed THEN Len(all) ELSE MaxReplayed
<1>1. all \in Seq(Rows)
  BY InOrderIsTheOrder
<1>2. Messages(t) = SubSeq(all, 1, n)
  BY DEF Messages
<1>3. n \in 0 .. Len(all)
  BY <1>1
<1> HIDE DEF all, n
<1>4. /\ SubSeq(all, 1, n) \in Seq(Rows) /\ Len(SubSeq(all, 1, n)) = n
      /\ \A i \in 1 .. n : SubSeq(all, 1, n)[i] = all[i]
  BY <1>1, <1>3
<1>5. DOMAIN all = 1 .. Len(all) /\ DOMAIN SubSeq(all, 1, n) = 1 .. n
  BY <1>1, <1>4
<1>6. 1 .. n \subseteq 1 .. Len(all) /\ n \in Nat
  BY <1>1, <1>3
<1> QED
  BY <1>2, <1>4, <1>5, <1>6 DEF all

LEMMA MessagesAreTurns ==
  ASSUME ConversationsTypeOK, TurnsFit, MaxReplayed \in Nat, NEW t, NEW i \in DOMAIN Messages(t)
  PROVE  Messages(t)[i] \in turns /\ Messages(t)[i].talk = t
<1>1. i \in DOMAIN InOrder(t) /\ Messages(t)[i] = InOrder(t)[i]
  BY MessagesAreTheFirst
<1>2. InOrder(t)[i] \in RowsOf(t)
  BY <1>1, InOrderIsTheOrder
<1> QED
  BY <1>1, <1>2 DEF RowsOf

\* The request of a result precedes it, so it is read whenever the result is.
LEMMA MessagesAreSent ==
  ASSUME ConversationsTypeOK, TurnsFit, MaxReplayed \in Nat, NEW t
  PROVE  SentOK(Messages(t))
<1> DEFINE all  == InOrder(t)
           said == Messages(t)
<1> SUFFICES ASSUME NEW j \in DOMAIN said, said[j].kind = "result"
             PROVE  \E i \in 1 .. j - 1 : /\ said[i].kind = "request"
                                          /\ said[i].run = said[j].run /\ said[i].tool = said[j].tool
  BY DEF SentOK
<1>1. said[j] = all[j] /\ j \in DOMAIN all /\ said[j] \in turns /\ said[j].talk = t
  BY MessagesAreTheFirst, MessagesAreTurns
<1>2. PICK n \in turns : /\ n.kind = "request" /\ n.run = said[j].run /\ n.tool = said[j].tool
                         /\ n.sequence < said[j].sequence
  BY <1>1 DEF TurnsFit, TurnRowOK
<1>3. n.talk = runs[n.run].talk /\ said[j].talk = runs[said[j].run].talk
  BY <1>1 DEF TurnsFit, TurnRowOK
<1>4. n \in RowsOf(t)
  BY <1>1, <1>2, <1>3 DEF RowsOf
<1>5. PICK i \in DOMAIN all : all[i] = n
  BY <1>4, InOrderIsTheOrder
<1>6. Precedes(all[i], all[j])
  BY <1>1, <1>2, <1>5 DEF Precedes
<1>7. i < j
  BY <1>1, <1>6, PlacesTellTheOrder
<1>8. i \in 1 .. j - 1 /\ i \in DOMAIN said
  <2>1. i \in Int /\ i >= 1 /\ j \in 1 .. Len(said) /\ Len(said) \in Nat
    BY <1>5, InOrderIsTheOrder, MessagesAreTheFirst, TalkTables
  <2>2. DOMAIN said = 1 .. Len(said)
    BY MessagesAreTheFirst
  <2> QED
    BY <1>7, <2>1, <2>2
<1>9. said[i] = n
  BY <1>5, <1>8, MessagesAreTheFirst
<1> QED
  BY <1>2, <1>8, <1>9

\* The position that is read is past every turn of the conversation.
LEMMA NextSequenceIsPast ==
  ASSUME ConversationsTypeOK, TurnsFit, NEW t
  PROVE  NextSequence(t) \in Nat \ {0} /\ \A m \in RowsOf(t) : m.sequence < NextSequence(t)
<1> DEFINE S == {0} \cup {m.sequence : m \in RowsOf(t)}
<1>1. \A m \in turns : m.sequence \in Nat
  BY DEF ConversationsTypeOK, Rows
<1>2. RowsOf(t) \subseteq turns
  BY TalkTables
<1>3. PICK b \in Nat : \A m \in turns : m.sequence <= b
  BY DEF TurnsFit
<1>4. S \in SUBSET Nat /\ S # {} /\ \A s \in S : s <= b
  BY <1>1, <1>2, <1>3
<1>5. \A m \in RowsOf(t) : m.sequence \in S
  OBVIOUS
<1>6. NextSequence(t) = 1 + Max(S)
  BY DEF NextSequence
<1> HIDE DEF S
<1>7. Max(S) \in Nat /\ \A s \in S : s <= Max(S)
  BY <1>4, MaxIsReached
<1> QED
  BY <1>1, <1>2, <1>5, <1>6, <1>7

LEMMA FinalResponseIsATurn ==
  ASSUME ConversationsTypeOK, TurnsFit, MaxReplayed \in Nat, NEW t
  PROVE  FinalResponse(t) \in Rows \cup {None}
<1> DEFINE said    == Messages(t)
           answers == {i \in DOMAIN said : said[i].kind = "answer"}
<1>1. CASE answers = {}
  BY <1>1 DEF FinalResponse
<1>2. CASE answers # {}
  <2>1. said \in Seq(Rows) /\ DOMAIN said = 1 .. Len(said) /\ Len(said) \in Nat
    BY MessagesAreTheFirst
  <2>2. answers \in SUBSET Nat /\ (\A i \in answers : i <= Len(said)) /\ answers \subseteq DOMAIN said
    BY <2>1
  <2>3. FinalResponse(t) = said[Max(answers)]
    BY <1>2 DEF FinalResponse
  <2> HIDE DEF answers, said
  <2>4. Max(answers) \in answers
    BY <1>2, <2>1, <2>2, MaxIsReached
  <2>5. Max(answers) \in DOMAIN said
    BY <2>2, <2>4
  <2>6. \A i \in DOMAIN said : said[i] \in Rows
    BY <2>1
  <2> QED
    BY <2>3, <2>5, <2>6
<1> QED
  BY <1>1, <1>2

-----------------------------------------------------------------------------
(* Steps that leave the table of turns alone.                              *)

USE DEF TurnsOf, Busy, Appends

LEMMA TurnsKept ==
  ASSUME ConversationsTypeOK, ConversationsTypeOK', TurnsFit, turns' = turns, clock <= clock',
         \A r \in TalkRuns : runs[r] # None => runs'[r] # None /\ runs'[r].talk = runs[r].talk
  PROVE  TurnsFit'
<1>1. clock \in Nat /\ clock' \in Nat /\ turns \subseteq Rows
  BY DEF ConversationsTypeOK
<1>2. \A m \in turns : m.run \in TalkRuns /\ m.created_at \in Nat
  BY <1>1 DEF Rows
<1>3. ASSUME NEW m \in turns
      PROVE  TurnRowOK(m)'
  <2>1. TurnRowOK(m)
    BY DEF TurnsFit
  <2> QED
    BY <1>1, <1>2, <2>1 DEF TurnRowOK
<1>4. \A m, n \in turns : PairOK(m, n)'
  BY DEF TurnsFit, PairOK
<1>5. IsFiniteSet(turns') /\ \E bound \in Nat : \A m \in turns' : m.sequence <= bound
  BY DEF TurnsFit
<1>6. \A m \in turns' : TurnRowOK(m)'
  BY <1>3
<1>7. \A m, n \in turns' : PairOK(m, n)'
  BY <1>4
<1> QED
  BY <1>5, <1>6, <1>7 DEF TurnsFit

\* What the step of one request must show of it, for what is known of the others.
LEMMA CallsKept ==
  ASSUME ConversationsTypeOK, ConversationsTypeOK', CallsOK, NEW p \in Callers,
         turns' = turns, clock <= clock',
         \A q \in Callers \ {p} : call'[q] = call[q],
         \A q \in Callers \ {p} : Busy(q) => runs'[call[q].run] = runs[call[q].run],
         HoldsRun(p)', AppendOK(p)', Busy(p)' => SentOK(call'[p].sent)
  PROVE  CallsOK'
<1> SUFFICES ASSUME NEW q \in Callers
             PROVE  HoldsRun(q)' /\ AppendOK(q)' /\ (Busy(q)' => SentOK(call'[q].sent))
  BY DEF CallsOK
<1>1. CASE q = p
  BY <1>1
<1>2. CASE q # p
  <2>1. HoldsRun(q) /\ AppendOK(q) /\ (Busy(q) => SentOK(call[q].sent))
    BY DEF CallsOK
  <2>2. call'[q] = call[q] /\ (Busy(q) => runs'[call[q].run] = runs[call[q].run])
    BY <1>2
  <2>3. HoldsRun(q)'
    <3> SUFFICES ASSUME Busy(q)
                 PROVE  /\ runs'[call'[q].run] # None /\ runs'[call'[q].run].status = "running"
                        /\ \A x \in Callers \ {q} : Busy(x)' => call'[x].run # call'[q].run
      BY <2>2 DEF HoldsRun
    <3>1. runs'[call'[q].run] # None /\ runs'[call'[q].run].status = "running"
      BY <2>1, <2>2 DEF HoldsRun
    <3>2. ASSUME NEW x \in Callers \ {q}, Busy(x)'
          PROVE  call'[x].run # call'[q].run
      <4>1. CASE x = p
        BY <1>2, <3>2, <2>2, <4>1 DEF HoldsRun
      <4>2. CASE x # p
        BY <3>2, <2>1, <2>2, <4>2 DEF HoldsRun
      <4> QED
        BY <4>1, <4>2
    <3> QED
      BY <3>1, <3>2
  <2>4. AppendOK(q)'
    <3> SUFFICES ASSUME Appends(q)
                 PROVE  AppendOK(q)'
      BY <2>2 DEF AppendOK
    <3> DEFINE c == call[q]
    <3>1. Busy(q) /\ runs'[c.run] = runs[c.run]
      BY <2>2
    <3>2. c.kinds = <<"result">> =>
             \E n \in TurnsOf(c.run) : n.kind = "request" /\ n.tool = runs[c.run].tools
      BY <2>1 DEF AppendOK
    <3>3. c.created_at <= clock'
      <4>1. c \in Working
        BY <3>1 DEF ConversationsTypeOK, Told, NoCall
      <4>2. c.created_at \in Nat /\ clock \in Nat /\ clock' \in Nat
        BY <4>1 DEF ConversationsTypeOK, Working
      <4>3. c.created_at <= clock
        BY <2>1 DEF AppendOK
      <4> QED
        BY <4>2, <4>3
    <3>4. c.created_at # 0 => \A m \in turns : m.created_at # c.created_at
      BY <2>1 DEF AppendOK
    <3>5. ASSUME c.created_at # 0, NEW x \in Callers \ {q}, Appends(x)'
          PROVE  call'[x].created_at # c.created_at
      <4>1. CASE x = p
        BY <1>2, <2>2, <3>5, <4>1 DEF AppendOK
      <4>2. CASE x # p
        BY <2>1, <3>5, <4>2 DEF AppendOK
      <4> QED
        BY <4>1, <4>2
    <3>6. c.pc = "store" => /\ c.created_at # 0 /\ c.sequence # 0
                            /\ \A m \in TurnsOf(c.run) : m.sequence < c.sequence
      BY <2>1 DEF AppendOK
    <3> QED
      BY <2>2, <3>1, <3>2, <3>3, <3>4, <3>5, <3>6 DEF AppendOK
  <2>5. Busy(q)' => SentOK(call'[q].sent)
    BY <2>1, <2>2
  <2> QED
    BY <2>3, <2>4, <2>5
<1> QED
  BY <1>1, <1>2

-----------------------------------------------------------------------------
(* The steps, one at a time.                                               *)

LEMMA WorkingTypes ==
  ASSUME ConversationsTypeOK, NEW p \in Callers
  PROVE  /\ Busy(p) <=> call[p] \in Working
         /\ ~ Busy(p) <=> call[p] \in {NoCall} \cup Told
BY DEF ConversationsTypeOK, Working, Told, NoCall

\* A reply tells of a run that there is.
LEMMA ViewIsTold ==
  ASSUME ConversationsTypeOK, TurnsFit, MaxReplayed \in Nat, NEW r \in TalkRuns, NEW replayed \in BOOLEAN
  PROVE  View(r, replayed) \in Told
BY FinalResponseIsATurn DEF View, Told

\* A step that leaves its request with nothing to do, and the turns as they are.
LEMMA StopsWorking ==
  ASSUME TalkInv, ConversationsTypeOK', NEW p \in Callers, turns' = turns, clock' = clock,
         \A q \in Callers \ {p} : call'[q] = call[q], ~ Busy(p)',
         \A q \in Callers \ {p} : Busy(q) => runs'[call[q].run] = runs[call[q].run],
         \A r \in TalkRuns : runs[r] # None => runs'[r] # None /\ runs'[r].talk = runs[r].talk
  PROVE  TalkInv'
<1>1. clock <= clock'
  BY DEF TalkInv, ConversationsTypeOK
<1>2. TurnsFit'
  BY <1>1, TurnsKept DEF TalkInv
<1>3. HoldsRun(p)' /\ AppendOK(p)' /\ (Busy(p)' => SentOK(call'[p].sent))
  BY DEF HoldsRun, AppendOK
<1>4. CallsOK'
  BY <1>1, <1>3, CallsKept DEF TalkInv
<1> QED
  BY <1>2, <1>4 DEF TalkInv

LEMMA ReplayStep ==
  ASSUME TalkInv, MaxReplayed \in Nat, NEW p \in Callers, NEW r \in TalkRuns, Replay(p, r)
  PROVE  TalkInv'
<1>1. View(r, TRUE) \in Told
  BY ViewIsTold DEF TalkInv
<1>2. ConversationsTypeOK'
  BY <1>1 DEF TalkInv, ConversationsTypeOK, Replay
<1>3. ~ Busy(p)'
  BY DEF Replay, View, TalkInv, ConversationsTypeOK
<1> QED
  BY <1>2, <1>3, StopsWorking DEF Replay, TalkInv, ConversationsTypeOK

LEMMA RefuseResumeStep ==
  ASSUME TalkInv, NEW p \in Callers, NEW r \in TalkRuns, RefuseResume(p, r)
  PROVE  TalkInv'
<1>1. ConversationsTypeOK'
  BY DEF TalkInv, ConversationsTypeOK, RefuseResume
<1>2. ~ Busy(p)'
  BY DEF RefuseResume, NoCall, TalkInv, ConversationsTypeOK
<1> QED
  BY <1>1, <1>2, StopsWorking DEF RefuseResume, TalkInv, ConversationsTypeOK

LEMMA CloseStep ==
  ASSUME TalkInv, MaxReplayed \in Nat, NEW p \in Callers, Close(p)
  PROVE  TalkInv'
<1> DEFINE r == call[p].run
<1>1. Busy(p) /\ call[p] \in Working /\ r \in TalkRuns
  <2>1. Busy(p)
    BY DEF Close
  <2> QED
    BY <2>1, WorkingTypes DEF TalkInv, Working
<1>2. View(r, FALSE) \in Told
  BY <1>1, ViewIsTold DEF TalkInv
<1>3. runs[r] \in Runs /\ runs[r] # None
  BY <1>1 DEF TalkInv, CallsOK, HoldsRun, ConversationsTypeOK
<1>4. runs' = [runs EXCEPT ![r].status = call[p].pc]
  BY DEF Close
<1>5. [runs[r] EXCEPT !.status = call[p].pc] \in Runs
  BY <1>3 DEF Runs, Close
<1>6. /\ runs'[r] = [runs[r] EXCEPT !.status = call[p].pc]
      /\ \A x \in TalkRuns \ {r} : runs'[x] = runs[x]
      /\ runs' \in [TalkRuns -> Runs \cup {None}]
  BY <1>1, <1>4, <1>5 DEF TalkInv, ConversationsTypeOK
<1>7. ConversationsTypeOK'
  BY <1>2, <1>6 DEF TalkInv, ConversationsTypeOK, Close
<1>8. ~ Busy(p)'
  BY DEF Close, View, TalkInv, ConversationsTypeOK
<1>9. \A q \in Callers \ {p} : Busy(q) => runs'[call[q].run] = runs[call[q].run]
  <2> SUFFICES ASSUME NEW q \in Callers \ {p}, Busy(q)
               PROVE  runs'[call[q].run] = runs[call[q].run]
    OBVIOUS
  <2>1. call[q].run # r
    BY <1>1 DEF TalkInv, CallsOK, HoldsRun
  <2>2. call[q].run \in TalkRuns
    BY WorkingTypes DEF TalkInv, Working
  <2> QED
    BY <1>6, <2>1, <2>2
<1>10. \A x \in TalkRuns : runs[x] # None => runs'[x] # None /\ runs'[x].talk = runs[x].talk
  <2> SUFFICES ASSUME NEW x \in TalkRuns, runs[x] # None
               PROVE  runs'[x] # None /\ runs'[x].talk = runs[x].talk
    OBVIOUS
  <2>1. CASE x = r
    <3>1. runs'[r] \in Runs /\ runs'[r].talk = runs[r].talk
      BY <1>3, <1>5, <1>6 DEF Runs
    <3> QED
      BY <2>1, <3>1 DEF Runs, None
  <2>2. CASE x # r
    BY <1>6, <2>2
  <2> QED
    BY <2>1, <2>2
<1>11. turns' = turns /\ clock' = clock /\ \A q \in Callers \ {p} : call'[q] = call[q]
  BY DEF Close, TalkInv, ConversationsTypeOK
<1> QED
  BY <1>7, <1>8, <1>9, <1>10, <1>11, StopsWorking

LEMMA StartStep ==
  ASSUME TalkInv, MaxReplayed \in Nat, MaxCalls \in Nat, NEW p \in Callers, NEW r \in TalkRuns,
         NEW k \in TalkKeys \cup {NoKey}, NEW t \in Talks \cup {NoTalk}, StartRun(p, r, k, t)
  PROVE  TalkInv'
<1>1. PICK new \in Talks, said \in {<<"user">>, <<"user", "user">>} :
         /\ runs' = [runs EXCEPT ![r] = [key |-> k, talk |-> new, tools |-> 0, status |-> "running"]]
         /\ call' = [call EXCEPT ![p] =
               Appending(r, said, IF t \in Talks THEN Messages(t) ELSE <<>>, clock + 1)]
  BY DEF StartRun
<1>2. ~ Busy(p) /\ runs[r] = None /\ clock' = clock + 1 /\ turns' = turns
  BY DEF StartRun, Free
<1> DEFINE sent == IF t \in Talks THEN Messages(t) ELSE <<>>
           c    == Appending(r, said, sent, clock + 1)
           new_run == [key |-> k, talk |-> new, tools |-> 0, status |-> "running"]
<1>3. clock \in Nat /\ clock <= clock'
  BY <1>2 DEF TalkInv, ConversationsTypeOK
<1>4. sent \in Seq(Rows) /\ SentOK(sent)
  <2>1. <<>> \in Seq(Rows) /\ SentOK(<<>>)
    BY DEF SentOK
  <2>2. Messages(t) \in Seq(Rows) /\ SentOK(Messages(t))
    BY MessagesAreTheFirst, MessagesAreSent DEF TalkInv
  <2> QED
    BY <2>1, <2>2
<1>5. c \in Working
  BY <1>3, <1>4 DEF Appending, Working, Batches
<1>6. new_run \in Runs
  BY DEF Runs
<1>7. /\ runs'[r] = new_run /\ \A x \in TalkRuns \ {r} : runs'[x] = runs[x]
      /\ runs' \in [TalkRuns -> Runs \cup {None}]
  BY <1>1, <1>6 DEF TalkInv, ConversationsTypeOK
<1>8. /\ call'[p] = c /\ \A q \in Callers \ {p} : call'[q] = call[q]
      /\ call' \in [Callers -> {NoCall} \cup Told \cup Working]
  BY <1>1, <1>5 DEF TalkInv, ConversationsTypeOK
<1>9. ConversationsTypeOK'
  BY <1>2, <1>3, <1>7, <1>8 DEF TalkInv, ConversationsTypeOK
<1>10. \A x \in TalkRuns : runs[x] # None => runs'[x] # None /\ runs'[x].talk = runs[x].talk
  BY <1>2, <1>7
<1>11. TurnsFit'
  BY <1>2, <1>3, <1>9, <1>10, TurnsKept DEF TalkInv
<1>12. \A q \in Callers \ {p} : Busy(q) =>
         call[q].run \in TalkRuns /\ runs[call[q].run] # None /\ call[q].run # r
  BY <1>2, WorkingTypes DEF TalkInv, CallsOK, HoldsRun, Working
<1>13. HoldsRun(p)'
  <2>1. runs'[r] # None /\ runs'[r].status = "running"
    BY <1>7 DEF None
  <2>2. call'[p].run = r
    BY <1>8 DEF Appending
  <2> QED
    BY <1>8, <1>12, <2>1, <2>2 DEF HoldsRun
<1>14. AppendOK(p)'
  <2>1. /\ call'[p].pc = "position" /\ call'[p].run = r /\ call'[p].kinds = said
        /\ call'[p].created_at = clock + 1
    BY <1>8 DEF Appending
  <2>2. said # <<"result">>
    BY SMT
  <2>3. \A m \in turns' : m.created_at # clock + 1
    <3>1. ASSUME NEW m \in turns PROVE m.created_at # clock + 1
      <4>1. m.created_at <= clock /\ m.created_at \in Nat
        BY DEF TalkInv, ConversationsTypeOK, TurnsFit, TurnRowOK, Rows
      <4> QED
        BY <1>3, <4>1
    <3> QED
      BY <1>2, <3>1
  <2>4. ASSUME NEW q \in Callers \ {p}, Appends(q)'
        PROVE  call'[q].created_at # clock + 1
    <3>1. call'[q] = call[q] /\ Appends(q)
      BY <1>8, <2>4
    <3>2. call[q].created_at <= clock /\ call[q].created_at \in Nat
      BY <3>1, WorkingTypes DEF TalkInv, CallsOK, AppendOK, Working
    <3> QED
      BY <1>3, <3>1, <3>2
  <2> QED
    BY <1>2, <1>3, <2>1, <2>2, <2>3, <2>4 DEF AppendOK
<1>15. SentOK(call'[p].sent)
  BY <1>4, <1>8 DEF Appending
<1>16. \A q \in Callers \ {p} : Busy(q) => runs'[call[q].run] = runs[call[q].run]
  BY <1>7, <1>12
<1>17. CallsOK'
  BY <1>2, <1>3, <1>8, <1>9, <1>13, <1>14, <1>15, <1>16, CallsKept DEF TalkInv
<1> QED
  BY <1>9, <1>11, <1>17 DEF TalkInv

LEMMA PositionStep ==
  ASSUME TalkInv, NEW p \in Callers, Position(p)
  PROVE  TalkInv'
<1> DEFINE c      == call[p]
           begins == IF c.created_at = 0 THEN 1 ELSE 0
           d      == [c EXCEPT !.pc = "store", !.sequence = NextSequence(runs[c.run].talk),
                               !.created_at = @ + begins * (clock + 1)]
           talk   == runs[c.run].talk
<1>1. c.pc = "position" /\ call' = [call EXCEPT ![p] = d] /\ clock' = clock + begins
  BY DEF Position
<1>2. turns' = turns /\ runs' = runs
  BY DEF Position
<1>3. Busy(p) /\ Appends(p) /\ c \in Working
  BY <1>1, WorkingTypes DEF TalkInv
<1>4. clock \in Nat /\ c.created_at \in Nat /\ clock <= clock' /\ clock' \in Nat
  BY <1>1, <1>3 DEF TalkInv, ConversationsTypeOK, Working
<1>5. NextSequence(talk) \in Nat \ {0} /\ \A m \in RowsOf(talk) : m.sequence < NextSequence(talk)
  BY NextSequenceIsPast DEF TalkInv
<1>6. d.created_at = (IF c.created_at = 0 THEN clock + 1 ELSE c.created_at)
  BY <1>3, <1>4 DEF Working
<1>7. /\ d.pc = "store" /\ d.sequence = NextSequence(talk) /\ d.run = c.run
      /\ d.kinds = c.kinds /\ d.sent = c.sent
  BY <1>3 DEF Working
<1>8. d \in Working
  <2>1. c.created_at + begins * (clock + 1) \in Nat
    BY <1>4
  <2> HIDE DEF begins
  <2> QED
    BY <1>3, <1>5, <2>1 DEF Working
<1> HIDE DEF d
<1>9. /\ call'[p] = d /\ \A q \in Callers \ {p} : call'[q] = call[q]
      /\ call' \in [Callers -> {NoCall} \cup Told \cup Working]
  BY <1>1, <1>8 DEF TalkInv, ConversationsTypeOK
<1>10. ConversationsTypeOK'
  BY <1>2, <1>4, <1>9 DEF TalkInv, ConversationsTypeOK
<1>11. TurnsFit'
  BY <1>2, <1>4, <1>10, TurnsKept DEF TalkInv
<1>12. HoldsRun(p) /\ AppendOK(p) /\ SentOK(c.sent)
  BY <1>3 DEF TalkInv, CallsOK
<1>13. HoldsRun(p)'
  BY <1>2, <1>3, <1>7, <1>9, <1>12 DEF HoldsRun
<1>14. AppendOK(p)'
  <2>1. d.kinds = <<"result">> =>
           \E n \in TurnsOf(d.run) : n.kind = "request" /\ n.tool = runs[d.run].tools
    BY <1>3, <1>7, <1>12 DEF AppendOK
  <2>2. d.created_at <= clock' /\ d.created_at # 0
    BY <1>1, <1>3, <1>4, <1>6, <1>12 DEF AppendOK
  <2>3. \A m \in turns : m.created_at # d.created_at
    <3>1. c.created_at # 0 => \A m \in turns : m.created_at # c.created_at
      BY <1>3, <1>12 DEF AppendOK
    <3>2. \A m \in turns : m.created_at <= clock /\ m.created_at \in Nat
      BY DEF TalkInv, ConversationsTypeOK, TurnsFit, TurnRowOK, Rows
    <3> QED
      BY <1>4, <1>6, <3>1, <3>2
  <2>4. ASSUME NEW q \in Callers \ {p}, Appends(q)'
        PROVE  call'[q].created_at # d.created_at
    <3>1. call'[q] = call[q] /\ Appends(q)
      BY <1>9, <2>4
    <3>2. call[q].created_at <= clock /\ call[q].created_at \in Nat
      BY <3>1, WorkingTypes DEF TalkInv, CallsOK, AppendOK, Working
    <3>3. c.created_at # 0 => call[q].created_at # c.created_at
      BY <1>3, <1>12, <3>1 DEF AppendOK
    <3> QED
      BY <1>4, <1>6, <3>1, <3>2, <3>3
  <2>5. \A m \in TurnsOf(d.run) : m.sequence < d.sequence
    <3>1. ASSUME NEW m \in TurnsOf(d.run)
          PROVE  m \in RowsOf(talk)
      <4>1. TurnRowOK(m) /\ m \in turns /\ m.run = c.run
        BY <1>7 DEF TalkInv, TurnsFit
      <4> QED
        BY <4>1 DEF TurnRowOK, RowsOf
    <3> QED
      BY <1>5, <1>7, <3>1
  <2>6. d.sequence # 0
    BY <1>5, <1>7
  <2> QED
    BY <1>2, <1>9, <2>1, <2>2, <2>3, <2>4, <2>5, <2>6 DEF AppendOK
<1>15. CallsOK'
  BY <1>2, <1>4, <1>7, <1>9, <1>10, <1>12, <1>13, <1>14, CallsKept DEF TalkInv
<1> QED
  BY <1>10, <1>11, <1>15 DEF TalkInv

LEMMA DecideStep ==
  ASSUME TalkInv, MaxCalls \in Nat, NEW p \in Callers, NEW kind \in {"answer", "request"}, Decide(p, kind)
  PROVE  TalkInv'
<1> DEFINE c == call[p]
           r == c.run
           d == Appending(r, <<kind>>, c.sent, 0)
           n == IF kind = "request" THEN runs[r].tools + 1 ELSE runs[r].tools
<1>1. /\ c.pc = "model" /\ turns' = turns /\ clock' = clock
      /\ runs' = [runs EXCEPT ![r].tools = IF kind = "request" THEN @ + 1 ELSE @]
      /\ call' = [call EXCEPT ![p] = d]
      /\ kind = "request" => runs[r].tools < MaxCalls
  BY DEF Decide
<1>2. Busy(p) /\ c \in Working /\ r \in TalkRuns
  BY <1>1, WorkingTypes DEF TalkInv, Working
<1>3. HoldsRun(p) /\ SentOK(c.sent)
  BY <1>2 DEF TalkInv, CallsOK
<1>4. runs[r] \in Runs /\ runs[r].status = "running" /\ runs[r] # None
  BY <1>2, <1>3 DEF HoldsRun, TalkInv, ConversationsTypeOK
<1>5. n \in 0 .. MaxCalls
  BY <1>1, <1>4 DEF Runs
<1>6. runs' = [runs EXCEPT ![r] = [runs[r] EXCEPT !.tools = n]]
  BY <1>1, <1>2 DEF TalkInv, ConversationsTypeOK
<1>7. [runs[r] EXCEPT !.tools = n] \in Runs
  <2> HIDE DEF n
  <2> QED
    BY <1>4, <1>5 DEF Runs
<1>8. /\ runs'[r] = [runs[r] EXCEPT !.tools = n] /\ \A x \in TalkRuns \ {r} : runs'[x] = runs[x]
      /\ runs' \in [TalkRuns -> Runs \cup {None}]
  BY <1>2, <1>6, <1>7 DEF TalkInv, ConversationsTypeOK
<1>9. d \in Working
  BY <1>2 DEF Appending, Working, Batches
<1>10. /\ call'[p] = d /\ \A q \in Callers \ {p} : call'[q] = call[q]
       /\ call' \in [Callers -> {NoCall} \cup Told \cup Working]
  BY <1>1, <1>9 DEF TalkInv, ConversationsTypeOK
<1>11. ConversationsTypeOK'
  BY <1>1, <1>8, <1>10 DEF TalkInv, ConversationsTypeOK
<1>12. runs'[r] # None /\ runs'[r].talk = runs[r].talk /\ runs'[r].status = "running"
  <2> HIDE DEF n
  <2>1. runs'[r] \in Runs /\ runs'[r].talk = runs[r].talk /\ runs'[r].status = "running"
    BY <1>4, <1>7, <1>8 DEF Runs
  <2> QED
    BY <2>1 DEF Runs, None
<1>13. clock <= clock'
  BY <1>1 DEF TalkInv, ConversationsTypeOK
<1>14. TurnsFit'
  BY <1>1, <1>8, <1>11, <1>12, <1>13, TurnsKept DEF TalkInv
<1>15. /\ d.pc = "position" /\ d.run = r /\ d.kinds = <<kind>> /\ d.sent = c.sent
       /\ d.created_at = 0
  BY DEF Appending
<1> HIDE DEF d
<1>16. HoldsRun(p)'
  BY <1>2, <1>3, <1>10, <1>12, <1>15 DEF HoldsRun
<1>17. AppendOK(p)'
  BY <1>1, <1>10, <1>15 DEF AppendOK, TalkInv, ConversationsTypeOK
<1>18. \A q \in Callers \ {p} : Busy(q) => runs'[call[q].run] = runs[call[q].run]
  <2> SUFFICES ASSUME NEW q \in Callers \ {p}, Busy(q)
               PROVE  runs'[call[q].run] = runs[call[q].run]
    OBVIOUS
  <2>1. call[q].run # r
    BY <1>2, <1>3 DEF HoldsRun
  <2>2. call[q].run \in TalkRuns
    BY WorkingTypes DEF TalkInv, Working
  <2> QED
    BY <1>8, <2>1, <2>2
<1>19. CallsOK'
  BY <1>1, <1>3, <1>10, <1>11, <1>13, <1>15, <1>16, <1>17, <1>18, CallsKept DEF TalkInv
<1> QED
  BY <1>11, <1>14, <1>19 DEF TalkInv

LEMMA ResumeStep ==
  ASSUME TalkInv, MaxReplayed \in Nat, NEW p \in Callers, NEW r \in TalkRuns, Resume(p, r)
  PROVE  TalkInv'
<1> DEFINE rows == Messages(runs[r].talk)
           d    == Appending(r, <<"result">>, rows, 0)
<1>1. /\ ~ Busy(p) /\ runs[r] # None /\ runs[r].status = "awaiting_approval"
      /\ PendingRequest(rows, r) # {}
      /\ runs' = [runs EXCEPT ![r].status = "running"]
      /\ call' = [call EXCEPT ![p] = d]
      /\ turns' = turns /\ clock' = clock
  BY DEF Resume, Free
<1>2. runs[r] \in Runs
  BY <1>1 DEF TalkInv, ConversationsTypeOK
<1>3. rows \in Seq(Rows) /\ SentOK(rows)
  BY MessagesAreTheFirst, MessagesAreSent DEF TalkInv
<1>4. \E n \in TurnsOf(r) : n.kind = "request" /\ n.tool = runs[r].tools
  <2>1. PICK i \in DOMAIN rows : rows[i].kind = "request" /\ rows[i].run = r /\ rows[i].tool = runs[r].tools
    BY <1>1 DEF PendingRequest
  <2>2. rows[i] \in turns
    BY MessagesAreTurns DEF TalkInv
  <2> QED
    BY <2>1, <2>2
<1>5. d \in Working
  <2> HIDE DEF rows
  <2> QED
    BY <1>3 DEF Appending, Working, Batches
<1>6. [runs[r] EXCEPT !.status = "running"] \in Runs
  BY <1>2 DEF Runs
<1>7. /\ runs'[r] = [runs[r] EXCEPT !.status = "running"]
      /\ \A x \in TalkRuns \ {r} : runs'[x] = runs[x]
      /\ runs' \in [TalkRuns -> Runs \cup {None}]
  BY <1>1, <1>6 DEF TalkInv, ConversationsTypeOK
<1>8. /\ call'[p] = d /\ \A q \in Callers \ {p} : call'[q] = call[q]
      /\ call' \in [Callers -> {NoCall} \cup Told \cup Working]
  <2> HIDE DEF d
  <2> QED
    BY <1>1, <1>5 DEF TalkInv, ConversationsTypeOK
<1>9. /\ d.pc = "position" /\ d.run = r /\ d.kinds = <<"result">> /\ d.sent = rows
      /\ d.created_at = 0
  BY DEF Appending
<1> HIDE DEF d, rows
<1>10. ConversationsTypeOK'
  BY <1>1, <1>7, <1>8 DEF TalkInv, ConversationsTypeOK
<1>11. /\ runs'[r] # None /\ runs'[r].talk = runs[r].talk /\ runs'[r].status = "running"
       /\ runs'[r].tools = runs[r].tools
  <2>1. runs'[r] \in Runs /\ runs'[r].talk = runs[r].talk /\ runs'[r].status = "running"
        /\ runs'[r].tools = runs[r].tools
    BY <1>2, <1>6, <1>7 DEF Runs
  <2> QED
    BY <2>1 DEF Runs, None
<1>12. clock <= clock'
  BY <1>1 DEF TalkInv, ConversationsTypeOK
<1>13. TurnsFit'
  BY <1>1, <1>7, <1>10, <1>11, <1>12, TurnsKept DEF TalkInv
<1>14. \A q \in Callers \ {p} : Busy(q) => call[q].run \in TalkRuns /\ call[q].run # r
  BY <1>1, WorkingTypes DEF TalkInv, CallsOK, HoldsRun, Working
<1>15. HoldsRun(p)'
  BY <1>8, <1>9, <1>11, <1>14 DEF HoldsRun
<1>16. AppendOK(p)'
  <2>1. \E n \in TurnsOf(r) : n.kind = "request" /\ n.tool = runs'[r].tools
    BY <1>4, <1>11
  <2> QED
    BY <1>1, <1>8, <1>9, <2>1 DEF AppendOK, TalkInv, ConversationsTypeOK
<1>17. \A q \in Callers \ {p} : Busy(q) => runs'[call[q].run] = runs[call[q].run]
  BY <1>7, <1>14
<1>18. CallsOK'
  BY <1>1, <1>3, <1>8, <1>9, <1>10, <1>12, <1>15, <1>16, <1>17, CallsKept DEF TalkInv
<1> QED
  BY <1>10, <1>13, <1>18 DEF TalkInv

-----------------------------------------------------------------------------
(* Storing turns.                                                          *)

\* A batch of one kind or two.
LEMMA BatchTypes ==
  ASSUME NEW kinds \in Batches
  PROVE  /\ kinds \in Seq(Kinds) /\ DOMAIN kinds = 1 .. Len(kinds) /\ Len(kinds) \in {1, 2}
         /\ \A i \in DOMAIN kinds : kinds[i] = "result" => kinds = <<"result">>
<1>1. CASE kinds = <<"user", "user">>
  BY <1>1 DEF Kinds
<1>2. CASE \E kind \in Kinds : kinds = <<kind>>
  BY <1>2
<1> QED
  BY <1>1, <1>2 DEF Batches, Kinds

\* What is stored: rows of the run, numbered and placed after those it has.
LEMMA StagedRows ==
  ASSUME TalkInv, MaxCalls \in Nat, NEW p \in Callers, call[p].pc = "store"
  PROVE  LET c   == call[p]
             nth == Cardinality(TurnsOf(c.run))
         IN /\ Staged(c) \subseteq Rows
            /\ \A m \in Staged(c) : /\ m.run = c.run /\ m.talk = runs[c.run].talk
                                    /\ m.created_at = c.created_at /\ m.tool = runs[c.run].tools
                                    /\ \E i \in DOMAIN c.kinds : /\ m.kind = c.kinds[i]
                                                                 /\ m.nth = nth + i
                                                                 /\ m.sequence = c.sequence + i - 1
            /\ \A m, n \in Staged(c) : m.nth = n.nth => m = n
            /\ \A i \in DOMAIN c.kinds : \E m \in Staged(c) : m.kind = c.kinds[i] /\ m.nth = nth + i
            /\ nth \in Nat
<1> DEFINE c   == call[p]
           nth == Cardinality(TurnsOf(c.run))
           row(i) == [talk |-> runs[c.run].talk, sequence |-> c.sequence + i - 1,
                      created_at |-> c.created_at, run |-> c.run, nth |-> nth + i,
                      kind |-> c.kinds[i], tool |-> runs[c.run].tools]
<1>1. Busy(p) /\ Appends(p) /\ c \in Working
  BY WorkingTypes DEF TalkInv
<1>2. c.run \in TalkRuns /\ c.kinds \in Batches /\ c.created_at \in Nat /\ c.sequence \in Nat \ {0}
  BY <1>1 DEF Working, TalkInv, CallsOK, AppendOK
<1>3. runs[c.run] \in Runs
  BY <1>1, <1>2 DEF TalkInv, CallsOK, HoldsRun, ConversationsTypeOK
<1>4. runs[c.run].talk \in Talks /\ runs[c.run].tools \in 0 .. MaxCalls
  BY <1>3 DEF Runs
<1>5. nth \in Nat
  <2>1. TurnsOf(c.run) \in SUBSET turns
    OBVIOUS
  <2> HIDE DEF TurnsOf
  <2> QED
    BY <2>1, FS_Subset, FS_CardinalityType DEF TalkInv, TurnsFit
<1>6. Staged(c) = {row(i) : i \in DOMAIN c.kinds}
  BY DEF Staged
<1>7. \A i \in DOMAIN c.kinds : i \in Nat \ {0} /\ c.kinds[i] \in Kinds
  BY <1>2, BatchTypes
<1>8. \A i \in DOMAIN c.kinds : row(i) \in Rows
  <2> SUFFICES ASSUME NEW i \in DOMAIN c.kinds
               PROVE  row(i) \in Rows
    OBVIOUS
  <2>1. c.sequence + i - 1 \in Nat \ {0} /\ nth + i \in Nat \ {0} /\ c.kinds[i] \in Kinds
    BY <1>2, <1>5, <1>7
  <2> HIDE DEF nth
  <2> QED
    BY <1>2, <1>4, <2>1 DEF Rows
<1> HIDE DEF nth
<1>9. \A m \in Staged(c) : /\ m.run = c.run /\ m.talk = runs[c.run].talk
                           /\ m.created_at = c.created_at /\ m.tool = runs[c.run].tools
                           /\ \E i \in DOMAIN c.kinds : /\ m.kind = c.kinds[i]
                                                        /\ m.nth = nth + i
                                                        /\ m.sequence = c.sequence + i - 1
  BY <1>6
<1>10. ASSUME NEW i \in DOMAIN c.kinds
       PROVE  \E m \in Staged(c) : m.kind = c.kinds[i] /\ m.nth = nth + i
  <2>1. row(i) \in Staged(c)
    BY <1>6
  <2>2. row(i).kind = c.kinds[i] /\ row(i).nth = nth + i
    OBVIOUS
  <2> QED
    BY <2>1, <2>2
<1>11. Staged(c) \subseteq Rows
  BY <1>6, <1>8
<1>12. ASSUME NEW m \in Staged(c), NEW n \in Staged(c), m.nth = n.nth
       PROVE  m = n
  <2>1. PICK i \in DOMAIN c.kinds : m = row(i)
    BY <1>6
  <2>2. PICK j \in DOMAIN c.kinds : n = row(j)
    BY <1>6
  <2>3. nth + i = nth + j
    BY <1>12, <2>1, <2>2
  <2>4. i = j
    BY <1>5, <1>7, <2>3
  <2> QED
    BY <2>1, <2>2, <2>4
<1> QED
  BY <1>5, <1>9, <1>10, <1>11, <1>12 DEF nth

\* They are that many more turns of the run.
LEMMA StagedCount ==
  ASSUME TalkInv, MaxCalls \in Nat, NEW p \in Callers, call[p].pc = "store"
  PROVE  LET c == call[p]
         IN /\ IsFiniteSet(turns \cup Staged(c))
            /\ Cardinality({m \in turns \cup Staged(c) : m.run = c.run})
                 = Cardinality(TurnsOf(c.run)) + Len(c.kinds)
<1> DEFINE c   == call[p]
           T   == TurnsOf(c.run)
           S   == Staged(c)
           nth == Cardinality(T)
<1>1. c.kinds \in Batches
  BY WorkingTypes DEF TalkInv, Working
<1>2. /\ DOMAIN c.kinds = 1 .. Len(c.kinds) /\ Len(c.kinds) \in {1, 2}
  BY <1>1, BatchTypes
<1>3. IsFiniteSet(turns) /\ T \in SUBSET turns
  BY DEF TalkInv, TurnsFit
<1>4. /\ \A m \in S : /\ m.run = c.run
                      /\ \E i \in DOMAIN c.kinds : m.nth = nth + i
      /\ \A m, n \in S : m.nth = n.nth => m = n
      /\ \A i \in DOMAIN c.kinds : \E m \in S : m.nth = nth + i
      /\ nth \in Nat
  BY StagedRows
<1>5. {m \in turns \cup S : m.run = c.run} = T \cup S
  BY <1>4
<1>6. \A m \in T : m.nth <= nth /\ m.nth \in Nat
  BY DEF TalkInv, ConversationsTypeOK, Rows, TurnsFit, TurnRowOK
<1> HIDE DEF T, S, nth
<1>7. IsFiniteSet(T)
  BY <1>3, FS_Subset
<1>8. PICK a \in S : a.nth = nth + 1
  <2>1. 1 \in DOMAIN c.kinds
    BY <1>1, BatchTypes
  <2> QED
    BY <1>4, <2>1
<1>9. a \notin T
  BY <1>4, <1>6, <1>8
<1>10. IsFiniteSet(T \cup {a}) /\ Cardinality(T \cup {a}) = nth + 1
  BY <1>7, <1>9, FS_AddElement DEF nth
<1>11. CASE Len(c.kinds) = 1
  <2>1. S = {a}
    <3>1. \A m \in S : m.nth = nth + 1
      BY <1>2, <1>4, <1>11
    <3> QED
      BY <1>4, <1>8, <3>1
  <2>2. IsFiniteSet(turns \cup S)
    BY <1>3, <2>1, FS_AddElement
  <2> QED
    BY <1>5, <1>10, <1>11, <2>1, <2>2 DEF T, S, nth
<1>12. CASE Len(c.kinds) = 2
  <2>1. PICK b \in S : b.nth = nth + 2
    <3>1. 2 \in DOMAIN c.kinds
      BY <1>1, <1>12, BatchTypes
    <3> QED
      BY <1>4, <3>1
  <2>2. S = {a, b}
    <3>1. \A m \in S : m.nth = nth + 1 \/ m.nth = nth + 2
      BY <1>2, <1>4, <1>12
    <3> QED
      BY <1>4, <1>8, <2>1, <3>1
  <2>3. b \notin T \cup {a}
    BY <1>4, <1>6, <1>8, <2>1
  <2>4. T \cup S = (T \cup {a}) \cup {b} /\ turns \cup S = (turns \cup {a}) \cup {b}
    BY <2>2
  <2>5. Cardinality(T \cup S) = nth + 1 + 1
    <3> DEFINE U == T \cup {a}
    <3> HIDE DEF U
    <3>1. IsFiniteSet(U) /\ Cardinality(U) = nth + 1 /\ b \notin U /\ T \cup S = U \cup {b}
      BY <1>10, <2>3, <2>4 DEF U
    <3>2. Cardinality(U \cup {b}) = Cardinality(U) + 1
      BY <3>1, FS_AddElement
    <3> QED
      BY <3>1, <3>2
  <2>6. IsFiniteSet(turns \cup {a})
    BY <1>3, FS_AddElement
  <2>7. IsFiniteSet(turns \cup S)
    BY <2>4, <2>6, FS_AddElement
  <2>8. nth + 1 + 1 = nth + 2
    BY <1>4
  <2> QED
    BY <1>5, <1>12, <2>5, <2>7, <2>8 DEF T, S, nth
<1> QED
  BY <1>2, <1>11, <1>12

LEMMA StoreTurns ==
  ASSUME TalkInv, MaxCalls \in Nat, NEW p \in Callers, call[p].pc = "store",
         turns' = turns \cup Staged(call[p]), runs' = runs, clock' = clock
  PROVE  TurnsFit' /\ turns' \subseteq Rows
<1> DEFINE c   == call[p]
           S   == Staged(c)
           nth == Cardinality(TurnsOf(c.run))
<1>1. Busy(p) /\ Appends(p) /\ c \in Working
  BY WorkingTypes DEF TalkInv
<1>2. c.run \in TalkRuns /\ c.kinds \in Batches /\ c.created_at \in Nat /\ c.sequence \in Nat \ {0}
  BY <1>1 DEF Working, TalkInv, CallsOK, AppendOK
<1>3. HoldsRun(p) /\ AppendOK(p)
  BY DEF TalkInv, CallsOK
<1>4. DOMAIN c.kinds = 1 .. Len(c.kinds) /\ Len(c.kinds) \in {1, 2}
  BY <1>2, BatchTypes
<1>5. /\ S \subseteq Rows
      /\ \A m \in S : /\ m.run = c.run /\ m.talk = runs[c.run].talk
                      /\ m.created_at = c.created_at /\ m.tool = runs[c.run].tools
                      /\ \E i \in DOMAIN c.kinds : /\ m.kind = c.kinds[i]
                                                   /\ m.nth = nth + i
                                                   /\ m.sequence = c.sequence + i - 1
      /\ \A m, n \in S : m.nth = n.nth => m = n
      /\ nth \in Nat
  BY StagedRows
<1>6. IsFiniteSet(turns \cup S) /\ Cardinality({m \in turns \cup S : m.run = c.run}) = nth + Len(c.kinds)
  BY StagedCount
<1>7. /\ turns \subseteq Rows
      /\ \A m \in turns : m.sequence \in Nat /\ m.created_at \in Nat /\ m.nth \in Nat
  BY DEF TalkInv, ConversationsTypeOK, Rows
<1>8. \A m \in turns : m.run = c.run => m.nth <= nth /\ m.sequence < c.sequence
  BY <1>1, <1>3 DEF AppendOK, TalkInv, TurnsFit, TurnRowOK
<1>9. \A m \in turns : m.created_at # c.created_at
  BY <1>1, <1>3 DEF AppendOK
<1>10. \A m \in S : m.nth \in Nat /\ m.nth > nth /\ m.sequence \in Nat /\ m.sequence >= c.sequence
  BY <1>2, <1>4, <1>5
<1> HIDE DEF S, nth
<1>11. turns' = turns \cup S
  BY DEF S
<1>12. turns' \subseteq Rows /\ IsFiniteSet(turns')
  BY <1>5, <1>6, <1>7, <1>11
<1>13. \E bound \in Nat : \A m \in turns' : m.sequence <= bound
  <2>1. PICK b \in Nat : \A m \in turns : m.sequence <= b
    BY DEF TalkInv, TurnsFit
  <2>2. \A m \in S : m.sequence <= c.sequence + 1
    BY <1>2, <1>4, <1>5, SMTT(40)
  <2>3. \A m \in turns' : m.sequence <= b + c.sequence + 1
    BY <1>2, <1>7, <1>10, <1>11, <2>1, <2>2
  <2>4. b + c.sequence + 1 \in Nat
    BY <1>2
  <2> QED
    BY <2>3, <2>4
<1>14. ASSUME NEW m \in turns'
       PROVE  TurnRowOK(m)'
  <2>1. CASE m \in turns
    <3>1. TurnRowOK(m)
      BY <2>1 DEF TalkInv, TurnsFit
    <3>2. m.nth <= Cardinality(TurnsOf(m.run)')
      <4>1. CASE m.run = c.run
        <5>1. TurnsOf(m.run)' = {x \in turns \cup S : x.run = c.run}
          BY <1>11, <4>1
        <5>2. Cardinality(TurnsOf(m.run)') = nth + Len(c.kinds)
          BY <1>6, <5>1
        <5>3. m.nth <= nth /\ m.nth \in Nat
          BY <1>7, <1>8, <2>1, <4>1
        <5> QED
          BY <1>4, <1>5, <5>2, <5>3
      <4>2. CASE m.run # c.run
        <5>1. TurnsOf(m.run)' = TurnsOf(m.run)
          BY <1>5, <1>11, <4>2
        <5> QED
          BY <3>1, <5>1 DEF TurnRowOK
      <4> QED
        BY <4>1, <4>2
    <3>3. m.kind = "result" =>
             \E n \in turns' : /\ n.kind = "request" /\ n.run = m.run /\ n.tool = m.tool
                               /\ n.sequence < m.sequence
      BY <1>11, <3>1 DEF TurnRowOK
    <3> QED
      BY <3>1, <3>2, <3>3 DEF TurnRowOK
  <2>2. CASE m \in S
    <3>1. m.run = c.run /\ m.talk = runs[c.run].talk /\ runs[c.run] # None /\ m.created_at <= clock
      BY <1>1, <1>3, <1>5, <2>2 DEF HoldsRun, AppendOK
    <3>2. m.nth <= Cardinality(TurnsOf(m.run)')
      <4>1. TurnsOf(m.run)' = {x \in turns \cup S : x.run = c.run}
        BY <1>11, <3>1
      <4>2. m.nth <= nth + Len(c.kinds)
        BY <1>4, <1>5, <2>2
      <4> QED
        BY <1>6, <4>1, <4>2
    <3>3. ASSUME m.kind = "result"
          PROVE  \E n \in turns' : /\ n.kind = "request" /\ n.run = m.run /\ n.tool = m.tool
                                   /\ n.sequence < m.sequence
      <4>1. c.kinds = <<"result">>
        BY <1>2, <1>5, <2>2, <3>3, BatchTypes
      <4>2. PICK n \in TurnsOf(c.run) : n.kind = "request" /\ n.tool = runs[c.run].tools
        BY <1>1, <1>3, <4>1 DEF AppendOK
      <4>3. n.sequence < m.sequence
        BY <1>2, <1>7, <1>8, <1>10, <2>2, <4>2
      <4>4. n \in turns' /\ n.run = m.run /\ n.tool = m.tool
        BY <1>5, <1>11, <2>2, <4>2
      <4> QED
        BY <4>2, <4>3, <4>4
    <3> QED
      BY <3>1, <3>2, <3>3 DEF TurnRowOK
  <2> QED
    BY <1>11, <2>1, <2>2
<1>15. ASSUME NEW m \in turns', NEW n \in turns'
       PROVE  PairOK(m, n)
  <2>1. CASE m \in turns /\ n \in turns
    BY <2>1 DEF TalkInv, TurnsFit
  <2>2. CASE m \in turns /\ n \in S
    <3>1. n.run = c.run /\ n.created_at = c.created_at /\ m.created_at # c.created_at
      BY <1>5, <1>9, <2>2
    <3>2. m.run = n.run => m.nth < n.nth /\ m.sequence < n.sequence
      BY <1>2, <1>5, <1>7, <1>8, <1>10, <2>2, <3>1
    <3>3. m.nth \in Nat /\ n.nth \in Nat
      BY <1>7, <1>10, <2>2
    <3> QED
      BY <3>1, <3>2, <3>3 DEF PairOK
  <2>3. CASE m \in S /\ n \in turns
    <3>1. m.run = c.run /\ m.created_at = c.created_at /\ n.created_at # c.created_at
      BY <1>5, <1>9, <2>3
    <3>2. m.run = n.run => n.nth < m.nth
      BY <1>5, <1>7, <1>8, <1>10, <2>3, <3>1
    <3>3. m.nth \in Nat /\ n.nth \in Nat
      BY <1>7, <1>10, <2>3
    <3> QED
      BY <3>1, <3>2, <3>3 DEF PairOK
  <2>4. CASE m \in S /\ n \in S
    <3>1. PICK i \in DOMAIN c.kinds : m.nth = nth + i /\ m.sequence = c.sequence + i - 1
      BY <1>5, <2>4
    <3>2. PICK j \in DOMAIN c.kinds : n.nth = nth + j /\ n.sequence = c.sequence + j - 1
      BY <1>5, <2>4
    <3>3. i \in Int /\ j \in Int
      BY <1>4
    <3>4. m.nth < n.nth => m.sequence < n.sequence
      BY <1>2, <1>5, <3>1, <3>2, <3>3
    <3>5. m.sequence = n.sequence => m.nth = n.nth
      BY <1>2, <1>5, <3>1, <3>2, <3>3
    <3>6. m.nth = n.nth => m = n
      BY <1>5, <2>4
    <3> QED
      BY <3>4, <3>5, <3>6 DEF PairOK
  <2> QED
    BY <1>11, <2>1, <2>2, <2>3, <2>4
<1>16. \A m, n \in turns' : PairOK(m, n)'
  BY <1>15 DEF PairOK
<1> QED
  BY <1>12, <1>13, <1>14, <1>16 DEF TurnsFit

LEMMA StoreStep ==
  ASSUME TalkInv, MaxCalls \in Nat, NEW p \in Callers,
         NEW next \in {"model", "completed", "awaiting_approval", "result"}, Store(p, next)
  PROVE  TalkInv'
<1> DEFINE c == call[p]
           d == IF next = "result" THEN Appending(c.run, <<"result">>, c.sent, 0)
                ELSE [c EXCEPT !.pc = next]
<1>1. /\ c.pc = "store" /\ turns' = turns \cup Staged(c) /\ runs' = runs /\ clock' = clock
      /\ call' = [call EXCEPT ![p] = d]
  BY DEF Store
<1>2. next = "result" => c.kinds[1] = "request"
  BY DEF Store
<1>3. Busy(p) /\ Appends(p) /\ c \in Working
  BY <1>1, WorkingTypes DEF TalkInv
<1>4. HoldsRun(p) /\ AppendOK(p) /\ SentOK(c.sent) /\ c.kinds \in Batches /\ c.run \in TalkRuns
  BY <1>3 DEF TalkInv, CallsOK, Working
<1>5. TurnsFit' /\ turns' \subseteq Rows
  BY <1>1, StoreTurns
<1>6. /\ d \in Working /\ d.run = c.run /\ d.sent = c.sent
      /\ next = "result" => d.pc = "position" /\ d.kinds = <<"result">> /\ d.created_at = 0
      /\ next # "result" => d.pc = next
  <2>1. CASE next = "result"
    BY <1>3, <2>1 DEF Working, Appending, Batches
  <2>2. CASE next # "result"
    BY <1>3, <2>2 DEF Working
  <2> QED
    BY <2>1, <2>2
<1> HIDE DEF d
<1>7. /\ call'[p] = d /\ \A q \in Callers \ {p} : call'[q] = call[q]
      /\ call' \in [Callers -> {NoCall} \cup Told \cup Working]
  BY <1>1, <1>6 DEF TalkInv, ConversationsTypeOK
<1>8. ConversationsTypeOK'
  BY <1>1, <1>5, <1>7 DEF TalkInv, ConversationsTypeOK
<1>9. /\ \A m \in Staged(c) : m.run = c.run /\ m.created_at = c.created_at /\ m.tool = runs[c.run].tools
      /\ \A i \in DOMAIN c.kinds : \E m \in Staged(c) : m.kind = c.kinds[i]
  BY <1>1, StagedRows, ZenonT(60)
<1>10. Busy(p)' /\ (Appends(p)' => next = "result")
  BY <1>6, <1>7
<1>11. ASSUME NEW q \in Callers
       PROVE  HoldsRun(q)' /\ AppendOK(q)' /\ (Busy(q)' => SentOK(call'[q].sent))
  <2>1. CASE q = p
    <3>1. HoldsRun(p)'
      BY <1>1, <1>3, <1>4, <1>6, <1>7 DEF HoldsRun
    <3>2. AppendOK(p)'
      <4> SUFFICES ASSUME next = "result"
                   PROVE  AppendOK(p)'
        BY <1>10 DEF AppendOK
      <4>1. 1 \in DOMAIN c.kinds
        BY <1>4, BatchTypes
      <4>2. PICK m \in Staged(c) : m.kind = "request"
        BY <1>2, <1>9, <4>1
      <4>3. \E n \in TurnsOf(c.run)' : n.kind = "request" /\ n.tool = runs'[c.run].tools
        <5>1. m \in turns' /\ m.run = c.run /\ m.tool = runs'[c.run].tools
          BY <1>1, <1>9, <4>2
        <5>2. call'[p].run = c.run
          BY <1>6, <1>7
        <5> QED
          BY <4>2, <5>1, <5>2
      <4> QED
        BY <1>1, <1>6, <1>7, <4>3 DEF AppendOK, TalkInv, ConversationsTypeOK
    <3>3. SentOK(call'[p].sent)
      BY <1>4, <1>6, <1>7
    <3> QED
      BY <2>1, <3>1, <3>2, <3>3
  <2>2. CASE q # p
    <3>1. HoldsRun(q) /\ AppendOK(q) /\ (Busy(q) => SentOK(call[q].sent)) /\ call'[q] = call[q]
      BY <1>7, <2>2 DEF TalkInv, CallsOK
    <3>2. HoldsRun(q)'
      <4> SUFFICES ASSUME Busy(q)
                   PROVE  /\ runs'[call'[q].run] # None /\ runs'[call'[q].run].status = "running"
                          /\ \A x \in Callers \ {q} : Busy(x)' => call'[x].run # call'[q].run
        BY <3>1 DEF HoldsRun
      <4>1. runs'[call'[q].run] # None /\ runs'[call'[q].run].status = "running"
        BY <1>1, <3>1 DEF HoldsRun
      <4>2. ASSUME NEW x \in Callers \ {q}, Busy(x)'
            PROVE  call'[x].run # call'[q].run
        <5>1. CASE x = p
          BY <1>3, <1>6, <1>7, <2>2, <3>1, <5>1 DEF HoldsRun
        <5>2. CASE x # p
          BY <1>7, <3>1, <4>2, <5>2 DEF HoldsRun
        <5> QED
          BY <5>1, <5>2
      <4> QED
        BY <4>1, <4>2
    <3>3. AppendOK(q)'
      <4> SUFFICES ASSUME Appends(q)
                   PROVE  AppendOK(q)'
        BY <3>1 DEF AppendOK
      <4> DEFINE e == call[q]
      <4>1. e.run # c.run
        BY <1>3, <2>2, <3>1 DEF HoldsRun
      <4>2. TurnsOf(e.run)' = TurnsOf(e.run)
        BY <1>1, <1>9, <4>1
      <4>3. e.created_at # 0 => e.created_at # c.created_at
        BY <1>3, <2>2, <3>1 DEF AppendOK
      <4>4. e.created_at # 0 => \A m \in turns' : m.created_at # e.created_at
        BY <1>1, <1>9, <3>1, <4>3 DEF AppendOK
      <4>5. ASSUME e.created_at # 0, NEW x \in Callers \ {q}, Appends(x)'
            PROVE  call'[x].created_at # e.created_at
        <5>1. CASE x = p
          BY <1>6, <1>7, <1>10, <4>5, <5>1
        <5>2. CASE x # p
          BY <1>7, <3>1, <4>5, <5>2 DEF AppendOK
        <5> QED
          BY <5>1, <5>2
      <4>6. /\ e.kinds = <<"result">> =>
                 \E n \in TurnsOf(e.run)' : n.kind = "request" /\ n.tool = runs[e.run].tools
            /\ e.created_at <= clock
            /\ e.pc = "store" => /\ e.created_at # 0 /\ e.sequence # 0
                                 /\ \A m \in TurnsOf(e.run)' : m.sequence < e.sequence
        <5> HIDE DEF TurnsOf
        <5> QED
          BY <3>1, <4>2 DEF AppendOK
      <4> QED
        BY <1>1, <3>1, <4>4, <4>5, <4>6 DEF AppendOK
    <3> QED
      BY <3>1, <3>2, <3>3
  <2> QED
    BY <2>1, <2>2
<1>12. CallsOK'
  BY <1>11 DEF CallsOK
<1> QED
  BY <1>5, <1>8, <1>12 DEF TalkInv

-----------------------------------------------------------------------------
(* The theorems.                                                           *)

LEMMA InitHolds == ConversationsInit => TalkInv
<1> SUFFICES ASSUME ConversationsInit PROVE TalkInv
  OBVIOUS
<1>1. ConversationsTypeOK
  BY DEF ConversationsInit, ConversationsTypeOK
<1>2. TurnsFit
  BY FS_EmptySet DEF ConversationsInit, TurnsFit
<1>3. CallsOK
  BY DEF ConversationsInit, CallsOK, HoldsRun, AppendOK, NoCall
<1> QED
  BY <1>1, <1>2, <1>3 DEF TalkInv

LEMMA StutterStep ==
  ASSUME TalkInv, UNCHANGED turnVars
  PROVE  TalkInv'
BY DEF TalkInv, ConversationsTypeOK, TurnsFit, TurnRowOK, PairOK, CallsOK, HoldsRun, AppendOK, SentOK, turnVars

\* What is kept of conversations: the turns are numbered and placed so that a run's are
\* in order and each result has its request before it (repositories/conversation.py
\* 106-168), and a run is worked on by one request at a time.
THEOREM ConversationsInvariant ==
  ASSUME MaxReplayed \in Nat, MaxCalls \in Nat
  PROVE  ConversationsSpec => []TalkInv
<1>1. ConversationsInit => TalkInv
  BY InitHolds
<1>2. TalkInv /\ [ConversationsNext]_turnVars => TalkInv'
  <2> SUFFICES ASSUME TalkInv, [ConversationsNext]_turnVars
               PROVE  TalkInv'
    OBVIOUS
  <2>1. CASE UNCHANGED turnVars
    BY <2>1, StutterStep
  <2>2. CASE ConversationsNext
    <3>1. PICK p \in Callers :
            \/ \E r \in TalkRuns : Replay(p, r) \/ Resume(p, r) \/ RefuseResume(p, r)
            \/ \E r \in TalkRuns, k \in TalkKeys \cup {NoKey}, t \in Talks \cup {NoTalk} : StartRun(p, r, k, t)
            \/ Position(p) \/ Close(p)
            \/ \E next \in {"model", "completed", "awaiting_approval", "result"} : Store(p, next)
            \/ \E kind \in {"answer", "request"} : Decide(p, kind)
      BY <2>2 DEF ConversationsNext
    <3>2. CASE \E r \in TalkRuns : Replay(p, r) \/ Resume(p, r) \/ RefuseResume(p, r)
      BY <3>2, ReplayStep, ResumeStep, RefuseResumeStep
    <3>3. CASE \E r \in TalkRuns, k \in TalkKeys \cup {NoKey}, t \in Talks \cup {NoTalk} : StartRun(p, r, k, t)
      BY <3>3, StartStep
    <3>4. CASE Position(p)
      BY <3>4, PositionStep
    <3>5. CASE Close(p)
      BY <3>5, CloseStep
    <3>6. CASE \E next \in {"model", "completed", "awaiting_approval", "result"} : Store(p, next)
      BY <3>6, StoreStep
    <3>7. CASE \E kind \in {"answer", "request"} : Decide(p, kind)
      BY <3>7, DecideStep
    <3> QED
      BY <3>1, <3>2, <3>3, <3>4, <3>5, <3>6, <3>7
  <2> QED
    BY <2>1, <2>2
<1> QED
  BY <1>1, <1>2, PTL DEF ConversationsSpec

\* Whoever else writes to the conversation, the turns of one run are read back in the
\* order it wrote them (list_for_conversation, repositories/conversation.py:106): two
\* transactions may hold one position, but a run's next position is past its last.
THEOREM TurnsStayInOrder ==
  ASSUME MaxReplayed \in Nat, MaxCalls \in Nat
  PROVE  ConversationsSpec => []RunTurnsInOrder
<1>1. TalkInv => RunTurnsInOrder
  <2> SUFFICES ASSUME TalkInv, NEW t \in Talks,
                      NEW i \in DOMAIN InOrder(t), NEW j \in DOMAIN InOrder(t),
                      i < j, InOrder(t)[i].run = InOrder(t)[j].run
               PROVE  InOrder(t)[i].nth < InOrder(t)[j].nth
    BY Zenon DEF RunTurnsInOrder
  <2> DEFINE a == InOrder(t)[i]
             b == InOrder(t)[j]
  <2>1. ConversationsTypeOK /\ TurnsFit
    BY DEF TalkInv
  <2>2. a \in turns /\ b \in turns
    BY <2>1, InOrderIsTheOrder, TalkTables
  <2>3. Precedes(a, b) /\ ~ Precedes(a, a)
    BY <2>1, <2>2, PlacesTellTheOrder, PrecedesIsTotal
  <2>4. /\ a.nth \in Nat /\ b.nth \in Nat /\ a.sequence \in Nat /\ b.sequence \in Nat
    BY <2>1, <2>2 DEF ConversationsTypeOK, Rows
  <2>5. PairOK(a, b) /\ PairOK(b, a)
    BY <2>1, <2>2 DEF TurnsFit
  <2>6. a.nth # b.nth
    BY <2>3, <2>5 DEF PairOK
  <2>7. ~ (b.nth < a.nth)
    BY <2>3, <2>4, <2>5 DEF PairOK, Precedes
  <2> QED
    BY <2>4, <2>6, <2>7
<1> QED
  BY <1>1, ConversationsInvariant, PTL

\* No model is sent the result of a tool without the turn that asked for it before it,
\* whatever MAX_REPLAYED_MESSAGES is and wherever it cuts the conversation
\* (agents/runtime.py and services/approvals.py rebuild what is sent from the rows).
THEOREM ResultsAreSentAfterRequests ==
  ASSUME MaxReplayed \in Nat, MaxCalls \in Nat
  PROVE  ConversationsSpec => []ResultsFollowTheirRequests
<1>1. TalkInv => ResultsFollowTheirRequests
  <2> SUFFICES ASSUME TalkInv, NEW p \in Callers, "sent" \in DOMAIN call[p]
               PROVE  SentOK(call[p].sent)
    BY DEF ResultsFollowTheirRequests, SentOK
  <2>1. call[p] \notin {NoCall} \cup Told
    BY DEF NoCall, Told
  <2>2. Busy(p)
    BY <2>1, WorkingTypes DEF TalkInv
  <2> QED
    BY <2>2 DEF TalkInv, CallsOK
<1> QED
  BY <1>1, ConversationsInvariant, PTL
=============================================================================
