SPECIFICATION Spec
CONSTANTS
 Users = {u1, u2}
 Orgs = {o1}
 Members = {m1, m2}
 NoSeat = NoSeat
 NoOrg = NoOrg
 MaxActs = 2
PROPERTY LastOwnerStays
CHECK_DEADLOCK FALSE
