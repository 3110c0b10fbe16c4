\* Two people, two mailboxes, one of them written in two cases; two accounts in all.
SPECIFICATION Spec
CONSTANTS
  alice = alice
  bob = bob
  a1 = a1
  a2 = a2
  b = b
  ka = ka
  kb = kb
  sa = sa
  sb = sb
  None = None
  Person = {alice, bob}
  Address = {a1, a2, b}
  Key = {ka, kb}
  KeyOf <- MCKeyOf
  OwnerOf <- MCOwnerOf
  Subject = {sa, sb}
  User = {u1, u2}
  Req = {r1, r2}
SYMMETRY Symmetry
 
PROPERTIES ProvenIsKept UnlinkKeepsAWayIn
\* The bounded supply of account ids runs out, so the instance may stop.
CHECK_DEADLOCK FALSE
