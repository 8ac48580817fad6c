CONSTANTS
  Users = {u1, u2}
  Invitations = {i1}
  Requests = {r1, r2}
  InvitedRoles = {"member"}
  Workloads <- MCLeaving
  None = None
SPECIFICATION Spec
PROPERTY LastOwnerStays
CHECK_DEADLOCK FALSE
