CONSTANTS
  Users = {u1, u2, u3}
  Invitations = {i1}
  Requests = {r1, r2}
  InvitedRoles = {"member"}
  Workloads <- MCWorkloads
  None = None
SPECIFICATION Spec
SYMMETRY Symmetry
INVARIANT TypeOK
INVARIANT RemovedNotActive
PROPERTY SoleOwnerKept
PROPERTY OwnerNotDeposed
PROPERTY InvitationStaysClosed
PROPERTY ElsewhereKept
CHECK_DEADLOCK FALSE
