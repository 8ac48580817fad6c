--------------------------- MODULE MCOrgMembership ---------------------------
(* OrgMembership on small instances.                                       *)
EXTENDS OrgMembership, TLC

\* Who owns the organization; what requests that stop leave behind; and what
\* becomes of an invitation and of the active organization.
MCWorkloads ==
  {{"create", "role", "remove", "transfer", "invite", "accept"},
   {"create", "role", "remove", "invite", "accept", "abort"},
   {"create", "remove", "invite", "accept", "revoke", "lapse",
    "switch", "delete"}}

\* Two owners at most, who leave or hand over.
MCLeaving == {{"create", "remove", "transfer", "invite", "accept"}}

\* Accounts, invitations and requests are interchangeable.
Symmetry ==
  Permutations(Users) \cup Permutations(Invitations)
  \cup Permutations(Requests)
=============================================================================
