------------------------------- MODULE MCApiKeys -------------------------------
(* ApiKeys on small instances.  No symmetry: liveness is checked.          *)
EXTENDS ApiKeys

\* A behaviour has the operations of one of these.
MCWorkloads ==
  { {"setup", "verify", "regenerate", "login", "stop"},
    {"setup", "verify", "disable", "admin", "login"},
    {"create", "revoke", "adminRevoke", "use", "expire", "stop"},
    {"setup", "verify", "create", "revoke"} }
=============================================================================
