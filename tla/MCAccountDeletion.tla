--------------------------- MODULE MCAccountDeletion ---------------------------
(* AccountDeletion on small instances.  No symmetry: liveness is checked.  *)
EXTENDS AccountDeletion

\* A behaviour has the operations of one of these, so that every pair of
\* operations that touch the same rows meets in some behaviour.
MCWorkloads ==
  { {"register", "rename", "verify", "expire", "force"},
    {"forgot", "reset", "login", "refresh", "stop"},
    {"forgot", "reset", "login", "refresh", "force"},
    {"oauth", "rename"},
    {"oauth", "expire", "force"},
    {"delete", "cancel", "force", "stop"} }
=============================================================================
