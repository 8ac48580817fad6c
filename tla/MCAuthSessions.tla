--------------------------- MODULE MCAuthSessions ----------------------------
(* AuthSessions on small instances.                                        *)
EXTENDS AuthSessions, TLC

\* Accounts, sessions, challenges and requests are interchangeable.
Symmetry ==
  Permutations(Users) \cup Permutations(Tokens) \cup Permutations(Challenges)
  \cup Permutations(Requests)
=============================================================================
