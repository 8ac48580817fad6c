------------------------------ MODULE MCSdkClient ------------------------------
(* SdkClient on small instances.  No symmetry: liveness is checked.        *)
EXTENDS SdkClient

\* What happens in a behaviour is one of these.
MCWorkloads ==
  { {"oauth", "getMe", "logout"},
    {"oauth", "getMe", "lose"},
    {"oauth", "refresh"},
    {"oauth", "getMe", "fail"},
    {"oauth", "getMe", "end"},
    {"login", "verifyEmail", "mfa", "logout"} }

\* For liveness: the calls that can wait for another's refresh.
MCWaiting ==
  { {"oauth", "getMe", "lose"},
    {"oauth", "getMe", "fail"} }
=============================================================================
