----------------------------- MODULE MCAccessClaims -----------------------------
(* AccessClaims on a small instance, a few kinds of operation at a time.   *)
EXTENDS AccessClaims

MCWorkloads ==
  {{"boot", "register", "oauth", "promote", "stop"},
   {"promote", "login", "assign", "remove", "admin"},
   {"alone", "promote", "login", "assign", "remove", "admin", "user"},
   {"alone", "promote", "login", "key", "remove", "admin"},
   {"alone", "promote", "login", "adminCreate", "stop"},
   {"promote", "login", "assign", "delete", "admin"},
   {"alone", "org", "login", "switch"}}
=============================================================================
