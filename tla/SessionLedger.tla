---------------------------- MODULE SessionLedger ----------------------------
(***************************************************************************)
(* What Griffon promises about sessions, with no mention of how requests   *)
(* interleave: a session is issued once to one account, stays that         *)
(* account's, and once ended it never lives again.  One step issues one    *)
(* session, or ends some live sessions of one account.  AuthSessions       *)
(* implements this ledger with a refresh_tokens table.                     *)
(***************************************************************************)
CONSTANTS
  Users,     \* the accounts
  Tokens,    \* the sessions that may ever be issued
  None       \* the owner of a session not issued yet

VARIABLES
  status,    \* status[t]: "absent", then "live", then "ended"
  owner      \* owner[t]: the account session t was issued to

ledger == <<status, owner>>

Init ==
  /\ status = [t \in Tokens |-> "absent"]
  /\ owner = [t \in Tokens |-> None]

Issue(t, u) ==
  /\ status[t] = "absent"
  /\ status' = [status EXCEPT ![t] = "live"]
  /\ owner' = [owner EXCEPT ![t] = u]

\* Ending sessions touches one account only.
End(S, u) ==
  /\ \A t \in S : status[t] = "live" /\ owner[t] = u
  /\ status' = [t \in Tokens |-> IF t \in S THEN "ended" ELSE status[t]]
  /\ UNCHANGED owner

Next ==
  \/ \E t \in Tokens, u \in Users : Issue(t, u)
  \/ \E S \in SUBSET Tokens, u \in Users : End(S, u)

Spec == Init /\ [][Next]_ledger
=============================================================================
