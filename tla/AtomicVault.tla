----------------------------- MODULE AtomicVault -----------------------------
(***************************************************************************)
(* What the program promises to its user: a vault that one master password *)
(* opens.  Changing the password is one step and loses no entry; entries   *)
(* come and go only by being added and deleted.                            *)
(***************************************************************************)
CONSTANTS Passwords, Ids, NoPassword

VARIABLES
  password, \* the password that opens the vault
  readable  \* the entries it opens

vars == <<password, readable>>

TypeOK ==
  /\ password \in Passwords \cup {NoPassword}
  /\ readable \subseteq Ids

Init ==
  /\ password = NoPassword
  /\ readable = {}

\* The first-run wizard sets the first password.
Setup(pw) ==
  /\ password = NoPassword
  /\ password' = pw
  /\ UNCHANGED readable

ChangePassword(pw) ==
  /\ password # NoPassword
  /\ password' = pw
  /\ UNCHANGED readable

Add(i) ==
  /\ password # NoPassword
  /\ readable' = readable \cup {i}
  /\ UNCHANGED password

Delete(i) ==
  /\ password # NoPassword
  /\ readable' = readable \ {i}
  /\ UNCHANGED password

Next ==
  \/ \E pw \in Passwords : Setup(pw) \/ ChangePassword(pw)
  \/ \E i \in Ids : Add(i) \/ Delete(i)

Spec == Init /\ [][Next]_vars
=============================================================================
