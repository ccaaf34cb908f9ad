----------------------------- MODULE RootMutex ------------------------------
(***************************************************************************)
(* What RootLock promises: ROOT belongs to the main thread, and is lent to *)
(* one server thread at a time.  A server thread gets it only after it     *)
(* asked for it, and gives it back to the main thread.                     *)
(***************************************************************************)
CONSTANT Servers    \* the server threads

VARIABLES borrower, \* the set of server threads that may use ROOT
          asking    \* the server threads that asked for it

vars == <<borrower, asking>>

Init == borrower = {} /\ asking = {}

Ask(t) ==
  /\ t \notin borrower /\ t \notin asking
  /\ asking' = asking \cup {t}
  /\ UNCHANGED borrower

Lend(t) ==
  /\ borrower = {} /\ t \in asking
  /\ borrower' = {t}
  /\ asking' = asking \ {t}

GiveBack(t) ==
  /\ borrower = {t}
  /\ borrower' = {}
  /\ UNCHANGED asking

Next == \E t \in Servers : Ask(t) \/ Lend(t) \/ GiveBack(t)

Spec == Init /\ [][Next]_vars
=============================================================================
