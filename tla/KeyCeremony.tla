------------------------------ MODULE KeyCeremony -----------------------------
(***************************************************************************)
(* What distributed key generation promises the application, whatever the  *)
(* rounds, retries and restarts behind it: nobody holds a key share before *)
(* every party has put randomness into the key, a share once held is never *)
(* dropped, and the ceremony is declared over only when everybody holds    *)
(* one.                                                                    *)
(***************************************************************************)
CONSTANT Party

VARIABLES
  bound,     \* the parties that have drawn their secret polynomial
  holders,   \* the parties whose key share is in storage
  over       \* the wallet's key is reported as created

ceremonyVars == <<bound, holders, over>>

CeremonyInit ==
  /\ bound = {}
  /\ holders = {}
  /\ over = FALSE

Bind(p) ==
  /\ p \notin bound
  /\ bound' = bound \cup {p}
  /\ UNCHANGED <<holders, over>>

Hold(p) ==
  /\ bound = Party
  /\ p \notin holders
  /\ holders' = holders \cup {p}
  /\ UNCHANGED <<bound, over>>

Conclude ==
  /\ holders = Party
  /\ over' = TRUE
  /\ UNCHANGED <<bound, holders>>

CeremonyNext == (\E p \in Party : Bind(p) \/ Hold(p)) \/ Conclude

CeremonySpec == CeremonyInit /\ [][CeremonyNext]_ceremonyVars

===============================================================================
