------------------------------- MODULE MCClients -------------------------------
(***************************************************************************)
(* What the clients do around a key, for TLC: the way of its tasks to a    *)
(* session (TaskRouting), the wallets that are made of it (Wallets), and   *)
(* the transactions signed with it (EthereumSends).  The three share no    *)
(* variable, and every property reads those of one of them only; so it is  *)
(* enough that a behaviour is one of the three, and their steps are not    *)
(* interleaved.                                                            *)
(***************************************************************************)
EXTENDS EthereumSends, TLC

CONSTANTS
  p1, p2,         \* the payments
  Kinds, Rounds,  \* of TaskRouting
  Keys, WalletEntries, Users, Forms  \* of Wallets

VARIABLES
  part,  \* the one that takes its steps
  client, kind, task, ready, stored, served, ignored, refused,
  call, key, told

Routing == INSTANCE TaskRouting
Wallet == INSTANCE Wallets WITH Entries <- WalletEntries

ASSUME InstanceAssumption == Routing!RoutingAssumption /\ Wallet!WalletsAssumption

routingVars == <<client, kind, task, ready, stored, served, ignored, refused>>
walletVars == <<call, key, told>>

(* The parts at rest have one initial state each.                          *)
PartInit ==
  /\ part \in {"sends", "routing", "wallets"}
  /\ IF part = "routing" THEN TRUE
     ELSE client = "node" /\ kind = CHOOSE k \in Kinds : TRUE
  /\ IF part = "sends" THEN TRUE
     ELSE rpc = TRUE /\ req = [p \in Payments |-> CHOOSE r \in Requests : r.op = "send"]
  /\ Init /\ Routing!Init /\ Wallet!Init

PartNext ==
  \/ part = "sends" /\ Next /\ UNCHANGED <<part, routingVars, walletVars>>
  \/ part = "routing" /\ Routing!Next /\ UNCHANGED <<part, vars, walletVars>>
  \/ part = "wallets" /\ Wallet!Next /\ UNCHANGED <<part, vars, routingVars>>

PartSpec == PartInit /\ [][PartNext]_<<part, vars, routingVars, walletVars>>

(* Those of TaskRouting and Wallets, where they are explained.             *)
TasksReachTheirSession == Routing!TasksReachTheirSession
ShareIsFound == Routing!ShareIsFound
OneWallet == Wallet!OneWallet
NoWalletLeftOut == Wallet!NoWalletLeftOut

\* Payments differ by their requests only, which Init chooses freely.
PaymentSymmetry == Permutations({p1, p2})

===============================================================================
