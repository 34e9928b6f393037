------------------------------ MODULE TaskRouting ------------------------------
(***************************************************************************)
(* The way of a task to a protocol session, and of a key share to the      *)
(* session that needs it.                                                  *)
(*                                                                         *)
(* TaskDispatcher.dispatch asks the sessions canHandle in the order of     *)
(* their registration and gives the task to the first that accepts it.     *)
(* The sessions recognise a task by its operation and by the names of the  *)
(* key spec and of the protocol, which the server writes into the task     *)
(* itself, into its ServerData, or into both; ServerData is another in     *)
(* every round.  Each client wires a session to a name space of its        *)
(* storage, so a share is found again only by a session that reads the     *)
(* name space it was written to.                                           *)
(*                                                                         *)
(* The life of one key: its key generation, then any number of signatures  *)
(* (decryptions for RSA).                                                  *)
(***************************************************************************)
EXTENDS Naturals, Sequences

CONSTANTS
  Kinds,    \* the kinds of key that the run is about
  Rounds    \* bound: rounds of a task

RoutingAssumption ==
  /\ Kinds \subseteq {"secp256k1", "p256", "ed25519", "ed448", "decaf448", "bls48581",
                      "bls12381", "rsa", "rsa 2-of-2"}
  /\ Rounds \in Nat \ {0}

VARIABLES
  client,   \* which client polls: it fixes the order of registration
  kind,     \* the kind of the key
  task,     \* the task under way: its operation, round and own names
  ready,    \* server: the key generation has ended
  stored,   \* storage: the name spaces that hold a share of the key
  served,   \* the sessions that processed rounds of the key's tasks
  ignored,  \* a poll found nobody to take the task
  refused   \* the session that took the task threw

vars == <<client, kind, task, ready, stored, served, ignored, refused>>

Absent == "undefined"

-------------------------------------------------------------------------------
(* What the server writes (the service is not part of the repository).     *)

Spec4(k) ==
  CASE k = "secp256k1" -> {"ECC_SECG_P256K1"}
    [] k = "p256" -> {"ECC_NIST_P256"}
    [] k = "ed25519" -> {"ECC_ED25519", "EDDSA_ED25519"}
    [] k = "ed448" -> {"ECC_ED448", "EDDSA_ED448"}
    [] k = "decaf448" -> {"ECC_DECAF_448"}
    [] k = "bls48581" -> {"ECC_BLS48_581"}
    [] k = "bls12381" -> {"ECC_BLS12_381"}
    [] OTHER -> {"RSA_2048", "RSA_4096"}

Protocol4(k, op) ==
  CASE k \in {"secp256k1", "p256"} -> {"dkls23"}
    [] k \in {"ed25519", "ed448"} -> {"frost", "frost-n"}
    [] k = "decaf448" -> {"decaf448", "decaf448-n"}
    [] k = "bls48581" -> {"bls48581", "bls-n"}
    [] k = "bls12381" -> {"bls12381", "bls12381-n"}
    [] k = "rsa 2-of-2" /\ op = "createkey" -> {"rsa-2pc", "rsa-2of2"}
    [] OTHER -> {"rsa-n", "rsa-n-sign", "rsa-n-decrypt"}

(* It names the key by spec or protocol, in the task or in ServerData; only*)
(* secp256k1 may go without a name.                                        *)
Rsa == {"rsa", "rsa 2-of-2"}
Named(t) == t.spec # Absent \/ t.protocol # Absent
Announced(t, d) == Named(t) \/ Named(d) \/ kind = "secp256k1"

Operations(k) ==
  IF k \in Rsa THEN {"sign", "decrypt"} ELSE {"sign"}

Data == [spec : Spec4(kind) \cup {Absent}, protocol : Protocol4(kind, task.op) \cup {Absent}]

NoTask == [op |-> Absent]

-------------------------------------------------------------------------------
(* canHandle, session by session.  A session other than those of RSA takes *)
(* the names in ServerData for those the task lacks.                       *)

KeySpec(t, d) == IF t.spec # Absent THEN t.spec ELSE d.spec
Protocol(t, d) == IF t.protocol # Absent THEN t.protocol ELSE d.protocol

(* Mutant: the default takes every task without a key spec.                *)
DklsCanHandleUnspecified(t, d) ==
  \/ t.protocol \in {"dkls23", "dkls"} \/ d.protocol = "dkls23"
  \/ t.op \in {"createkey", "sign"} /\ KeySpec(t, d) \in {"ECC_SECG_P256K1", "ECC_NIST_P256", Absent}

(* DKLs23 is also the default for a task that has no name at all.          *)
DklsCanHandle(t, d) ==
  \/ t.protocol \in {"dkls23", "dkls"} \/ d.protocol = "dkls23"
  \/ /\ t.op \in {"createkey", "sign"}
     /\ \/ KeySpec(t, d) \in {"ECC_SECG_P256K1", "ECC_NIST_P256"}
        \/ KeySpec(t, d) = Absent /\ Protocol(t, d) = Absent

FrostCanHandle(t, d) ==
  \/ KeySpec(t, d) \in {"EDDSA_ED25519", "EDDSA_ED448", "ECC_ED25519", "ECC_ED448",
                        "Ed25519", "Ed448"}
  \/ Protocol(t, d) \in {"frost", "frost-n"}

DecafCanHandle(t, d) ==
  \/ KeySpec(t, d) \in {"ECC_DECAF_448", "ECC_DECAF448"}
  \/ Protocol(t, d) \in {"decaf448", "decaf448-n"}

BlsCanHandle(t, d) ==
  \/ KeySpec(t, d) \in {"ECC_BLS48_581", "ECC_BLS12_381"}
  \/ Protocol(t, d) \in {"bls48581", "bls48581-n", "bls-n", "bls12381", "bls12381-n"}

RsaCanHandle(t) ==
  \/ t.spec \in {"RSA_2048", "RSA_3072", "RSA_4096"}
  \/ t.protocol \in {"rsa-n", "rsa-n-sign", "rsa-n-decrypt"}

Rsa2pcCanHandle(t) == t.protocol \in {"rsa-2pc", "rsa-2of2", "rsa_2pc"}

CanHandle(s, t, d) ==
  CASE s = "dkls23" -> DklsCanHandle(t, d)
    [] s = "frost" -> FrostCanHandle(t, d)
    [] s = "decaf448" -> DecafCanHandle(t, d)
    [] s = "bls" -> BlsCanHandle(t, d)
    [] s = "rsa" -> RsaCanHandle(t)
    [] s = "rsa2pc" -> Rsa2pcCanHandle(t)

-------------------------------------------------------------------------------
(* The sessions of each client, in the order they are registered.          *)
Registered ==
  [vanilla |-> <<"dkls23", "frost", "decaf448", "bls", "rsa", "rsa2pc">>,
   node    |-> <<"dkls23", "frost", "decaf448", "bls", "rsa">>,
   react   |-> <<"frost", "decaf448", "bls", "rsa", "rsa2pc", "dkls23">>,
   worker  |-> <<"frost", "decaf448", "bls", "rsa", "rsa2pc", "dkls23">>]

Takers(t, d) == {i \in DOMAIN Registered[client] : CanHandle(Registered[client][i], t, d)}
Taker(t, d) ==
  Registered[client][CHOOSE i \in Takers(t, d) : \A j \in Takers(t, d) : i <= j]

(* BLSSession serves two curves, by different code.                        *)
OnBls12381(t, d) ==
  KeySpec(t, d) = "ECC_BLS12_381" \/ Protocol(t, d) \in {"bls12381", "bls12381-n"}
Path(s, t, d) == IF s = "bls" /\ OnBls12381(t, d) THEN "bls12381" ELSE s

(* process: the operations a session knows.                                *)
Supports(s, op) ==
  \/ op = "createkey"
  \/ op = "sign" /\ s # "rsa2pc"
  \/ op = "decrypt" /\ s = "rsa"

(* loadKeyShare and onKeyShareReady of each session, as every client wires *)
(* them; RSA2PCSession has no loadKeyShare.                                *)
ReadFrom(s) ==
  CASE s = "dkls23" -> "keyshare/"
    [] s = "frost" -> "frost-keyshare/"
    [] s = "decaf448" -> "decaf448-keyshare/"
    [] s = "bls" -> "bls-keyshare/"
    [] s = "rsa" -> "rsa-keyshare/"

(* Mutant: a callback that was copied and not adapted.                     *)
WrittenToCopied(s) ==
  CASE s = "bls" -> "decaf448-keyshare/"
    [] s = "rsa2pc" -> "rsa2pc-keyshare/"
    [] OTHER -> ReadFrom(s)

WrittenTo(s) == IF s = "rsa2pc" THEN "rsa2pc-keyshare/" ELSE ReadFrom(s)

-------------------------------------------------------------------------------
Init ==
  /\ client \in DOMAIN Registered
  /\ kind \in Kinds
  /\ task = NoTask
  /\ ready = FALSE
  /\ stored = {}
  /\ served = {}
  /\ ignored = FALSE
  /\ refused = FALSE

(* The application asks for a key, then for uses of it.                    *)
Request(op, spec, protocol) ==
  /\ task = NoTask
  /\ op \in IF ready THEN Operations(kind) ELSE {"createkey"}
  /\ task' = [op |-> op, spec |-> spec, protocol |-> protocol, round |-> 0]
  /\ UNCHANGED <<client, kind, ready, stored, served, ignored, refused>>

(* dispatch returns false: the round is not cached and polled again.       *)
Ignore(d) ==
  /\ Takers(task, d) = {}
  /\ ignored' = TRUE
  /\ UNCHANGED <<client, kind, task, ready, stored, served, refused>>

(* process throws: the operation is unknown, or there is no share to use.  *)
Usable(s) == Supports(s, task.op) /\ (task.op # "createkey" => ReadFrom(s) \in stored)
Refuse(d) ==
  /\ Takers(task, d) # {}
  /\ ~Usable(Taker(task, d))
  /\ refused' = TRUE
  /\ UNCHANGED <<client, kind, task, ready, stored, served, ignored>>

(* A round is processed and the server moves on; the last round of a key   *)
(* generation has awaited onKeyShareReady.                                 *)
Process(d) ==
  /\ Takers(task, d) # {}
  /\ LET s == Taker(task, d)
         last == task.round + 1 = Rounds
     IN /\ Usable(s)
        /\ served' = served \cup {Path(s, task, d)}
        /\ task' = IF last THEN NoTask ELSE [task EXCEPT !.round = @ + 1]
        /\ ready' = (ready \/ last)
        /\ stored' = IF last /\ task.op = "createkey" THEN stored \cup {WrittenTo(s)}
                     ELSE stored
  /\ UNCHANGED <<client, kind, ignored, refused>>

Poll ==
  /\ task # NoTask
  /\ \E d \in Data :
       /\ Announced(task, d)
       /\ Ignore(d) \/ Refuse(d) \/ Process(d)

Next ==
  \/ \E op \in {"createkey", "sign", "decrypt"} :
       \E spec \in Spec4(kind) \cup {Absent}, protocol \in Protocol4(kind, op) \cup {Absent} :
         Request(op, spec, protocol)
  \/ Poll

Spec == Init /\ [][Next]_vars

-------------------------------------------------------------------------------
Tasks == [op : {"createkey", "sign", "decrypt"}, round : 0 .. Rounds - 1,
          spec : STRING, protocol : STRING]

(* Every variable has its type.                                            *)
TypeOK ==
  /\ client \in DOMAIN Registered
  /\ kind \in Kinds
  /\ task \in Tasks \cup {NoTask}
  /\ ready \in BOOLEAN
  /\ stored \subseteq {WrittenTo(s) : s \in {"dkls23", "frost", "decaf448", "bls", "rsa", "rsa2pc"}}
  /\ served \subseteq {"dkls23", "frost", "decaf448", "bls", "bls12381", "rsa", "rsa2pc"}
  /\ {ignored, refused} \subseteq BOOLEAN

(* The session that speaks the key's protocol.                             *)
Own(k) ==
  CASE k \in {"secp256k1", "p256"} -> "dkls23"
    [] k \in {"ed25519", "ed448"} -> "frost"
    [] k = "decaf448" -> "decaf448"
    [] k = "bls48581" -> "bls"
    [] k = "bls12381" -> "bls12381"
    [] k = "rsa" -> "rsa"
    [] k = "rsa 2-of-2" -> "rsa2pc"

(* Every round of every task of a key is served by the one session made    *)
(* for it, whatever was registered before that one, and whether the server *)
(* names the key's spec, its protocol or both, in the task or only in the  *)
(* ServerData of the round.  For 2-of-2 RSA only the operations on the key *)
(* are RSASession's by design; a generation with a KeySpec goes there too. *)
OwnSessionServes ==
  served \subseteq IF kind = "rsa 2-of-2" THEN {"rsa", "rsa2pc"} ELSE {Own(kind)}

(* A task that no session takes is an RSA task: one whose names are only   *)
(* in ServerData, where the RSA sessions do not look, or a 2-of-2 key      *)
(* generation in the Node client, which registers no session for it.       *)
OnlyRsaIgnored ==
  ignored => \/ kind \in Rsa /\ ~Named(task)
             \/ kind = "rsa 2-of-2" /\ client = "node" /\ task.spec = Absent

(* The two together: no task goes astray.                                  *)
TasksReachTheirSession == OwnSessionServes /\ OnlyRsaIgnored

(* A session asked to use a finished key knows the operation and finds the *)
(* share where the session that made the key has put it, 2-of-2 RSA apart. *)
ShareIsFound == refused => kind = "rsa 2-of-2"

(* The same for 2-of-2 RSA: "Sign/decrypt after DKG uses the RSA-N Shoup   *)
(* threshold path (RSASession) since the additive d-shares from 2PC are    *)
(* directly usable by Shoup" (rsa2pc.ts:8-9).                              *)
RsaSharesAreFound == ~refused

===============================================================================
