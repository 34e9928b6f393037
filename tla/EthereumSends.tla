----------------------------- MODULE EthereumSends -----------------------------
(***************************************************************************)
(* Ethereum transactions and messages signed with a threshold key.         *)
(*                                                                         *)
(* A wallet signs through EthereumProvider, which an application uses      *)
(* either directly ("provider": wagmi, ethers) or below the wallets        *)
(* resource of the Node client ("node").  The Node client fills in what    *)
(* the request leaves open from the upstream RPC; the provider signs what  *)
(* it is given.  Requests of different payments interleave at every call.  *)
(*                                                                         *)
(* A payment is one intention of the application, with one request.  It is *)
(* attempted again when an attempt has thrown.  The account has one nonce  *)
(* per transaction: the network keeps one transaction for each nonce, of   *)
(* which those below `mined' are final.                                    *)
(*                                                                         *)
(* A client that does not start, or a wallet that is not found, ends an    *)
(* attempt as a failed call does.  A request that asks for EIP-1559 by its *)
(* type alone is left out, and so is the arithmetic that recovers the      *)
(* sender from a signature.                                                *)
(***************************************************************************)
EXTENDS Naturals

CONSTANTS
  None,         \* undefined
  Payments,     \* the intentions of the application
  Entries,      \* how it calls: a subset of {"node", "provider"}
  Nonces,       \* the nonces that a request may name
  FeeFields,    \* the sets of fee fields that a request may have
  MaxNonce,     \* bound: the last nonce that the network is asked about
  Attempts,     \* bound: attempts of a payment
  MaxFaults     \* bound: calls that fail

ASSUME SendsAssumption ==
  /\ Entries \subseteq {"node", "provider"}
  /\ Nonces \subseteq Nat
  /\ None \notin Nat
  /\ FeeFields \subseteq SUBSET {"gasPrice", "maxFeePerGas", "maxPriorityFeePerGas"}
  /\ MaxNonce \in Nat
  /\ Attempts \in Nat \ {0}
  /\ MaxFaults \in Nat

VARIABLES
  rpc,      \* an upstream RPC is configured
  req,      \* the request of each payment
  att,      \* the current attempt of each payment
  pool,     \* network: the attempt whose transaction has the nonce
  mined,    \* network: the nonces below are final
  unsure,   \* history: attempts that threw, although the network had accepted
  faults    \* calls that have failed

vars == <<rpc, req, att, pool, mined, unsure, faults>>

Operations == {"send", "sign", "message"}

Requests ==
  [via : Entries, op : Operations, nonce : Nonces \cup {None}, fees : FeeFields]

\* What QKMS answers to Sign: the encoding, and whether the first byte is 0x30,
\* as it always is in DER.
Signatures ==
  {s \in [form : {"der", "64 bytes", "65 bytes"}, lead30 : BOOLEAN] : s.form = "der" => s.lead30}

Idle == [n |-> 0, pc |-> "idle", nonce |-> None, fees |-> {}, taken |-> {}]

Init ==
  /\ rpc \in BOOLEAN
  /\ req \in {r \in [Payments -> Requests] :
                \A p \in Payments : r[p].op = "message" => r[p].via = "provider"}
  /\ att = [p \in Payments |-> Idle]
  /\ pool = [k \in {} |-> Idle]
  /\ mined = 0
  /\ unsure = {}
  /\ faults = 0

-------------------------------------------------------------------------------
(* The application.                                                        *)

\* Without an RPC the Node client refuses to send and fills in nothing.
FirstStage(r) ==
  CASE r.via = "provider" -> "sign"
    [] r.via = "node" /\ rpc -> "nonce"
    [] r.via = "node" /\ ~rpc /\ r.op = "sign" -> "sign"
    [] OTHER -> "threw"

(* The first attempt, or another one after an error.                       *)
Begin(p) ==
  /\ att[p].pc \in {"idle", "threw"}
  /\ att[p].n < Attempts
  /\ att' = [att EXCEPT ![p] =
       [n |-> att[p].n + 1, pc |-> FirstStage(req[p]),
        nonce |-> req[p].nonce, fees |-> req[p].fees, taken |-> DOMAIN pool]]
  /\ UNCHANGED <<rpc, req, pool, mined, unsure, faults>>

(* A call of the attempt rejects before it had an effect: it throws.       *)
CallFails(p) ==
  /\ att[p].pc \in {"nonce", "sign", "broadcast"}
  /\ faults < MaxFaults
  /\ faults' = faults + 1
  /\ att' = [att EXCEPT ![p].pc = "threw"]
  /\ UNCHANGED <<rpc, req, pool, mined, unsure>>

-------------------------------------------------------------------------------
(* populateTransaction.                                                    *)

\* eth_getTransactionCount(address, "pending"): the first nonce that is free.
IsPendingCount(n) ==
  /\ n \notin DOMAIN pool
  /\ \A k \in 0 .. (n - 1) : k \in DOMAIN pool

\* Mutant: the count of the latest block, which leaves out what is pending.
IsLatestCount(n) == n = mined

\* Mutant: the client adds one to the count.
IsCountPlusOne(n) == \E k \in 0 .. n : k + 1 = n /\ IsPendingCount(k)

IsTransactionCount(n) == IsPendingCount(n)

\* Mutant: the nonce of the request is not looked at.
FillNonceAlways(p, n) == IsTransactionCount(n)

FillNonce(p, n) ==
  IF att[p].nonce = None THEN IsTransactionCount(n) ELSE n = att[p].nonce

ReadNonce(p) ==
  /\ att[p].pc = "nonce"
  /\ \E n \in Nonces \cup (0 .. MaxNonce) :
       /\ FillNonce(p, n)
       /\ att' = [att EXCEPT ![p] = [@ EXCEPT !.nonce = n, !.pc = "fees"]]
  /\ UNCHANGED <<rpc, req, pool, mined, unsure, faults>>

\* A gas price is asked for if the request has neither it nor a fee cap.
NeedsPrice(fees) == fees \cap {"gasPrice", "maxFeePerGas"} = {}

(* eth_estimateGas and eth_gasPrice.  Both are in a try: if the estimate   *)
(* fails a constant is taken, if the price fails it stays open.            *)
ReadFees(p) ==
  /\ att[p].pc = "fees"
  /\ LET price == IF NeedsPrice(att[p].fees) THEN {"gasPrice"} ELSE {}
     IN att' = [att EXCEPT ![p] = [@ EXCEPT !.fees = att[p].fees \cup price, !.pc = "sign"]]
  /\ UNCHANGED <<rpc, req, pool, mined, unsure, faults>>

PriceFails(p) ==
  /\ att[p].pc = "fees"
  /\ NeedsPrice(att[p].fees)
  /\ faults < MaxFaults
  /\ faults' = faults + 1
  /\ att' = [att EXCEPT ![p].pc = "sign"]
  /\ UNCHANGED <<rpc, req, pool, mined, unsure>>

-------------------------------------------------------------------------------
(* EthereumProvider.                                                       *)

\* buildTransactionSerializable: a fee cap or a tip makes it EIP-1559, where
\* a gas price has no place; a missing nonce is zero.
Fee1559 == {"maxFeePerGas", "maxPriorityFeePerGas"}

TxFees(fees) == IF fees \cap Fee1559 # {} THEN fees \cap Fee1559 ELSE fees \cap {"gasPrice"}
TxNonce(nonce) == IF nonce = None THEN 0 ELSE nonce

\* signTransaction knows no DER.  signDigestWithRecovery takes more than 64
\* bytes that begin with 0x30 for DER, and fails to parse them if they are not.
Understood(op, sig) ==
  IF op = "message" THEN ~(sig.form = "65 bytes" /\ sig.lead30)
  ELSE sig.form # "der"

(* rawSignDigest, and what is made of its answer.  A message is done with  *)
(* its 65 bytes, a transaction that is not sent with its serialization.    *)
Sign(p) ==
  /\ att[p].pc = "sign"
  /\ \E sig \in Signatures :
       att' = [att EXCEPT ![p] =
         [@ EXCEPT !.pc = IF ~Understood(req[p].op, sig) THEN "threw"
                          ELSE IF req[p].op # "send" THEN "done"
                          ELSE IF rpc THEN "broadcast" ELSE "threw"]]
  /\ UNCHANGED <<rpc, req, pool, mined, unsure, faults>>

\* The network takes one transaction for a nonce; another one replaces it, if
\* the network deems it better paid, until it is final.
Attempt(p) == <<p, att[p].n>>
Acceptable(p) == TxNonce(att[p].nonce) >= mined

Accept(p) ==
  LET k == TxNonce(att[p].nonce)
  IN pool' = [j \in DOMAIN pool \cup {k} |-> IF j = k THEN Attempt(p) ELSE pool[j]]

(* eth_sendRawTransaction: the hash is the result.                         *)
Broadcast(p) ==
  /\ att[p].pc = "broadcast"
  /\ Acceptable(p)
  /\ Accept(p)
  /\ att' = [att EXCEPT ![p].pc = "done"]
  /\ UNCHANGED <<rpc, req, mined, unsure, faults>>

(* The network accepts, but the answer is lost: the attempt throws.        *)
AnswerLost(p) ==
  /\ att[p].pc = "broadcast"
  /\ faults < MaxFaults
  /\ faults' = faults + 1
  /\ Acceptable(p)
  /\ Accept(p)
  /\ unsure' = unsure \cup {Attempt(p)}
  /\ att' = [att EXCEPT ![p].pc = "threw"]
  /\ UNCHANGED <<rpc, req, mined>>

(* The nonce is used up, or its transaction is not outbid.                 *)
Rejected(p) ==
  /\ att[p].pc = "broadcast"
  /\ TxNonce(att[p].nonce) < mined \/ TxNonce(att[p].nonce) \in DOMAIN pool
  /\ att' = [att EXCEPT ![p].pc = "threw"]
  /\ UNCHANGED <<rpc, req, pool, mined, unsure, faults>>

(* The next transaction becomes final.                                     *)
Mine ==
  /\ mined \in DOMAIN pool
  /\ mined' = mined + 1
  /\ UNCHANGED <<rpc, req, att, pool, unsure, faults>>

Next ==
  \/ \E p \in Payments :
       \/ Begin(p) \/ CallFails(p)
       \/ ReadNonce(p) \/ ReadFees(p) \/ PriceFails(p)
       \/ Sign(p) \/ Broadcast(p) \/ AnswerLost(p) \/ Rejected(p)
  \/ Mine

Spec == Init /\ [][Next]_vars

-------------------------------------------------------------------------------
Stages == {"idle", "nonce", "fees", "sign", "broadcast", "done", "threw"}

AttemptRecords ==
  [n : 0 .. Attempts, pc : Stages, nonce : Nat \cup {None},
   fees : SUBSET {"gasPrice", "maxFeePerGas", "maxPriorityFeePerGas"}, taken : SUBSET Nat]

(* Every variable has its type.                                            *)
TypeOK ==
  /\ rpc \in BOOLEAN
  /\ req \in [Payments -> Requests]
  /\ att \in [Payments -> AttemptRecords]
  /\ \A p \in Payments : att[p].n = 0 => att[p].pc = "idle"
  /\ DOMAIN pool \subseteq Nat
  /\ \A k \in DOMAIN pool : pool[k] \in Payments \X (1 .. Attempts)
  /\ mined \in Nat
  /\ unsure \subseteq Payments \X (1 .. Attempts)
  /\ faults \in 0 .. MaxFaults

(* The nonce of a payment is left to populateTransaction.                  *)
Open(p) == req[p].nonce = None /\ req[p].via = "node"

(* A transaction that the Node client has given a nonce never takes the    *)
(* place of one that the network had accepted when the attempt began: a    *)
(* caller that awaits one sendTransaction before the next loses none,      *)
(* whatever failed, was retried or was sent by others in between.          *)
AwaitedSendsStand ==
  [][\A p \in Payments, k \in DOMAIN pool :
       /\ pool[k] # Attempt(p)
       /\ pool'[k] = Attempt(p)
       /\ Open(p)
       => k \notin att[p].taken]_vars

(* If nobody names a nonce, no transaction waits behind a nonce that no    *)
(* transaction has: an attempt that fails leaves its nonce to the next.    *)
NoGap ==
  (\A p \in Payments : req[p].nonce = None)
    => \A k \in DOMAIN pool : \A j \in 0 .. (k - 1) : j \in DOMAIN pool

(* A payment is paid twice only if its request left the nonce to the Node  *)
(* client and the answer to an earlier broadcast of it was lost: a retry   *)
(* that names its nonce pays once.                                         *)
PaidOnce ==
  \A j, k \in DOMAIN pool :
    j # k /\ pool[j][1] = pool[k][1]
      => Open(pool[j][1]) /\ {pool[j], pool[k]} \cap unsure # {}

(* "If nonce/gas/fees aren't provided, fetch sensible defaults from the    *)
(* RPC" (wallets.ts:251): a price that was fetched is in the transaction.  *)
(* Refuted by a request with a tip and no fee cap.                         *)
FetchedPricesStand ==
  \A p \in Payments :
    att[p].pc = "done" /\ "gasPrice" \in att[p].fees \ req[p].fees
      => "gasPrice" \in TxFees(att[p].fees)

(* "QKMS sometimes returns the raw 64-byte (r || s) form (the dkls23       *)
(* native shape) and sometimes the full 65-byte form.  We tolerate both"   *)
(* (evm-provider.ts:334-335): a message is refused only when a call fails. *)
BothFormsTolerated ==
  \A p \in Payments : req[p].op = "message" /\ faults = 0 => att[p].pc # "threw"

===============================================================================
