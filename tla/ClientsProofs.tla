-------------------------- MODULE ClientsProofs --------------------------
(***************************************************************************)
(* Proofs about what the clients do around a key: EthereumSends, for any   *)
(* payments, requests, failures and interleaving; TaskRouting, for any     *)
(* kinds of keys and number of rounds; Wallets, for any number of keys and *)
(* users.                                                                  *)
(*                                                                         *)
(* The arguments.  A nonce that the Node client filled in was free when it *)
(* was read, later than the attempt began, and everything below it was in  *)
(* use; both stay true of what they speak of, because the network only     *)
(* ever takes more nonces.  An attempt is accepted at most once, and one   *)
(* that was accepted can be followed by another only if it threw.          *)
(*                                                                         *)
(* However the server names a task, one of the sessions takes it, and no   *)
(* order of registration gives it to another; so every poll that serves a  *)
(* task serves it with the session whose name space has the key's share.   *)
(*                                                                         *)
(* What a wallet's key was asked for says the chain of the call, by its    *)
(* spec and by its tags, and every form that the server may write a key of *)
(* that curve in has an address; so all that is told of a key is a         *)
(* function of the call alone.                                             *)
(***************************************************************************)
EXTENDS MCClients, TLAPS

(* Where an attempt starts.                                                *)
LEMMA FirstStageType ==
  ASSUME NEW r \in Requests
  PROVE  /\ FirstStage(r) \in {"sign", "nonce", "threw"}
         /\ FirstStage(r) = "nonce" => r.via = "node" /\ rpc
         /\ FirstStage(r) = "sign" => r.via = "provider" \/ (~rpc /\ r.op = "sign")
  BY DEF FirstStage, Requests

(* The changes that the actions make to an attempt keep its type.          *)
LEMMA AttemptTypes ==
  ASSUME NEW a \in AttemptRecords, a.n # 0
  PROVE  /\ \A c \in Stages : [a EXCEPT !.pc = c] \in AttemptRecords
         /\ \A n \in Nat, c \in Stages : [a EXCEPT !.nonce = n, !.pc = c] \in AttemptRecords
         /\ \A f \in SUBSET {"gasPrice", "maxFeePerGas", "maxPriorityFeePerGas"}, c \in Stages :
              [a EXCEPT !.fees = f, !.pc = c] \in AttemptRecords
<1>1. \A c \in Stages : [a EXCEPT !.pc = c] \in AttemptRecords
  BY DEF AttemptRecords
<1>2. \A n \in Nat, c \in Stages : [a EXCEPT !.nonce = n, !.pc = c] \in AttemptRecords
  BY DEF AttemptRecords
<1>3. \A f \in SUBSET {"gasPrice", "maxFeePerGas", "maxPriorityFeePerGas"}, c \in Stages :
        [a EXCEPT !.fees = f, !.pc = c] \in AttemptRecords
  BY DEF AttemptRecords
<1> QED
  BY <1>1, <1>2, <1>3

(* What a step of payment p makes of its attempt.                          *)
Moved(p, a) == att' = [att EXCEPT ![p] = a]

LEMMA Moves ==
  ASSUME TypeOK, NEW p \in Payments
  PROVE  /\ CallFails(p) => Moved(p, [att[p] EXCEPT !.pc = "threw"])
         /\ PriceFails(p) => Moved(p, [att[p] EXCEPT !.pc = "sign"])
         /\ Broadcast(p) => Moved(p, [att[p] EXCEPT !.pc = "done"])
         /\ AnswerLost(p) => Moved(p, [att[p] EXCEPT !.pc = "threw"])
         /\ Rejected(p) => Moved(p, [att[p] EXCEPT !.pc = "threw"])
  BY DEF TypeOK, Moved, CallFails, PriceFails, Broadcast, AnswerLost, Rejected

LEMMA SignMoves ==
  ASSUME TypeOK, NEW p \in Payments, Sign(p)
  PROVE  \E c \in {"done", "broadcast", "threw"} :
           /\ c = "broadcast" => rpc /\ req[p].op = "send"
           /\ Moved(p, [att[p] EXCEPT !.pc = c])
<1>1. PICK s \in Signatures : Moved(p,
         [att[p] EXCEPT !.pc = IF ~Understood(req[p].op, s) THEN "threw"
                               ELSE IF req[p].op # "send" THEN "done"
                               ELSE IF rpc THEN "broadcast" ELSE "threw"])
  BY DEF Sign, Moved, TypeOK
<1> DEFINE c == IF ~Understood(req[p].op, s) THEN "threw"
                ELSE IF req[p].op # "send" THEN "done"
                ELSE IF rpc THEN "broadcast" ELSE "threw"
<1>2. c \in {"done", "broadcast", "threw"} /\ (c = "broadcast" => rpc /\ req[p].op = "send")
  OBVIOUS
<1>3. Moved(p, [att[p] EXCEPT !.pc = c])
  BY <1>1
<1> HIDE DEF c
<1> QED
  BY <1>2, <1>3

LEMMA MovedTypes ==
  ASSUME TypeOK, NEW p \in Payments, NEW a \in AttemptRecords, a.n # 0, Moved(p, a)
  PROVE  /\ att' \in [Payments -> AttemptRecords]
         /\ \A q \in Payments : att'[q].n = 0 => att'[q].pc = "idle"
         /\ att'[p] = a
         /\ \A q \in Payments : q # p => att'[q] = att[q]
  BY DEF TypeOK, Moved

(* The type invariant is inductive.                                        *)
LEMMA TypeStep == TypeOK /\ [Next]_vars => TypeOK'
<1> SUFFICES ASSUME TypeOK, [Next]_vars PROVE TypeOK'
  OBVIOUS
<1>a. ASSUME NEW p \in Payments PROVE att[p] \in AttemptRecords /\ req[p] \in Requests
  BY DEF TypeOK
<1>b. ASSUME NEW p \in Payments, att[p].pc # "idle" PROVE att[p].n # 0
  BY <1>b DEF TypeOK
<1>1. ASSUME NEW p \in Payments, Begin(p) PROVE TypeOK'
  <2>1. att[p] \in AttemptRecords /\ req[p] \in Requests
    BY <1>a
  <2>2. FirstStage(req[p]) \in Stages
    BY <2>1, FirstStageType DEF Stages
  <2>3. att[p].n + 1 \in 0 .. Attempts /\ att[p].n + 1 # 0
    BY <1>1, <2>1, SendsAssumption DEF Begin, AttemptRecords
  <2>4. /\ req[p].nonce \in Nat \cup {None}
        /\ req[p].fees \in SUBSET {"gasPrice", "maxFeePerGas", "maxPriorityFeePerGas"}
    BY <2>1, SendsAssumption DEF Requests
  <2>5. DOMAIN pool \in SUBSET Nat
    BY DEF TypeOK
  <2> DEFINE a == [n |-> att[p].n + 1, pc |-> FirstStage(req[p]), nonce |-> req[p].nonce,
                   fees |-> req[p].fees, taken |-> DOMAIN pool]
  <2>7. a \in AttemptRecords /\ a.n # 0
    BY <2>2, <2>3, <2>4, <2>5 DEF AttemptRecords
  <2>8. Moved(p, a)
    BY <1>1 DEF Begin, Moved
  <2> HIDE DEF a
  <2> QED
    BY <1>1, <2>7, <2>8, MovedTypes DEF Begin, TypeOK
<1>2. ASSUME NEW p \in Payments, CallFails(p) PROVE TypeOK'
  <2>1. [att[p] EXCEPT !.pc = "threw"] \in AttemptRecords /\ att[p].n # 0
    BY <1>2, <1>a, <1>b, AttemptTypes DEF CallFails, Stages
  <2>2. [att[p] EXCEPT !.pc = "threw"].n # 0
    BY <2>1, <1>a DEF AttemptRecords
  <2> QED
    BY <1>2, <2>1, <2>2, Moves, MovedTypes, SendsAssumption DEF CallFails, TypeOK
<1>3. ASSUME NEW p \in Payments, ReadNonce(p) PROVE TypeOK'
  <2>4. PICK n \in Nonces \cup (0 .. MaxNonce) :
          att' = [att EXCEPT ![p] = [@ EXCEPT !.nonce = n, !.pc = "fees"]]
    BY <1>3 DEF ReadNonce
  <2>5. n \in Nat
    BY SendsAssumption
  <2>1. Moved(p, [att[p] EXCEPT !.nonce = n, !.pc = "fees"])
    BY <2>4 DEF Moved
  <2>2. [att[p] EXCEPT !.nonce = n, !.pc = "fees"] \in AttemptRecords /\ att[p].n # 0
    BY <1>3, <1>a, <1>b, <2>5, AttemptTypes DEF ReadNonce, Stages
  <2>3. [att[p] EXCEPT !.nonce = n, !.pc = "fees"].n # 0
    BY <2>2, <1>a DEF AttemptRecords
  <2> QED
    BY <1>3, <2>1, <2>2, <2>3, MovedTypes DEF ReadNonce, TypeOK
<1>4. ASSUME NEW p \in Payments, ReadFees(p) PROVE TypeOK'
  <2> DEFINE f == att[p].fees \cup (IF NeedsPrice(att[p].fees) THEN {"gasPrice"} ELSE {})
  <2>1. Moved(p, [att[p] EXCEPT !.fees = f, !.pc = "sign"])
    BY <1>4 DEF ReadFees, Moved
  <2>2. f \in SUBSET {"gasPrice", "maxFeePerGas", "maxPriorityFeePerGas"}
    BY <1>a DEF AttemptRecords
  <2> HIDE DEF f
  <2>3. [att[p] EXCEPT !.fees = f, !.pc = "sign"] \in AttemptRecords /\ att[p].n # 0
    BY <1>4, <2>2, <1>a, <1>b, AttemptTypes DEF ReadFees, Stages
  <2>4. [att[p] EXCEPT !.fees = f, !.pc = "sign"].n # 0
    BY <2>3, <1>a DEF AttemptRecords
  <2> QED
    BY <1>4, <2>1, <2>3, <2>4, MovedTypes DEF ReadFees, TypeOK
<1>5. ASSUME NEW p \in Payments, PriceFails(p) PROVE TypeOK'
  <2>1. [att[p] EXCEPT !.pc = "sign"] \in AttemptRecords /\ att[p].n # 0
    BY <1>5, <1>a, <1>b, AttemptTypes DEF PriceFails, Stages
  <2>2. [att[p] EXCEPT !.pc = "sign"].n # 0
    BY <2>1, <1>a DEF AttemptRecords
  <2> QED
    BY <1>5, <2>1, <2>2, Moves, MovedTypes, SendsAssumption DEF PriceFails, TypeOK
<1>6. ASSUME NEW p \in Payments, Sign(p) PROVE TypeOK'
  <2>1. \E a \in AttemptRecords : a.n # 0 /\ Moved(p, a)
    <3>1. att[p] \in AttemptRecords /\ att[p].n # 0
      BY <1>6, <1>a, <1>b DEF Sign
    <3>2. PICK c \in {"done", "broadcast", "threw"} : Moved(p, [att[p] EXCEPT !.pc = c])
      BY <1>6, SignMoves
    <3>3. [att[p] EXCEPT !.pc = c] \in AttemptRecords
      BY <3>1, AttemptTypes DEF Stages
    <3>4. [att[p] EXCEPT !.pc = c].n = att[p].n
      BY <3>1 DEF AttemptRecords
    <3> QED
      BY <3>1, <3>2, <3>3, <3>4
  <2> QED
    BY <1>6, <2>1, MovedTypes DEF Sign, TypeOK
<1>7. ASSUME NEW p \in Payments, Broadcast(p) \/ AnswerLost(p) PROVE TypeOK'
  <2>1. att[p] \in AttemptRecords /\ att[p].n # 0
    BY <1>7, <1>a, <1>b DEF Broadcast, AnswerLost
  <2>2. Attempt(p) \in Payments \X (1 .. Attempts) /\ TxNonce(att[p].nonce) \in Nat
    BY <2>1, SendsAssumption DEF Attempt, TxNonce, AttemptRecords
  <2>3. /\ DOMAIN pool' \subseteq Nat
        /\ \A k \in DOMAIN pool' : pool'[k] \in Payments \X (1 .. Attempts)
    BY <1>7, <2>2 DEF Broadcast, AnswerLost, Accept, TypeOK
  <2>4. ASSUME NEW c \in {"done", "threw"}, Moved(p, [att[p] EXCEPT !.pc = c])
        PROVE  /\ att' \in [Payments -> AttemptRecords]
               /\ \A q \in Payments : att'[q].n = 0 => att'[q].pc = "idle"
    <3>1. [att[p] EXCEPT !.pc = c] \in AttemptRecords
      BY <2>1, AttemptTypes DEF Stages
    <3>2. [att[p] EXCEPT !.pc = c].n # 0
      BY <2>1 DEF AttemptRecords
    <3> QED
      BY <2>4, <3>1, <3>2, MovedTypes
  <2>5. /\ att' \in [Payments -> AttemptRecords]
        /\ \A q \in Payments : att'[q].n = 0 => att'[q].pc = "idle"
    BY <1>7, <2>4, Moves
  <2> QED
    BY <1>7, <2>2, <2>3, <2>5, SendsAssumption DEF Broadcast, AnswerLost, TypeOK
<1>9. ASSUME NEW p \in Payments, Rejected(p) PROVE TypeOK'
  <2>1. [att[p] EXCEPT !.pc = "threw"] \in AttemptRecords /\ att[p].n # 0
    BY <1>9, <1>a, <1>b, AttemptTypes DEF Rejected, Stages
  <2>2. [att[p] EXCEPT !.pc = "threw"].n # 0
    BY <2>1, <1>a DEF AttemptRecords
  <2> QED
    BY <1>9, <2>1, <2>2, Moves, MovedTypes DEF Rejected, TypeOK
<1>10. CASE Mine
  BY <1>10 DEF Mine, TypeOK
<1>11. CASE UNCHANGED vars
  BY <1>11 DEF vars, TypeOK
<1> QED
  BY <1>1, <1>2, <1>3, <1>4, <1>5, <1>6, <1>7, <1>9, <1>10, <1>11 DEF Next

(* Every variable keeps its type, for any payments and any number of       *)
(* attempts and failures.                                                  *)
THEOREM TypeCorrect == Spec => []TypeOK
<1>1. Init => TypeOK
  BY SendsAssumption DEF Init, TypeOK, Idle, AttemptRecords, Stages
<1> QED
  BY <1>1, TypeStep, PTL DEF Spec

-------------------------------------------------------------------------------
(* What the steps have in common: how an attempt moves, and what the       *)
(* network does.                                                           *)

(* A step begins an attempt of a payment, moves the one attempt under way, *)
(* or touches none.                                                        *)
LEMMA StepOfAttempt ==
  ASSUME TypeOK, [Next]_vars
  PROVE  \/ /\ att' = att /\ pool' = pool /\ unsure' = unsure
         \/ \E p \in Payments :
              \/ Begin(p)
              \/ Broadcast(p) \/ AnswerLost(p)
              \/ ReadNonce(p)
              \/ /\ CallFails(p) \/ ReadFees(p) \/ PriceFails(p) \/ Sign(p) \/ Rejected(p)
                 /\ pool' = pool /\ unsure' = unsure
<1>1. CASE Mine
  BY <1>1 DEF Mine
<1>2. CASE UNCHANGED vars
  BY <1>2 DEF vars
<1>3. ASSUME NEW p \in Payments, CallFails(p) \/ ReadFees(p) \/ PriceFails(p) \/ Sign(p) \/ Rejected(p)
      PROVE  pool' = pool /\ unsure' = unsure
  BY <1>3 DEF CallFails, ReadFees, PriceFails, Sign, Rejected
<1> QED
  BY <1>1, <1>2, <1>3 DEF Next

(* The middle of an attempt: number, nonce and the nonces that were taken  *)
(* stay, and only signing leads to the broadcast.                          *)
LEMMA Middle ==
  ASSUME TypeOK, NEW p \in Payments,
         CallFails(p) \/ ReadFees(p) \/ PriceFails(p) \/ Sign(p) \/ Rejected(p)
  PROVE  /\ \A q \in Payments : q # p => att'[q] = att[q]
         /\ att'[p].n = att[p].n /\ att'[p].nonce = att[p].nonce /\ att'[p].taken = att[p].taken
         /\ att[p].pc \in {"nonce", "fees", "sign", "broadcast"}
         /\ \/ att'[p].pc = "threw"
            \/ att'[p].pc = "sign" /\ att[p].pc = "fees"
            \/ /\ att'[p].pc \in {"done", "broadcast"} /\ att[p].pc = "sign"
               /\ att'[p].pc = "broadcast" => rpc /\ req[p].op = "send"
<1> DEFINE Goal(a) ==
      /\ a.n = att[p].n /\ a.nonce = att[p].nonce /\ a.taken = att[p].taken
      /\ \/ a.pc = "threw"
         \/ a.pc = "sign" /\ att[p].pc = "fees"
         \/ /\ a.pc \in {"done", "broadcast"} /\ att[p].pc = "sign"
            /\ a.pc = "broadcast" => rpc /\ req[p].op = "send"
<1>1. att[p] \in AttemptRecords
  BY DEF TypeOK
<1>2. ASSUME NEW a, Moved(p, a)
      PROVE  att'[p] = a /\ \A q \in Payments : q # p => att'[q] = att[q]
  BY <1>2 DEF TypeOK, Moved
<1>3. att[p].pc \in {"nonce", "fees", "sign", "broadcast"}
  BY DEF CallFails, ReadFees, PriceFails, Sign, Rejected
<1>4. Goal([att[p] EXCEPT !.pc = "threw"])
  BY <1>1 DEF AttemptRecords
<1>5. CASE CallFails(p) \/ Rejected(p)
  BY <1>2, <1>3, <1>4, <1>5, Moves
<1>6. CASE ReadFees(p)
  <2> DEFINE f == att[p].fees \cup (IF NeedsPrice(att[p].fees) THEN {"gasPrice"} ELSE {})
  <2>1. Moved(p, [att[p] EXCEPT !.fees = f, !.pc = "sign"]) /\ att[p].pc = "fees"
    BY <1>6 DEF ReadFees, Moved
  <2> HIDE DEF f
  <2>2. Goal([att[p] EXCEPT !.fees = f, !.pc = "sign"])
    BY <1>1, <2>1 DEF AttemptRecords
  <2> QED
    BY <1>2, <1>3, <2>1, <2>2
<1>7. CASE PriceFails(p)
  <2>1. Moved(p, [att[p] EXCEPT !.pc = "sign"]) /\ att[p].pc = "fees"
    BY <1>7, Moves DEF PriceFails
  <2>2. Goal([att[p] EXCEPT !.pc = "sign"])
    BY <1>1, <2>1 DEF AttemptRecords
  <2> QED
    BY <1>2, <1>3, <2>1, <2>2
<1>8. CASE Sign(p)
  <2>1. att[p].pc = "sign"
    BY <1>8 DEF Sign
  <2>2. ASSUME NEW c \in {"done", "broadcast", "threw"}, c = "broadcast" => rpc /\ req[p].op = "send"
        PROVE  Goal([att[p] EXCEPT !.pc = c])
    BY <1>1, <2>1, <2>2 DEF AttemptRecords
  <2> HIDE DEF Goal
  <2>3. \E a : Moved(p, a) /\ Goal(a)
    BY <1>8, <2>2, SignMoves
  <2> USE DEF Goal
  <2> QED
    BY <1>2, <1>3, <2>3
<1> QED
  BY <1>5, <1>6, <1>7, <1>8

(* A broadcast adds the attempt under its nonce and leaves the rest.       *)
LEMMA Accepts ==
  ASSUME TypeOK, NEW p \in Payments, Broadcast(p) \/ AnswerLost(p)
  PROVE  /\ att[p].pc = "broadcast"
         /\ DOMAIN pool' = DOMAIN pool \cup {TxNonce(att[p].nonce)}
         /\ pool'[TxNonce(att[p].nonce)] = Attempt(p)
         /\ \A k \in DOMAIN pool : k # TxNonce(att[p].nonce) => pool'[k] = pool[k]
         /\ \A q \in Payments : q # p => att'[q] = att[q]
         /\ att'[p].n = att[p].n /\ att'[p].nonce = att[p].nonce /\ att'[p].taken = att[p].taken
         /\ \/ att'[p].pc = "done" /\ unsure' = unsure
            \/ att'[p].pc = "threw" /\ unsure' = unsure \cup {Attempt(p)}
<1>1. att[p] \in AttemptRecords
  BY DEF TypeOK
<1>2. /\ att[p].pc = "broadcast"
      /\ Accept(p)
  BY DEF Broadcast, AnswerLost
<1>3. /\ DOMAIN pool' = DOMAIN pool \cup {TxNonce(att[p].nonce)}
      /\ pool'[TxNonce(att[p].nonce)] = Attempt(p)
      /\ \A k \in DOMAIN pool : k # TxNonce(att[p].nonce) => pool'[k] = pool[k]
  BY <1>2 DEF Accept
<1>4. ASSUME NEW c \in {"done", "threw"}, Moved(p, [att[p] EXCEPT !.pc = c])
      PROVE  /\ \A q \in Payments : q # p => att'[q] = att[q]
             /\ att'[p].n = att[p].n /\ att'[p].nonce = att[p].nonce /\ att'[p].taken = att[p].taken
                 /\ att'[p].pc = c
  BY <1>1, <1>4 DEF TypeOK, Moved, AttemptRecords
<1>5. CASE Broadcast(p)
  BY <1>2, <1>3, <1>4, <1>5, Moves DEF Broadcast
<1>6. CASE AnswerLost(p)
  BY <1>2, <1>3, <1>4, <1>6, Moves DEF AnswerLost
<1> QED
  BY <1>5, <1>6

(* A new attempt.                                                          *)
LEMMA Begins ==
  ASSUME TypeOK, NEW p \in Payments, Begin(p)
  PROVE  /\ pool' = pool /\ unsure' = unsure
         /\ att[p].pc \in {"idle", "threw"}
         /\ \A q \in Payments : q # p => att'[q] = att[q]
         /\ att'[p].n = att[p].n + 1 /\ att'[p].nonce = req[p].nonce
         /\ att'[p].taken = DOMAIN pool
         /\ att'[p].pc \in {"sign", "nonce", "threw"}
         /\ att'[p].pc = "nonce" => req[p].via = "node" /\ rpc
         /\ att'[p].pc = "sign" => req[p].via = "provider" \/ (~rpc /\ req[p].op = "sign")
  BY FirstStageType DEF TypeOK, Begin

(* The nonce is read.                                                      *)
LEMMA Reads ==
  ASSUME TypeOK, NEW p \in Payments, ReadNonce(p)
  PROVE  /\ pool' = pool /\ unsure' = unsure
         /\ att[p].pc = "nonce" /\ att'[p].pc = "fees"
         /\ \A q \in Payments : q # p => att'[q] = att[q]
         /\ att'[p].n = att[p].n /\ att'[p].taken = att[p].taken
         /\ att'[p].nonce \in Nat
         /\ att[p].nonce # None => att'[p].nonce = att[p].nonce
         /\ att[p].nonce = None => IsPendingCount(att'[p].nonce)
<1>1. PICK n \in Nonces \cup (0 .. MaxNonce) :
        /\ FillNonce(p, n)
        /\ att' = [att EXCEPT ![p] = [@ EXCEPT !.nonce = n, !.pc = "fees"]]
  BY DEF ReadNonce
<1>2. n \in Nat
  BY SendsAssumption
<1>3. att[p] \in AttemptRecords
  BY DEF TypeOK
<1>4. Moved(p, [att[p] EXCEPT !.nonce = n, !.pc = "fees"])
  BY <1>1 DEF Moved
<1>5. /\ \A q \in Payments : q # p => att'[q] = att[q]
      /\ att'[p].n = att[p].n /\ att'[p].taken = att[p].taken
      /\ att'[p].nonce = n /\ att'[p].pc = "fees"
  BY <1>3, <1>4 DEF TypeOK, Moved, AttemptRecords
<1>6. pool' = pool /\ unsure' = unsure /\ att[p].pc = "nonce"
  BY DEF ReadNonce
<1> QED
  BY <1>1, <1>2, <1>5, <1>6 DEF FillNonce, IsTransactionCount

LEMMA Fixed == [Next]_vars => req' = req /\ rpc' = rpc
  BY DEF Next, vars, Begin, CallFails, ReadNonce, ReadFees, PriceFails, Sign, Broadcast,
         AnswerLost, Rejected, Mine

-------------------------------------------------------------------------------
(* Nonces.  Every attempt has the nonce of its request, or one that was    *)
(* free after it began while all below it were in use.                     *)
FreeWhenRead(p) ==
  /\ att[p].nonce \in Nat
  /\ att[p].nonce \notin att[p].taken
  /\ \A j \in 0 .. (att[p].nonce - 1) : j \in DOMAIN pool

NonceOf(p) ==
  /\ att[p].taken \subseteq DOMAIN pool
  /\ att[p].pc = "nonce" => req[p].via = "node" /\ rpc /\ att[p].nonce = req[p].nonce
  /\ att[p].pc # "idle" /\ ~Open(p) => att[p].nonce = req[p].nonce
  /\ att[p].pc = "broadcast" => rpc /\ req[p].op = "send"
  /\ att[p].pc \in {"fees", "sign", "broadcast"} /\ Open(p) /\ rpc => FreeWhenRead(p)

NonceInv == \A p \in Payments : NonceOf(p)

LEMMA NonceInit == Init => NonceInv
  BY DEF Init, Idle, NonceInv, NonceOf

LEMMA NonceStep == TypeOK /\ NonceInv /\ [Next]_vars => NonceInv'
<1> SUFFICES ASSUME TypeOK, NonceInv, [Next]_vars, NEW p \in Payments PROVE NonceOf(p)'
  BY DEF NonceInv
<1>1. NonceOf(p) /\ req' = req /\ rpc' = rpc
  BY Fixed DEF NonceInv
<1>2. ASSUME DOMAIN pool \subseteq DOMAIN pool', att'[p] = att[p] PROVE NonceOf(p)'
  BY <1>1, <1>2 DEF NonceOf, FreeWhenRead, Open
<1>3. CASE att' = att /\ pool' = pool
  BY <1>2, <1>3
<1>4. ASSUME NEW q \in Payments, Begin(q) PROVE NonceOf(p)'
  <2>1. CASE q = p
    BY <1>1, <1>4, <2>1, Begins DEF NonceOf, FreeWhenRead, Open
  <2>2. CASE q # p
    BY <1>2, <1>4, <2>2, Begins
  <2> QED
    BY <2>1, <2>2
<1>5. ASSUME NEW q \in Payments, Broadcast(q) \/ AnswerLost(q) PROVE NonceOf(p)'
  <2>1. DOMAIN pool \subseteq DOMAIN pool'
    BY <1>5, Accepts
  <2>2. CASE q = p
    BY <1>1, <1>5, <2>1, <2>2, Accepts DEF NonceOf, FreeWhenRead, Open
  <2>3. CASE q # p
    BY <1>2, <1>5, <2>1, <2>3, Accepts
  <2> QED
    BY <2>2, <2>3
<1>6. ASSUME NEW q \in Payments, ReadNonce(q) PROVE NonceOf(p)'
  <2>1. CASE q = p
    <3>1. /\ att[p].pc = "nonce" /\ att[p].nonce = req[p].nonce /\ req[p].via = "node"
          /\ att[p].taken \subseteq DOMAIN pool
      BY <1>1, <1>6, <2>1, Reads DEF NonceOf
    <3>2. CASE Open(p)
      <4>1. IsPendingCount(att'[p].nonce)
        BY <1>6, <2>1, <3>1, <3>2, Reads DEF Open
      <4>2. FreeWhenRead(p)'
        BY <1>6, <2>1, <3>1, <4>1, Reads DEF IsPendingCount, FreeWhenRead
      <4> QED
        BY <1>1, <1>6, <2>1, <3>1, <3>2, <4>2, Reads DEF NonceOf, Open
    <3>3. CASE ~Open(p)
      BY <1>1, <1>6, <2>1, <3>1, <3>3, Reads DEF NonceOf, Open
    <3> QED
      BY <3>2, <3>3
  <2>2. CASE q # p
    BY <1>2, <1>6, <2>2, Reads
  <2> QED
    BY <2>1, <2>2
<1>7. ASSUME NEW q \in Payments,
             CallFails(q) \/ ReadFees(q) \/ PriceFails(q) \/ Sign(q) \/ Rejected(q), pool' = pool
      PROVE  NonceOf(p)'
  <2>1. CASE q = p
    BY <1>1, <1>7, <2>1, Middle DEF NonceOf, FreeWhenRead, Open
  <2>2. CASE q # p
    BY <1>2, <1>7, <2>2, Middle
  <2> QED
    BY <2>1, <2>2
<1> QED
  BY <1>3, <1>4, <1>5, <1>6, <1>7, StepOfAttempt

LEMMA NonceAlways == Spec => [](TypeOK /\ NonceInv)
<1>1. Init => TypeOK /\ NonceInv
  BY NonceInit, SendsAssumption
     DEF Init, TypeOK, Idle, AttemptRecords, Stages
<1> QED
  BY <1>1, TypeStep, NonceStep, PTL DEF Spec

(* A transaction with a nonce of the Node client's never takes the place   *)
(* of one that was accepted before its attempt began.                      *)
THEOREM AwaitedSends == Spec => AwaitedSendsStand
<1> DEFINE A == \A p \in Payments, k \in DOMAIN pool :
       /\ pool[k] # Attempt(p)
       /\ pool'[k] = Attempt(p)
       /\ Open(p)
       => k \notin att[p].taken
<1>1. TypeOK /\ NonceInv /\ [Next]_vars => [A]_vars
  <2> SUFFICES ASSUME TypeOK, NonceInv, [Next]_vars,
                      NEW p \in Payments, NEW k \in DOMAIN pool,
                      pool[k] # Attempt(p), pool'[k] = Attempt(p), Open(p)
               PROVE  k \notin att[p].taken
    OBVIOUS
  <2>1. PICK q \in Payments : Broadcast(q) \/ AnswerLost(q)
    BY StepOfAttempt, Begins, Reads
  <2>2. k = TxNonce(att[q].nonce) /\ pool'[k] = Attempt(q) /\ att[q].pc = "broadcast"
    BY <2>1, Accepts
  <2>3. q = p
    BY <2>2 DEF Attempt
  <2>4. FreeWhenRead(p)
    BY <2>2, <2>3 DEF NonceInv, NonceOf
  <2> QED
    BY <2>2, <2>3, <2>4, SendsAssumption DEF FreeWhenRead, TxNonce
<1> QED
  BY <1>1, NonceAlways, PTL DEF Spec, AwaitedSendsStand

(* If nobody names a nonce, the accepted transactions leave no gap.        *)
THEOREM NoGaps == Spec => []NoGap
<1>1. Init => NoGap
  BY DEF Init, NoGap
<1>2. TypeOK /\ NonceInv /\ NoGap /\ [Next]_vars => NoGap'
  <2> SUFFICES ASSUME TypeOK, NonceInv, NoGap, [Next]_vars,
                      \A p \in Payments : req[p].nonce = None,
                      NEW k \in DOMAIN pool', NEW j \in 0 .. (k - 1)
               PROVE  j \in DOMAIN pool'
    BY Fixed DEF NoGap
  <2>1. CASE pool' = pool
    BY <2>1 DEF NoGap
  <2>2. ASSUME NEW q \in Payments, Broadcast(q) \/ AnswerLost(q) PROVE j \in DOMAIN pool'
    <3>1. DOMAIN pool' = DOMAIN pool \cup {TxNonce(att[q].nonce)} /\ att[q].pc = "broadcast"
      BY <2>2, Accepts
    <3>2. CASE k \in DOMAIN pool
      BY <3>1, <3>2 DEF NoGap
    <3>3. CASE k = TxNonce(att[q].nonce) /\ Open(q)
      <4>1. FreeWhenRead(q)
        BY <3>1, <3>3 DEF NonceInv, NonceOf
      <4>2. k = att[q].nonce
        BY <3>3, <4>1, SendsAssumption DEF FreeWhenRead, TxNonce
      <4> QED
        BY <3>1, <4>1, <4>2 DEF FreeWhenRead
    <3>4. CASE k = TxNonce(att[q].nonce) /\ ~Open(q)
      <4>1. k = 0
        BY <3>1, <3>4 DEF NonceInv, NonceOf, TxNonce
      <4> QED
        BY <4>1
    <3> QED
      BY <3>1, <3>2, <3>3, <3>4
  <2> QED
    BY <2>1, <2>2, StepOfAttempt, Begins, Reads
<1> QED
  BY <1>1, <1>2, NonceAlways, PTL DEF Spec

-------------------------------------------------------------------------------
(* Payments.  An accepted attempt is the current one, which is done, or    *)
(* one whose caller was not told; it was accepted once, under the nonce    *)
(* its request named if it named one or did not go through the Node client.*)
AcceptedOnce ==
  /\ \A k \in DOMAIN pool :
       /\ pool[k][2] <= att[pool[k][1]].n
       /\ pool[k][2] = att[pool[k][1]].n => att[pool[k][1]].pc \in {"done", "threw"}
       /\ pool[k] \notin unsure
            => pool[k][2] = att[pool[k][1]].n /\ att[pool[k][1]].pc = "done"
       /\ ~Open(pool[k][1]) => k = TxNonce(req[pool[k][1]].nonce)
  /\ \A j, k \in DOMAIN pool : pool[j] = pool[k] => j = k

LEMMA AcceptedStep == TypeOK /\ NonceInv /\ AcceptedOnce /\ [Next]_vars => AcceptedOnce'
<1> SUFFICES ASSUME TypeOK, NonceInv, AcceptedOnce, [Next]_vars PROVE AcceptedOnce'
  OBVIOUS
<1>1. req' = req /\ rpc' = rpc
  BY Fixed
<1>2. \A k \in DOMAIN pool : /\ pool[k] \in Payments \X (1 .. Attempts)
                             /\ pool[k][1] \in Payments /\ pool[k][2] \in 1 .. Attempts
  BY DEF TypeOK
<1>3. \A q \in Payments : att[q].n \in 0 .. Attempts
  BY DEF TypeOK, AttemptRecords
<1>4. CASE att' = att /\ pool' = pool /\ unsure' = unsure
  BY <1>1, <1>4 DEF AcceptedOnce, Open
<1>5. ASSUME NEW q \in Payments, Begin(q) PROVE AcceptedOnce'
  <2>1. /\ pool' = pool /\ unsure' = unsure /\ att[q].pc # "done"
        /\ att'[q].n = att[q].n + 1
        /\ \A r \in Payments : r # q => att'[r] = att[r]
    BY <1>5, Begins
  <2> SUFFICES ASSUME NEW k \in DOMAIN pool
               PROVE  /\ pool[k][2] <= att'[pool[k][1]].n
                      /\ pool[k][2] = att'[pool[k][1]].n => att'[pool[k][1]].pc \in {"done", "threw"}
                      /\ pool[k] \notin unsure
                           => pool[k][2] = att'[pool[k][1]].n /\ att'[pool[k][1]].pc = "done"
    BY <1>1, <2>1 DEF AcceptedOnce, Open
  <2>2. CASE pool[k][1] # q
    BY <1>2, <2>1, <2>2 DEF AcceptedOnce
  <2>3. CASE pool[k][1] = q
    <3>1. pool[k][2] <= att[q].n /\ pool[k] \in unsure
      BY <2>1, <2>3 DEF AcceptedOnce
    <3>2. pool[k][2] < att[q].n + 1
      BY <1>2, <1>3, <3>1
    <3> QED
      BY <1>2, <1>3, <2>1, <2>3, <3>1, <3>2
  <2> QED
    BY <2>2, <2>3
<1>6. ASSUME NEW q \in Payments, Broadcast(q) \/ AnswerLost(q) PROVE AcceptedOnce'
  <2> DEFINE n == TxNonce(att[q].nonce)
  <2>1. /\ att[q].pc = "broadcast"
        /\ DOMAIN pool' = DOMAIN pool \cup {n}
        /\ pool'[n] = Attempt(q)
        /\ \A k \in DOMAIN pool : k # n => pool'[k] = pool[k]
        /\ \A r \in Payments : r # q => att'[r] = att[r]
        /\ att'[q].n = att[q].n
        /\ \/ att'[q].pc = "done" /\ unsure' = unsure
           \/ att'[q].pc = "threw" /\ unsure' = unsure \cup {Attempt(q)}
    BY <1>6, Accepts
  <2>2. ~Open(q) => n = TxNonce(req[q].nonce)
    BY <2>1 DEF NonceInv, NonceOf
  <2> HIDE DEF n
  <2>3. Attempt(q)[1] = q /\ Attempt(q)[2] = att[q].n
    BY DEF Attempt
  <2>4. \A k \in DOMAIN pool : pool[k] # Attempt(q) /\ (pool[k][1] = q => pool[k][2] # att[q].n)
    <3> SUFFICES ASSUME NEW k \in DOMAIN pool, pool[k][1] = q, pool[k][2] = att[q].n PROVE FALSE
      BY <2>3
    <3> QED
      BY <2>1 DEF AcceptedOnce
  <2>5. ASSUME NEW k \in DOMAIN pool'
        PROVE  /\ pool'[k][2] <= att'[pool'[k][1]].n
               /\ pool'[k][2] = att'[pool'[k][1]].n => att'[pool'[k][1]].pc \in {"done", "threw"}
               /\ pool'[k] \notin unsure'
                    => pool'[k][2] = att'[pool'[k][1]].n /\ att'[pool'[k][1]].pc = "done"
               /\ ~Open(pool'[k][1]) => k = TxNonce(req[pool'[k][1]].nonce)
    <3>1. CASE k = n
      BY <1>3, <2>1, <2>2, <2>3, <3>1
    <3>2. CASE k # n
      <4>1. k \in DOMAIN pool /\ pool'[k] = pool[k]
        BY <2>1, <3>2
      <4>2. CASE pool[k][1] = q
        BY <1>2, <2>1, <2>4, <4>1, <4>2 DEF AcceptedOnce
      <4>3. CASE pool[k][1] # q
        BY <1>2, <2>1, <4>1, <4>3 DEF AcceptedOnce
      <4> QED
        BY <4>2, <4>3
    <3> QED
      BY <3>1, <3>2
  <2>6. ASSUME NEW j \in DOMAIN pool', NEW k \in DOMAIN pool', pool'[j] = pool'[k] PROVE j = k
    BY <2>1, <2>4, <2>6 DEF AcceptedOnce
  <2> QED
    BY <1>1, <2>5, <2>6 DEF AcceptedOnce, Open
<1>7. ASSUME NEW q \in Payments,
             /\ \A r \in Payments : r # q => att'[r] = att[r]
             /\ att'[q].n = att[q].n
             /\ att[q].pc \in {"nonce", "fees", "sign", "broadcast"}
             /\ pool' = pool /\ unsure' = unsure
      PROVE  AcceptedOnce'
  <2>1. \A k \in DOMAIN pool : pool[k][1] = q => pool[k][2] # att[q].n /\ pool[k] \in unsure
    BY <1>7 DEF AcceptedOnce
  <2> SUFFICES ASSUME NEW k \in DOMAIN pool
               PROVE  /\ pool[k][2] <= att'[pool[k][1]].n
                      /\ pool[k][2] = att'[pool[k][1]].n => att'[pool[k][1]].pc \in {"done", "threw"}
                      /\ pool[k] \notin unsure
                           => pool[k][2] = att'[pool[k][1]].n /\ att'[pool[k][1]].pc = "done"
    BY <1>1, <1>7 DEF AcceptedOnce, Open
  <2>2. CASE pool[k][1] = q
    BY <1>7, <2>1, <2>2 DEF AcceptedOnce
  <2>3. CASE pool[k][1] # q
    BY <1>2, <1>7, <2>3 DEF AcceptedOnce
  <2> QED
    BY <2>2, <2>3
<1>8. ASSUME NEW q \in Payments, ReadNonce(q) PROVE AcceptedOnce'
  BY <1>7, <1>8, Reads
<1>9. ASSUME NEW q \in Payments,
             CallFails(q) \/ ReadFees(q) \/ PriceFails(q) \/ Sign(q) \/ Rejected(q),
             pool' = pool, unsure' = unsure
      PROVE  AcceptedOnce'
  BY <1>7, <1>9, Middle
<1> QED
  BY <1>4, <1>5, <1>6, <1>8, <1>9, StepOfAttempt

(* A payment is paid twice only if its nonce was left to the Node client   *)
(* and the answer to an earlier broadcast was lost.                        *)
THEOREM PayOnce == Spec => []PaidOnce
<1>1. Init => AcceptedOnce
  BY DEF Init, AcceptedOnce
<1>2. TypeOK /\ AcceptedOnce => PaidOnce
  <2> SUFFICES ASSUME TypeOK, AcceptedOnce, NEW j \in DOMAIN pool, NEW k \in DOMAIN pool,
                      j # k, pool[j][1] = pool[k][1]
               PROVE  Open(pool[j][1]) /\ {pool[j], pool[k]} \cap unsure # {}
    BY DEF PaidOnce
  <2>1. Open(pool[j][1])
    BY DEF AcceptedOnce
  <2>2. pool[j] \in Payments \X (1 .. Attempts) /\ pool[k] \in Payments \X (1 .. Attempts)
    BY DEF TypeOK
  <2>3. pool[j] # pool[k]
    BY DEF AcceptedOnce
  <2>4. pool[j][2] # pool[k][2]
    BY <2>2, <2>3
  <2>5. pool[j] \in unsure \/ pool[k] \in unsure
    BY <2>4 DEF AcceptedOnce
  <2> QED
    BY <2>1, <2>5
<1> QED
  BY <1>1, <1>2, AcceptedStep, NonceAlways, PTL DEF Spec

-------------------------------------------------------------------------------
(* TaskRouting.  A key of a kind other than RSA has one session that takes *)
(* a task of it, named as the server may name it; and every client has it. *)
Sessions == {"dkls23", "frost", "decaf448", "bls", "rsa", "rsa2pc"}
Home(k) ==
  CASE k \in {"secp256k1", "p256"} -> "dkls23"
    [] k \in {"ed25519", "ed448"} -> "frost"
    [] k = "decaf448" -> "decaf448"
    [] k \in {"bls48581", "bls12381"} -> "bls"

(* How the server may name a task of operation op in the task or in its    *)
(* ServerData.                                                             *)
Names(op) ==
  [spec : Routing!Spec4(kind) \cup {Routing!Absent},
   protocol : Routing!Protocol4(kind, op) \cup {Routing!Absent}]

LEMMA OneTaker ==
  ASSUME kind \in {"secp256k1", "p256", "ed25519", "ed448", "decaf448", "bls48581", "bls12381"},
         NEW op \in {"createkey", "sign"}, NEW t, t.op = op,
         t.spec \in Routing!Spec4(kind) \cup {Routing!Absent},
         t.protocol \in Routing!Protocol4(kind, op) \cup {Routing!Absent},
         NEW d \in Names(op), Routing!Announced(t, d)
  PROVE  /\ \A s \in Sessions : Routing!CanHandle(s, t, d) <=> s = Home(kind)
         /\ Routing!Path(Home(kind), t, d) = Routing!Own(kind)
<1> USE DEF Names, Routing!Absent, Routing!Spec4, Routing!Protocol4, Home, Sessions,
            Routing!CanHandle, Routing!Path, Routing!Own, Routing!KeySpec, Routing!Protocol,
            Routing!Announced, Routing!Named, Routing!OnBls12381,
            Routing!DklsCanHandle, Routing!FrostCanHandle, Routing!DecafCanHandle,
            Routing!BlsCanHandle, Routing!RsaCanHandle, Routing!Rsa2pcCanHandle
<1>1. CASE kind = "secp256k1"
  BY <1>1
<1>2. CASE kind = "p256"
  BY <1>2
<1>3. CASE kind = "ed25519"
  BY <1>3
<1>4. CASE kind = "ed448"
  BY <1>4
<1>5. CASE kind = "decaf448"
  BY <1>5
<1>6. CASE kind = "bls48581"
  BY <1>6
<1>7. CASE kind = "bls12381"
  BY <1>7
<1> QED
  BY <1>1, <1>2, <1>3, <1>4, <1>5, <1>6, <1>7

(* For RSA, by the names in the task alone.                                *)
LEMMA RsaTakers ==
  ASSUME kind \in Routing!Rsa,
         NEW op \in {"createkey", "sign", "decrypt"}, NEW t, t.op = op,
         t.spec \in Routing!Spec4(kind) \cup {Routing!Absent},
         t.protocol \in Routing!Protocol4(kind, op) \cup {Routing!Absent},
         NEW d \in Names(op), Routing!Announced(t, d)
  PROVE  /\ \A s \in Sessions \ {"rsa", "rsa2pc"} : ~Routing!CanHandle(s, t, d)
         /\ Routing!CanHandle("rsa", t, d) <=>
              \/ t.spec # Routing!Absent
              \/ ~(kind = "rsa 2-of-2" /\ op = "createkey") /\ t.protocol # Routing!Absent
         /\ Routing!CanHandle("rsa2pc", t, d) <=>
              kind = "rsa 2-of-2" /\ op = "createkey" /\ t.protocol # Routing!Absent
         /\ \A s \in {"rsa", "rsa2pc"} : Routing!Path(s, t, d) = s
<1> USE DEF Names, Routing!Absent, Routing!Spec4, Routing!Protocol4, Sessions, Routing!Rsa,
            Routing!CanHandle, Routing!Path, Routing!KeySpec, Routing!Protocol,
            Routing!Announced, Routing!Named,
            Routing!DklsCanHandle, Routing!FrostCanHandle, Routing!DecafCanHandle,
            Routing!BlsCanHandle, Routing!RsaCanHandle, Routing!Rsa2pcCanHandle
<1>1. CASE kind = "rsa"
  BY <1>1
<1>2. CASE kind = "rsa 2-of-2" /\ op = "createkey"
  BY <1>2
<1>3. CASE kind = "rsa 2-of-2" /\ op # "createkey"
  BY <1>3
<1> QED
  BY <1>1, <1>2, <1>3 DEF Routing!Rsa

LEMMA LeastOfSix ==
  ASSUME NEW I, I # {}, I \subseteq {1, 2, 3, 4, 5, 6}
  PROVE  \E i \in I : \A j \in I : i <= j
<1>1. 1 \in I \/ 2 \in I \/ 3 \in I \/ 4 \in I \/ 5 \in I \/ 6 \in I
  OBVIOUS
<1>2. CASE 1 \in I
  BY <1>2
<1>3. CASE 1 \notin I /\ 2 \in I
  BY <1>3
<1>4. CASE 1 \notin I /\ 2 \notin I /\ 3 \in I
  BY <1>4
<1>5. CASE 1 \notin I /\ 2 \notin I /\ 3 \notin I /\ 4 \in I
  BY <1>5
<1>6. CASE 1 \notin I /\ 2 \notin I /\ 3 \notin I /\ 4 \notin I
  BY <1>1, <1>6
<1> QED
  BY <1>2, <1>3, <1>4, <1>5, <1>6

(* The dispatcher gives a task to one of those that accept it.             *)
LEMMA FirstTaker ==
  ASSUME client \in DOMAIN Routing!Registered, NEW t, NEW d, Routing!Takers(t, d) # {}
  PROVE  /\ Routing!Taker(t, d) \in Sessions
         /\ Routing!CanHandle(Routing!Taker(t, d), t, d)
         /\ \E i \in DOMAIN Routing!Registered[client] :
              Routing!Registered[client][i] = Routing!Taker(t, d)
<1> DEFINE order == Routing!Registered[client]
           takers == Routing!Takers(t, d)
<1>1. DOMAIN order \subseteq {1, 2, 3, 4, 5, 6} /\ \A i \in DOMAIN order : order[i] \in Sessions
  BY DEF Routing!Registered, Sessions
<1>2. takers \subseteq DOMAIN order /\ \A i \in takers : Routing!CanHandle(order[i], t, d)
  BY DEF Routing!Takers
<1>3. \E i \in takers : \A j \in takers : i <= j
  <2>1. takers # {} /\ takers \subseteq {1, 2, 3, 4, 5, 6}
    BY <1>1, <1>2
  <2> QED
    BY <2>1, LeastOfSix
<1> DEFINE first == CHOOSE i \in takers : \A j \in takers : i <= j
<1>4. Routing!Taker(t, d) = order[first]
  BY DEF Routing!Taker
<1>5. first \in takers
  BY <1>3
<1> QED
  BY <1>1, <1>2, <1>4, <1>5

LEMMA Taken ==
  ASSUME client \in DOMAIN Routing!Registered, NEW t, NEW d,
         NEW s \in Sessions, Routing!CanHandle(s, t, d), s = "rsa2pc" => client # "node"
  PROVE  Routing!Takers(t, d) # {}
<1>1. \E i \in DOMAIN Routing!Registered[client] : Routing!Registered[client][i] = s
  <2>1. CASE client = "vanilla"
    BY <2>1 DEF Routing!Registered, Sessions
  <2>2. CASE client = "node"
    BY <2>2 DEF Routing!Registered, Sessions
  <2>3. CASE client = "react"
    BY <2>3 DEF Routing!Registered, Sessions
  <2>4. CASE client = "worker"
    BY <2>4 DEF Routing!Registered, Sessions
  <2> QED
    BY <2>1, <2>2, <2>3, <2>4 DEF Routing!Registered
<1> QED
  BY <1>1 DEF Routing!Takers

-------------------------------------------------------------------------------
(* The inductive invariant: the task is named as the server names the key, *)
(* a use is asked for when the key is made, the share of a made key is     *)
(* where its session looks, and a task that nobody took never finds a      *)
(* taker.                                                                  *)
Operating == {"createkey", "sign", "decrypt"}
TaskNamed ==
  task # Routing!NoTask =>
    /\ task = [op |-> task.op, spec |-> task.spec, protocol |-> task.protocol,
               round |-> task.round]
    /\ task.op \in Operating
    /\ task.op # "createkey" => task.op \in Routing!Operations(kind)
    /\ task.spec \in Routing!Spec4(kind) \cup {Routing!Absent}
    /\ task.protocol \in Routing!Protocol4(kind, task.op) \cup {Routing!Absent}
    /\ task.op # "createkey" => ready
ShareStored ==
  ready => \/ kind = "rsa 2-of-2"
           \/ kind = "rsa" /\ Routing!ReadFrom("rsa") \in stored
           \/ kind \notin Routing!Rsa /\ Routing!ReadFrom(Home(kind)) \in stored
Stuck ==
  /\ kind \in Routing!Rsa
  /\ task # Routing!NoTask
  /\ \/ ~Routing!Named(task)
     \/ kind = "rsa 2-of-2" /\ client = "node" /\ task.op = "createkey"
          /\ task.spec = Routing!Absent
RoutingInv ==
  /\ client \in DOMAIN Routing!Registered /\ kind \in Kinds
  /\ TaskNamed
  /\ ShareStored
  /\ Routing!OwnSessionServes
  /\ ignored => Stuck
  /\ Routing!ShareIsFound

LEMMA RoutingInit == ASSUME Routing!Init PROVE RoutingInv
BY DEF Routing!Init, RoutingInv, TaskNamed, ShareStored, Routing!OwnSessionServes,
       Routing!ShareIsFound

(* A poll, by the kind of the key.                                         *)
LEMMA PollOfOther ==
  ASSUME RoutingInv, kind \notin Routing!Rsa, NEW d \in Routing!Data,
         task # Routing!NoTask, Routing!Announced(task, d)
  PROVE  /\ Routing!Takers(task, d) # {}
         /\ Routing!Taker(task, d) = Home(kind)
         /\ Routing!Path(Home(kind), task, d) = Routing!Own(kind)
         /\ Routing!Usable(Home(kind))
<1>1. kind \in {"secp256k1", "p256", "ed25519", "ed448", "decaf448", "bls48581", "bls12381"}
  BY InstanceAssumption DEF RoutingInv, Routing!RoutingAssumption, Routing!Rsa
<1>2. task.op \in {"createkey", "sign"}
  BY DEF RoutingInv, TaskNamed, Operating, Routing!Operations
<1>3. d \in Names(task.op)
  BY DEF Routing!Data, Names
<1>4. /\ \A s \in Sessions : Routing!CanHandle(s, task, d) <=> s = Home(kind)
      /\ Routing!Path(Home(kind), task, d) = Routing!Own(kind)
  BY <1>1, <1>2, <1>3, OneTaker DEF RoutingInv, TaskNamed
<1>5. Home(kind) \in Sessions \ {"rsa", "rsa2pc"}
  BY <1>1 DEF Home, Sessions
<1>6. Routing!Takers(task, d) # {}
  BY <1>4, <1>5, Taken DEF RoutingInv
<1>7. Routing!Taker(task, d) = Home(kind)
  BY <1>4, <1>6, FirstTaker DEF RoutingInv
<1>8. Routing!Usable(Home(kind))
  BY <1>2, <1>5 DEF Routing!Usable, Routing!Supports, RoutingInv, TaskNamed, ShareStored, Routing!Rsa
<1> QED
  BY <1>4, <1>6, <1>7, <1>8

LEMMA PollOfRsa ==
  ASSUME RoutingInv, kind \in Routing!Rsa, NEW d \in Routing!Data,
         task # Routing!NoTask, Routing!Announced(task, d)
  PROVE  /\ Routing!Takers(task, d) = {} => Stuck
         /\ Stuck => Routing!Takers(task, d) = {}
         /\ Routing!Takers(task, d) # {} =>
              /\ Routing!Taker(task, d) \in {"rsa", "rsa2pc"}
              /\ Routing!Path(Routing!Taker(task, d), task, d) = Routing!Taker(task, d)
              /\ kind = "rsa" => Routing!Taker(task, d) = "rsa" /\ Routing!Usable("rsa")
<1>1. d \in Names(task.op)
  BY DEF Routing!Data, Names
<1>2. task.op \in {"createkey", "sign", "decrypt"}
  BY DEF RoutingInv, TaskNamed, Operating
<1>3. /\ \A s \in Sessions \ {"rsa", "rsa2pc"} : ~Routing!CanHandle(s, task, d)
      /\ Routing!CanHandle("rsa", task, d) <=>
           \/ task.spec # Routing!Absent
           \/ ~(kind = "rsa 2-of-2" /\ task.op = "createkey") /\ task.protocol # Routing!Absent
      /\ Routing!CanHandle("rsa2pc", task, d) <=>
           kind = "rsa 2-of-2" /\ task.op = "createkey" /\ task.protocol # Routing!Absent
      /\ \A s \in {"rsa", "rsa2pc"} : Routing!Path(s, task, d) = s
  <2>1. /\ task.spec \in Routing!Spec4(kind) \cup {Routing!Absent}
        /\ task.protocol \in Routing!Protocol4(kind, task.op) \cup {Routing!Absent}
    BY DEF RoutingInv, TaskNamed
  <2> QED
    BY <1>1, <1>2, <2>1, RsaTakers, ZenonT(60)
<1>4. "rsa" \in Sessions /\ "rsa2pc" \in Sessions
  BY DEF Sessions
<1>5. client = "node" => ~ \E i \in DOMAIN Routing!Registered[client] :
                              Routing!Registered[client][i] = "rsa2pc"
  BY DEF Routing!Registered
<1>6. ASSUME Routing!Takers(task, d) = {} PROVE Stuck
  <2>1. ~Routing!CanHandle("rsa", task, d)
    BY <1>4, <1>6, Taken DEF RoutingInv
  <2>2. Routing!CanHandle("rsa2pc", task, d) => client = "node"
    BY <1>4, <1>6, Taken DEF RoutingInv
  <2> QED
    BY <1>3, <2>1, <2>2 DEF Stuck, Routing!Named
<1>7. ASSUME Stuck PROVE Routing!Takers(task, d) = {}
  <2>1. ~Routing!CanHandle("rsa", task, d)
    BY <1>3, <1>7 DEF Stuck, Routing!Named
  <2>2. Routing!CanHandle("rsa2pc", task, d) => client = "node"
    BY <1>3, <1>7 DEF Stuck, Routing!Named
  <2>3. SUFFICES ASSUME Routing!Takers(task, d) # {} PROVE FALSE
    OBVIOUS
  <2>4. /\ Routing!Taker(task, d) \in Sessions
        /\ Routing!CanHandle(Routing!Taker(task, d), task, d)
        /\ \E i \in DOMAIN Routing!Registered[client] :
              Routing!Registered[client][i] = Routing!Taker(task, d)
    BY <2>3, FirstTaker DEF RoutingInv
  <2> QED
    BY <1>3, <1>5, <2>1, <2>2, <2>4
<1>8. ASSUME Routing!Takers(task, d) # {}
      PROVE  /\ Routing!Taker(task, d) \in {"rsa", "rsa2pc"}
             /\ Routing!Path(Routing!Taker(task, d), task, d) = Routing!Taker(task, d)
             /\ kind = "rsa" => Routing!Taker(task, d) = "rsa" /\ Routing!Usable("rsa")
  <2>1. /\ Routing!Taker(task, d) \in Sessions
        /\ Routing!CanHandle(Routing!Taker(task, d), task, d)
    BY <1>8, FirstTaker DEF RoutingInv
  <2>2. kind = "rsa" => Routing!Usable("rsa")
    BY <1>2 DEF Routing!Usable, Routing!Supports, RoutingInv, TaskNamed, ShareStored, Routing!Rsa
  <2> QED
    BY <1>3, <2>1, <2>2
<1> QED
  BY <1>6, <1>7, <1>8

LEMMA RoutingStep ==
  ASSUME RoutingInv, [Routing!Next]_routingVars
  PROVE  RoutingInv'
<1>1. CASE UNCHANGED routingVars
  BY <1>1 DEF routingVars, RoutingInv, TaskNamed, ShareStored, Stuck,
              Routing!OwnSessionServes, Routing!ShareIsFound, Routing!Named
<1>2. ASSUME NEW op \in {"createkey", "sign", "decrypt"},
             NEW spec \in Routing!Spec4(kind) \cup {Routing!Absent},
             NEW protocol \in Routing!Protocol4(kind, op) \cup {Routing!Absent},
             Routing!Request(op, spec, protocol)
      PROVE  RoutingInv'
  <2>1. ~Stuck
    BY <1>2 DEF Routing!Request, Stuck
  <2>2. TaskNamed'
    BY <1>2 DEF Routing!Request, TaskNamed, Operating
  <2> QED
    BY <1>2, <2>1, <2>2 DEF Routing!Request, RoutingInv, ShareStored,
                            Routing!OwnSessionServes, Routing!ShareIsFound
<1>3. ASSUME Routing!Poll
      PROVE  RoutingInv'
  <2>1. PICK d \in Routing!Data :
          /\ task # Routing!NoTask /\ Routing!Announced(task, d)
          /\ Routing!Ignore(d) \/ Routing!Refuse(d) \/ Routing!Process(d)
    BY <1>3 DEF Routing!Poll
  <2>2. CASE Routing!Ignore(d)
    <3>1. Stuck
      BY <2>1, <2>2, PollOfOther, PollOfRsa DEF Routing!Ignore
    <3> QED
      BY <2>2, <3>1 DEF Routing!Ignore, RoutingInv, TaskNamed, ShareStored, Stuck,
                        Routing!OwnSessionServes, Routing!ShareIsFound, Routing!Named
  <2>3. CASE Routing!Refuse(d)
    <3>1. kind = "rsa 2-of-2"
      BY <2>1, <2>3, PollOfOther, PollOfRsa DEF Routing!Refuse, Routing!Rsa
    <3> QED
      BY <2>3, <3>1 DEF Routing!Refuse, RoutingInv, TaskNamed, ShareStored, Stuck,
                        Routing!OwnSessionServes, Routing!ShareIsFound, Routing!Named
  <2>4. CASE Routing!Process(d)
    <3> DEFINE s == Routing!Taker(task, d)
               last == task.round + 1 = Rounds
    <3>1. /\ Routing!Takers(task, d) # {}
          /\ Routing!Usable(s)
          /\ served' = served \cup {Routing!Path(s, task, d)}
          /\ task' = IF last THEN Routing!NoTask ELSE [task EXCEPT !.round = @ + 1]
          /\ ready' = (ready \/ last)
          /\ stored' = IF last /\ task.op = "createkey" THEN stored \cup {Routing!WrittenTo(s)}
                       ELSE stored
          /\ UNCHANGED <<client, kind, ignored, refused>>
      BY <2>4 DEF Routing!Process
    <3>2. ~Stuck
      BY <2>1, <3>1, PollOfRsa DEF Stuck
    <3>3. TaskNamed'
      <4>1. task = [op |-> task.op, spec |-> task.spec, protocol |-> task.protocol,
                    round |-> task.round]
        BY <2>1 DEF RoutingInv, TaskNamed
      <4>2. CASE last
        BY <3>1, <4>2 DEF TaskNamed
      <4>3. CASE ~last
        <5>1. task' = [op |-> task.op, spec |-> task.spec, protocol |-> task.protocol,
                       round |-> task.round + 1]
          BY <3>1, <4>1, <4>3
        <5> QED
          BY <2>1, <3>1, <4>1, <5>1 DEF RoutingInv, TaskNamed
      <4> QED
        BY <4>2, <4>3
    <3>4. kind \notin Routing!Rsa => s = Home(kind) /\ Routing!Path(s, task, d) = Routing!Own(kind)
      BY <2>1, PollOfOther
    <3>5. kind \in Routing!Rsa =>
            /\ s \in {"rsa", "rsa2pc"} /\ Routing!Path(s, task, d) = s
            /\ kind = "rsa" => s = "rsa"
      BY <2>1, <3>1, PollOfRsa
    <3> HIDE DEF s, last
    <3>6. Routing!OwnSessionServes'
      BY <3>1, <3>4, <3>5 DEF RoutingInv, Routing!OwnSessionServes, Routing!Rsa, Routing!Own
    <3>7. kind \notin Routing!Rsa => Home(kind) # "rsa2pc"
      BY InstanceAssumption DEF Home, Routing!Rsa, RoutingInv, Routing!RoutingAssumption
    <3>8. ShareStored'
      <4>1. CASE ready
        BY <3>1, <4>1 DEF RoutingInv, ShareStored
      <4>2. CASE ~ready /\ last
        <5>1. task.op = "createkey"
          BY <2>1, <4>2 DEF RoutingInv, TaskNamed
        <5>2. Routing!WrittenTo(s) \in stored'
          BY <3>1, <4>2, <5>1
        <5> QED
          BY <3>1, <3>4, <3>5, <3>7, <5>2 DEF ShareStored, Routing!WrittenTo, Routing!Rsa
      <4>3. CASE ~ready /\ ~last
        BY <3>1, <4>3 DEF ShareStored
      <4> QED
        BY <4>1, <4>2, <4>3
    <3> QED
      BY <3>1, <3>2, <3>3, <3>6, <3>8 DEF RoutingInv, Routing!ShareIsFound
  <2> QED
    BY <2>1, <2>2, <2>3, <2>4
<1> QED
  BY <1>1, <1>2, <1>3 DEF Routing!Next

(* Every round of every task of a key is served by the session made for    *)
(* it, and a task that nobody takes is an RSA task without names of its    *)
(* own, or a 2-of-2 key generation in the Node client: whatever the order  *)
(* of registration, wherever the server writes the names, and for any      *)
(* number of rounds.                                                       *)
THEOREM TasksArrive == PartSpec => []TasksReachTheirSession
<1>1. PartInit => RoutingInv
  BY RoutingInit DEF PartInit
<1>2. RoutingInv /\ [PartNext]_<<part, vars, routingVars, walletVars>> => RoutingInv'
  BY RoutingStep DEF PartNext, routingVars
<1>3. RoutingInv => TasksReachTheirSession
  BY DEF RoutingInv, Stuck, TasksReachTheirSession, Routing!TasksReachTheirSession,
         Routing!OnlyRsaIgnored
<1> QED
  BY <1>1, <1>2, <1>3, PTL DEF PartSpec

(* A session that is asked to use a finished key finds the share in the    *)
(* name space that the session which made the key has written to, and      *)
(* knows the operation, unless the key is a 2-of-2 RSA key.                *)
THEOREM SharesFound == PartSpec => []ShareIsFound
<1>1. PartInit => RoutingInv
  BY RoutingInit DEF PartInit
<1>2. RoutingInv /\ [PartNext]_<<part, vars, routingVars, walletVars>> => RoutingInv'
  BY RoutingStep DEF PartNext, routingVars
<1>3. RoutingInv => ShareIsFound
  BY DEF RoutingInv, ShareIsFound
<1> QED
  BY <1>1, <1>2, <1>3, PTL DEF PartSpec

-------------------------------------------------------------------------------
(* Wallets.  The entry points that tag their keys or need no tag, and the  *)
(* forms of public keys whose addresses are derived by every client.       *)
PlainEntries ==
  {"react ethereum", "react solana", "solana hook", "vanilla ethereum", "vanilla solana",
   "node ethereum", "node solana"}
PlainWallets == WalletEntries \subseteq PlainEntries /\ "unprefixed 0x30" \notin Forms

(* The arms of ChainOf and of Requests.                                    *)
LEMMA ChainsOfEntries ==
  /\ \A e \in {"react ethereum", "vanilla ethereum", "node ethereum"} :
       Wallet!ChainOf(e) = "ethereum"
  /\ \A e \in {"react solana", "solana hook", "vanilla solana", "node solana"} :
       Wallet!ChainOf(e) = "solana"
<1>1. ASSUME NEW e \in {"react ethereum", "vanilla ethereum", "node ethereum"}
      PROVE  Wallet!ChainOf(e) = "ethereum"
  BY <1>1 DEF Wallet!ChainOf
<1>2. ASSUME NEW e \in {"react solana", "solana hook", "vanilla solana", "node solana"}
      PROVE  Wallet!ChainOf(e) = "solana"
  <2> DEFINE A == {"react ethereum", "vanilla ethereum", "node ethereum"}
             B == {"react solana", "solana hook", "vanilla solana", "node solana"}
             R == Wallet!ChainOf(e)
  <2>1. /\ e \notin A /\ e \in B
        /\ e # "cosmos hook" /\ e # "sui hook" /\ e # "stellar hook" /\ e # "rpc"
    BY <1>2
  <2>2. R = CASE e \in A -> "ethereum"
              [] e \in B -> "solana"
              [] e = "cosmos hook" -> "cosmos"
              [] e = "sui hook" -> "sui"
              [] e = "stellar hook" -> "stellar"
              [] e = "rpc" -> "none"
    BY DEF Wallet!ChainOf
  <2> HIDE DEF A, B, R
  <2>3. R = "solana"
    BY ONLY <2>1, <2>2
  <2> QED
    BY <2>3 DEF R
<1> QED
  BY <1>1, <1>2

LEMMA RequestsOfEntries ==
  ASSUME NEW u
  PROVE  /\ Wallet!Requests("react ethereum", u) = {Wallet!ReactWallet("ethereum", u)}
         /\ Wallet!Requests("react solana", u) = {Wallet!ReactWallet("solana", u)}
         /\ Wallet!Requests("solana hook", u) = {Wallet!SolanaHook(u)}
         /\ Wallet!Requests("vanilla ethereum", u) = {Wallet!VanillaWallet}
         /\ Wallet!Requests("vanilla solana", u) = {}
         /\ Wallet!Requests("node ethereum", u) = {Wallet!NodeWallet("ethereum", u)}
         /\ Wallet!Requests("node solana", u) = {Wallet!NodeWallet("solana", u)}
<1>1. Wallet!Requests("react ethereum", u) = {Wallet!ReactWallet("ethereum", u)}
  BY DEF Wallet!Requests
<1>2. Wallet!Requests("react solana", u) = {Wallet!ReactWallet("solana", u)}
  BY DEF Wallet!Requests
<1>3. Wallet!Requests("solana hook", u) = {Wallet!SolanaHook(u)}
  BY DEF Wallet!Requests
<1>4. Wallet!Requests("vanilla ethereum", u) = {Wallet!VanillaWallet}
  BY DEF Wallet!Requests
<1>5. Wallet!Requests("vanilla solana", u) = {}
  BY DEF Wallet!Requests
<1>6. Wallet!Requests("node ethereum", u) = {Wallet!NodeWallet("ethereum", u)}
  BY DEF Wallet!Requests
<1>7. Wallet!Requests("node solana", u) = {Wallet!NodeWallet("solana", u)}
  BY DEF Wallet!Requests
<1> QED BY <1>1, <1>2, <1>3, <1>4, <1>5, <1>6, <1>7
LEMMA KeyRecords ==
  ASSUME NEW u
  PROVE /\ Wallet!ReactWallet("ethereum", u) = [spec |-> "ECC_SECG_P256K1", chainType |-> "ethereum", owner |-> u, scheme |-> "configured"]
        /\ Wallet!ReactWallet("solana", u) = [spec |-> "ECC_ED25519", chainType |-> "solana", owner |-> u, scheme |-> "configured"]
        /\ Wallet!SolanaHook(u) = [spec |-> "ECC_ED25519", chainType |-> "solana", owner |-> u, scheme |-> "configured"]
        /\ Wallet!VanillaWallet = [spec |-> "ECC_SECG_P256K1", chainType |-> "undefined", owner |-> "undefined", scheme |-> "server's"]
        /\ Wallet!NodeWallet("ethereum", u) = [spec |-> "ECC_SECG_P256K1", chainType |-> "ethereum", owner |-> u, scheme |-> "server's"]
        /\ Wallet!NodeWallet("solana", u) = [spec |-> "ECC_ED25519", chainType |-> "solana", owner |-> u, scheme |-> "server's"]
BY DEF Wallet!Request, Wallet!ReactWallet, Wallet!SolanaHook, Wallet!VanillaWallet, Wallet!NodeWallet,
       Wallet!KeySpecOf, Wallet!Nobody, Wallet!Secp256k1, Wallet!Ed25519
(* What a key is asked for says the chain, and whoever goes by the spec or *)
(* by the tags reads that chain.                                           *)
LEMMA AskedFor ==
  ASSUME NEW e \in PlainEntries, NEW u, NEW r \in Wallet!Requests(e, u)
  PROVE  /\ \/ Wallet!ChainOf(e) = "ethereum" /\ r.spec = Wallet!Secp256k1
            \/ Wallet!ChainOf(e) = "solana" /\ r.spec = Wallet!Ed25519
         /\ Wallet!TaggedChain(r) = Wallet!ChainOf(e)
         /\ r.owner = IF e = "vanilla ethereum" THEN Wallet!Nobody ELSE u
<1>1. CASE e = "react ethereum"
  <2>1. r = [spec |-> "ECC_SECG_P256K1", chainType |-> "ethereum",
             owner |-> u, scheme |-> "configured"]
    BY <1>1, RequestsOfEntries, KeyRecords
  <2>2. Wallet!ChainOf(e) = "ethereum"
    BY <1>1, ChainsOfEntries
  <2> QED
    BY <1>1, <2>1, <2>2
       DEF Wallet!TaggedChain, Wallet!Nobody, Wallet!Secp256k1, Wallet!Ed25519
<1>2. CASE e = "react solana"
  <2>1. r = [spec |-> "ECC_ED25519", chainType |-> "solana",
             owner |-> u, scheme |-> "configured"]
    BY <1>2, RequestsOfEntries, KeyRecords
  <2>2. Wallet!ChainOf(e) = "solana"
    BY <1>2, ChainsOfEntries
  <2> QED
    BY <1>2, <2>1, <2>2
       DEF Wallet!TaggedChain, Wallet!Nobody, Wallet!Secp256k1, Wallet!Ed25519
<1>3. CASE e = "solana hook"
  <2>1. r = [spec |-> "ECC_ED25519", chainType |-> "solana",
             owner |-> u, scheme |-> "configured"]
    BY <1>3, RequestsOfEntries, KeyRecords
  <2>2. Wallet!ChainOf(e) = "solana"
    BY <1>3, ChainsOfEntries
  <2> QED
    BY <1>3, <2>1, <2>2
       DEF Wallet!TaggedChain, Wallet!Nobody, Wallet!Secp256k1, Wallet!Ed25519
<1>4. CASE e = "vanilla ethereum"
  <2>1. r = [spec |-> "ECC_SECG_P256K1", chainType |-> "undefined",
             owner |-> "undefined", scheme |-> "server's"]
    BY <1>4, RequestsOfEntries, KeyRecords
  <2>2. Wallet!ChainOf(e) = "ethereum"
    BY <1>4, ChainsOfEntries
  <2> QED
    BY <1>4, <2>1, <2>2
       DEF Wallet!TaggedChain, Wallet!Nobody, Wallet!Secp256k1, Wallet!Ed25519
<1>5. CASE e = "node ethereum"
  <2>1. r = [spec |-> "ECC_SECG_P256K1", chainType |-> "ethereum",
             owner |-> u, scheme |-> "server's"]
    BY <1>5, RequestsOfEntries, KeyRecords
  <2>2. Wallet!ChainOf(e) = "ethereum"
    BY <1>5, ChainsOfEntries
  <2> QED
    BY <1>5, <2>1, <2>2
       DEF Wallet!TaggedChain, Wallet!Nobody, Wallet!Secp256k1, Wallet!Ed25519
<1>6. CASE e = "node solana"
  <2>1. r = [spec |-> "ECC_ED25519", chainType |-> "solana",
             owner |-> u, scheme |-> "server's"]
    BY <1>6, RequestsOfEntries, KeyRecords
  <2>2. Wallet!ChainOf(e) = "solana"
    BY <1>6, ChainsOfEntries
  <2> QED
    BY <1>6, <2>1, <2>2
       DEF Wallet!TaggedChain, Wallet!Nobody, Wallet!Secp256k1, Wallet!Ed25519
<1>7. e # "vanilla solana"
  BY RequestsOfEntries
<1> QED
  BY <1>1, <1>2, <1>3, <1>4, <1>5, <1>6, <1>7 DEF PlainEntries

(* Every form of a public key gives an address.                            *)
LEMMA Addresses ==
  ASSUME PlainWallets
  PROVE  /\ \A f \in Wallet!FormsOf(Wallet!Secp256k1) :
              Wallet!EvmAddress(Wallet!Secp256k1, f) = "0x"
         /\ \A f \in Wallet!FormsOf(Wallet!Ed25519) :
              Wallet!SolanaAddress(Wallet!Ed25519, f) = "base58"
BY DEF PlainWallets, Wallet!FormsOf, Wallet!EvmAddress, Wallet!SolanaAddress,
       Wallet!OnWeierstrass, Wallet!Secp256k1, Wallet!Ed25519, Wallet!P256,
       Wallet!StartsWith0x30, Wallet!RawKeyFromDER, Wallet!PointForms, Wallet!RawForms,
       Wallet!Stripped, Wallet!IsDEREncoded, Wallet!Is32Bytes, Wallet!Thrown

AddressOfChain(chain) == IF chain = "ethereum" THEN "0x" ELSE "base58"
OwnerTold(k, t) ==
  CASE t = "call" -> call[k].user
    [] t = "react" -> Wallet!Nobody
    [] t = "node" -> IF call[k].entry = "vanilla ethereum" THEN Wallet!Nobody ELSE call[k].user

(* What a teller may have said of a key.                                   *)
Truth(k, t) ==
  LET chain == Wallet!ChainOf(call[k].entry)
  IN  [chain |-> chain, address |-> AddressOfChain(chain), owner |-> OwnerTold(k, t)]

(* The inductive invariant: a key is one that its call asks for, an active *)
(* key has a form of its curve, and all that is said of it is the truth.   *)
WalletShape ==
  /\ call = [k \in Keys |-> call[k]] /\ key = [k \in Keys |-> key[k]]
  /\ \A k \in Keys :
       /\ call[k] = [entry |-> call[k].entry, user |-> call[k].user, pc |-> call[k].pc]
       /\ key[k] = [state |-> key[k].state, form |-> key[k].form, asked |-> key[k].asked]
  /\ told = [k \in Keys |-> [t \in Wallet!Tellers |-> told[k][t]]]
CallMade(k) ==
  /\ call[k].pc = "idle" => key[k].state = "none"
  /\ call[k].pc # "idle" => call[k].entry \in WalletEntries
AskedByCall(k) ==
  key[k].state # "none" => key[k].asked \in Wallet!Requests(call[k].entry, call[k].user)
FormFits(k) ==
  key[k].state = "active" => key[k].form \in Wallet!FormsOf(key[k].asked.spec)
ToldTruth(k) ==
  \A t \in Wallet!Tellers :
    \/ told[k][t] = Wallet!Silent
    \/ key[k].state = "active" /\ told[k][t] = Truth(k, t)
WalletFits(k) == CallMade(k) /\ AskedByCall(k) /\ FormFits(k) /\ ToldTruth(k)
WalletInv == WalletShape /\ \A k \in Keys : WalletFits(k)

LEMMA WalletInit == ASSUME Wallet!Init PROVE WalletInv
<1>1. /\ call = [k \in Keys |-> [entry |-> Wallet!Nobody, user |-> Wallet!Nobody, pc |-> "idle"]]
      /\ \E r : key = [k \in Keys |-> [state |-> "none", form |-> "der", asked |-> r]]
      /\ told = [k \in Keys |-> [t \in Wallet!Tellers |-> Wallet!Silent]]
  BY DEF Wallet!Init
<1>2. call = [k \in Keys |-> call[k]] /\ key = [k \in Keys |-> key[k]]
  BY <1>1
<1>3. \A k \in Keys :
        /\ call[k] = [entry |-> call[k].entry, user |-> call[k].user, pc |-> call[k].pc]
        /\ key[k] = [state |-> key[k].state, form |-> key[k].form, asked |-> key[k].asked]
  BY <1>1
<1>4. told = [k \in Keys |-> [t \in Wallet!Tellers |-> told[k][t]]]
  <2>1. told = [k \in Keys |-> told[k]]
    BY <1>1
  <2>2. \A k \in Keys : told[k] = [t \in Wallet!Tellers |-> told[k][t]]
    BY <1>1
  <2> QED
    BY <2>1, <2>2
<1>5. WalletShape
  BY <1>2, <1>3, <1>4 DEF WalletShape
<1>6. \A k \in Keys : WalletFits(k)
  BY <1>1 DEF WalletFits, CallMade, AskedByCall, FormFits, ToldTruth
<1> QED
  BY <1>5, <1>6 DEF WalletInv

(* An active key's addresses, as each client derives them.                 *)
LEMMA ActiveKey ==
  ASSUME PlainWallets, WalletInv, NEW k \in Keys, key[k].state = "active"
  PROVE  LET chain == Wallet!ChainOf(call[k].entry)
             asked == key[k].asked
             form == key[k].form
         IN  /\ \/ chain = "ethereum" /\ asked.spec = Wallet!Secp256k1
                     /\ Wallet!EvmAddress(asked.spec, form) = "0x"
                \/ chain = "solana" /\ asked.spec = Wallet!Ed25519
                     /\ Wallet!SolanaAddress(asked.spec, form) = "base58"
             /\ Wallet!TaggedChain(asked) = chain
             /\ asked.owner = IF call[k].entry = "vanilla ethereum" THEN Wallet!Nobody
                              ELSE call[k].user
             /\ Wallet!AddressOn(chain, asked.spec, form) = AddressOfChain(chain)
<1>1. call[k].entry \in PlainEntries
  BY DEF PlainWallets, WalletInv, WalletFits, CallMade
<1>2. key[k].asked \in Wallet!Requests(call[k].entry, call[k].user)
  BY DEF WalletInv, WalletFits, AskedByCall
<1>3. key[k].form \in Wallet!FormsOf(key[k].asked.spec)
  BY DEF WalletInv, WalletFits, FormFits
<1> DEFINE asked == key[k].asked
           chain == Wallet!ChainOf(call[k].entry)
<1>4. /\ \/ chain = "ethereum" /\ asked.spec = Wallet!Secp256k1
         \/ chain = "solana" /\ asked.spec = Wallet!Ed25519
      /\ Wallet!TaggedChain(asked) = chain
      /\ asked.owner = IF call[k].entry = "vanilla ethereum" THEN Wallet!Nobody
                       ELSE call[k].user
  <2> DEFINE e == call[k].entry
             u == call[k].user
  <2>1. e \in PlainEntries /\ asked \in Wallet!Requests(e, u)
    BY <1>1, <1>2
  <2> HIDE DEF e, u, asked
  <2>2. /\ \/ Wallet!ChainOf(e) = "ethereum" /\ asked.spec = Wallet!Secp256k1
           \/ Wallet!ChainOf(e) = "solana" /\ asked.spec = Wallet!Ed25519
        /\ Wallet!TaggedChain(asked) = Wallet!ChainOf(e)
        /\ asked.owner = IF e = "vanilla ethereum" THEN Wallet!Nobody ELSE u
    BY <2>1, AskedFor
  <2> QED
    BY <2>2 DEF e, u
<1>5. CASE chain = "ethereum"
  <2>1. asked.spec = Wallet!Secp256k1
    BY <1>4, <1>5
  <2>2. Wallet!EvmAddress(asked.spec, key[k].form) = "0x"
    BY <1>3, <2>1, Addresses
  <2>3. Wallet!AddressOn("ethereum", asked.spec, key[k].form) = "0x"
    BY <2>2 DEF Wallet!AddressOn
  <2> QED
    BY <1>4, <1>5, <2>1, <2>2, <2>3 DEF AddressOfChain
<1>6. CASE chain = "solana"
  <2>1. asked.spec = Wallet!Ed25519
    BY <1>4, <1>6 DEF Wallet!Secp256k1, Wallet!Ed25519
  <2>2. Wallet!SolanaAddress(asked.spec, key[k].form) = "base58"
    BY <1>3, <2>1, Addresses
  <2>3. Wallet!AddressOn("solana", asked.spec, key[k].form) = "base58"
    BY <2>2 DEF Wallet!AddressOn
  <2> QED
    BY <1>4, <1>6, <2>1, <2>2, <2>3 DEF AddressOfChain
<1> QED
  BY <1>4, <1>5, <1>6

(* What is told of an active key.                                          *)
LEMMA Telling ==
  ASSUME WalletInv, NEW k \in Keys, key[k].state = "active", NEW t \in Wallet!Tellers,
         Wallet!Tell(k, t, Truth(k, t).chain, Truth(k, t).address, Truth(k, t).owner),
         key' = key, \A j \in Keys : call'[j].entry = call[j].entry /\ call'[j].user = call[j].user
  PROVE  /\ told' = [j \in Keys |-> [s \in Wallet!Tellers |-> told'[j][s]]]
         /\ \A j \in Keys : ToldTruth(j)'
<1>1. told' = [told EXCEPT ![k][t] = Truth(k, t)]
  BY DEF Wallet!Tell, Truth
<1>2. \A j \in Keys, s \in Wallet!Tellers :
        told'[j][s] = IF j = k /\ s = t THEN Truth(k, t) ELSE told[j][s]
  BY <1>1 DEF WalletInv, WalletShape
<1>3. \A j \in Keys, s \in Wallet!Tellers : Truth(j, s)' = Truth(j, s)
  BY DEF Truth, OwnerTold
<1>4. told' = [j \in Keys |-> [s \in Wallet!Tellers |-> told'[j][s]]]
  <2>1. told = [j \in Keys |-> told[j]]
        /\ \A j \in Keys : told[j] = [s \in Wallet!Tellers |-> told[j][s]]
    BY DEF WalletInv, WalletShape
  <2>2. told' = [j \in Keys |-> told'[j]]
    BY <1>1, <2>1
  <2>3. \A j \in Keys : told'[j] = [s \in Wallet!Tellers |-> told'[j][s]]
    BY <1>1, <2>1
  <2> QED
    BY <2>2, <2>3
<1> QED
  BY <1>2, <1>3, <1>4 DEF WalletInv, WalletFits, ToldTruth

(* A step on one key leaves the others as they are.                        *)
Elsewhere(k) ==
  \A j \in Keys \ {k} : call'[j] = call[j] /\ key'[j] = key[j] /\ told'[j] = told[j]

LEMMA OthersFit ==
  ASSUME WalletInv, NEW k \in Keys, Elsewhere(k)
  PROVE  \A j \in Keys \ {k} : WalletFits(j)'
<1> SUFFICES ASSUME NEW j \in Keys \ {k} PROVE WalletFits(j)'
  OBVIOUS
<1>1. call'[j] = call[j] /\ key'[j] = key[j] /\ told'[j] = told[j]
  BY DEF Elsewhere
<1>2. WalletFits(j)
  BY DEF WalletInv
<1>3. \A t : Truth(j, t)' = Truth(j, t)
  BY <1>1 DEF Truth, OwnerTold
<1> QED
  BY <1>1, <1>2, <1>3 DEF WalletFits, CallMade, AskedByCall, FormFits, ToldTruth

(* Nothing is told of a key before it is active, and no key precedes the   *)
(* call.                                                                   *)
LEMMA NotYet ==
  ASSUME WalletInv, NEW k \in Keys
  PROVE  /\ key[k].state # "active" => \A t \in Wallet!Tellers : told[k][t] = Wallet!Silent
         /\ call[k].pc = "idle" => key[k].state = "none"
BY DEF WalletInv, WalletFits, ToldTruth, CallMade

LEMMA ShapeOf ==
  ASSUME WalletInv
  PROVE  /\ call = [k \in Keys |-> call[k]] /\ key = [k \in Keys |-> key[k]]
         /\ \A k \in Keys :
              /\ call[k] = [entry |-> call[k].entry, user |-> call[k].user, pc |-> call[k].pc]
              /\ key[k] = [state |-> key[k].state, form |-> key[k].form, asked |-> key[k].asked]
         /\ told = [k \in Keys |-> [t \in Wallet!Tellers |-> told[k][t]]]
BY DEF WalletInv, WalletShape

LEMMA CreateStep ==
  ASSUME WalletInv, NEW k \in Keys, NEW e \in WalletEntries, NEW u,
         Wallet!Create(k, e, u)
  PROVE  WalletInv'
<1>1. PICK r \in Wallet!Requests(e, u) :
        key' = [key EXCEPT ![k] = [key[k] EXCEPT !.state = "requested", !.asked = r]]
  BY DEF Wallet!Create
<1>2. /\ call[k].pc = "idle" /\ told' = told
      /\ call' = [call EXCEPT ![k] = [entry |-> e, user |-> u, pc |-> "asking"]]
  BY DEF Wallet!Create
<1>3. key'[k] = [state |-> "requested", form |-> key[k].form, asked |-> r]
  <2>1. key[k] = [state |-> key[k].state, form |-> key[k].form, asked |-> key[k].asked]
        /\ key = [j \in Keys |-> key[j]]
    BY ShapeOf
  <2>2. key'[k] = [key[k] EXCEPT !.state = "requested", !.asked = r]
    BY <1>1, <2>1
  <2> QED
    BY <2>1, <2>2
<1>4. WalletShape'
  BY <1>1, <1>2, <1>3, ShapeOf DEF WalletShape
<1>5. Elsewhere(k)
  BY <1>1, <1>2, ShapeOf DEF Elsewhere
<1>6. call'[k] = [entry |-> e, user |-> u, pc |-> "asking"]
  BY <1>2, ShapeOf
<1>7. WalletFits(k)'
  BY <1>2, <1>3, <1>6, NotYet DEF WalletFits, CallMade, AskedByCall, FormFits, ToldTruth
<1> QED
  BY <1>4, <1>5, <1>7, OthersFit DEF WalletInv

LEMMA CallStep ==
  ASSUME WalletInv, NEW k \in Keys, UNCHANGED <<key, told>>,
         NEW c, call' = [call EXCEPT ![k] = c],
         c = [entry |-> c.entry, user |-> c.user, pc |-> c.pc], c.pc # "idle",
         \/ call[k].pc # "idle" /\ c.entry = call[k].entry /\ c.user = call[k].user
         \/ call[k].pc = "idle" /\ c.entry \in WalletEntries
  PROVE  WalletInv'
<1>1. WalletShape'
  BY ShapeOf DEF WalletShape
<1>2. Elsewhere(k)
  BY ShapeOf DEF Elsewhere
<1>3. call'[k] = c
  BY ShapeOf
<1>4. WalletFits(k)
  BY DEF WalletInv
<1>5. ASSUME call[k].pc = "idle" PROVE WalletFits(k)'
  BY <1>3, <1>5, NotYet DEF WalletFits, CallMade, AskedByCall, FormFits, ToldTruth
<1>6. ASSUME call[k].pc # "idle", c.entry = call[k].entry, c.user = call[k].user
      PROVE  WalletFits(k)'
  <2>1. \A t : Truth(k, t)' = Truth(k, t)
    BY <1>3, <1>6 DEF Truth, OwnerTold
  <2> QED
    BY <1>3, <1>4, <1>6, <2>1 DEF WalletFits, CallMade, AskedByCall, FormFits, ToldTruth
<1> QED
  BY <1>1, <1>2, <1>5, <1>6, OthersFit DEF WalletInv

LEMMA KeyMadeStep ==
  ASSUME WalletInv, NEW k \in Keys, Wallet!KeyMade(k) PROVE WalletInv'
<1>1. /\ key[k].state = "requested" /\ call' = call /\ told' = told
      /\ key' = [key EXCEPT ![k].state = "pending"]
  BY DEF Wallet!KeyMade
<1>2. key'[k] = [state |-> "pending", form |-> key[k].form, asked |-> key[k].asked]
  BY <1>1, ShapeOf
<1>3. WalletShape'
  BY <1>1, <1>2, ShapeOf DEF WalletShape
<1>4. Elsewhere(k)
  BY <1>1, ShapeOf DEF Elsewhere
<1>5. WalletFits(k)
  BY DEF WalletInv
<1>6. WalletFits(k)'
  BY <1>1, <1>2, <1>5, NotYet DEF WalletFits, CallMade, AskedByCall, FormFits, ToldTruth
<1> QED
  BY <1>3, <1>4, <1>6, OthersFit DEF WalletInv

LEMMA DkgEndsStep ==
  ASSUME WalletInv, NEW k \in Keys, Wallet!DkgEnds(k) PROVE WalletInv'
<1>1. PICK f \in Wallet!FormsOf(key[k].asked.spec) :
        key' = [key EXCEPT ![k] = [key[k] EXCEPT !.state = "active", !.form = f]]
  BY DEF Wallet!DkgEnds
<1>2. key[k].state = "pending" /\ call' = call /\ told' = told
  BY DEF Wallet!DkgEnds
<1>3. key'[k] = [state |-> "active", form |-> f, asked |-> key[k].asked]
  <2>1. key[k] = [state |-> key[k].state, form |-> key[k].form, asked |-> key[k].asked]
        /\ key = [j \in Keys |-> key[j]]
    BY ShapeOf
  <2>2. key'[k] = [key[k] EXCEPT !.state = "active", !.form = f]
    BY <1>1, <2>1
  <2> QED
    BY <2>1, <2>2
<1>4. WalletShape'
  BY <1>1, <1>2, <1>3, ShapeOf DEF WalletShape
<1>5. Elsewhere(k)
  BY <1>1, <1>2, ShapeOf DEF Elsewhere
<1>6. WalletFits(k)
  BY DEF WalletInv
<1>7. WalletFits(k)'
  BY <1>2, <1>3, <1>6, NotYet DEF WalletFits, CallMade, AskedByCall, FormFits, ToldTruth
<1> QED
  BY <1>4, <1>5, <1>7, OthersFit DEF WalletInv

LEMMA AnsweredStep ==
  ASSUME WalletInv, NEW k \in Keys, Wallet!Answered(k) \/ Wallet!CallThrows(k)
  PROVE  WalletInv'
<1>1. PICK pc : pc # "idle" /\ call' = [call EXCEPT ![k].pc = pc]
  BY DEF Wallet!Answered, Wallet!CallThrows
<1>2. call[k].pc # "idle" /\ UNCHANGED <<key, told>>
  BY DEF Wallet!Answered, Wallet!CallThrows
<1> DEFINE c == [entry |-> call[k].entry, user |-> call[k].user, pc |-> pc]
<1>3. call' = [call EXCEPT ![k] = c]
  <2>1. call[k] = [entry |-> call[k].entry, user |-> call[k].user, pc |-> call[k].pc]
    BY ShapeOf
  <2>2. [call[k] EXCEPT !.pc = pc] = c
    BY <2>1
  <2>3. call' = [call EXCEPT ![k] = [call[k] EXCEPT !.pc = pc]]
    BY <1>1
  <2> QED
    BY <2>2, <2>3
<1>4. /\ c = [entry |-> c.entry, user |-> c.user, pc |-> c.pc] /\ c.pc # "idle"
      /\ c.entry = call[k].entry /\ c.user = call[k].user
  BY <1>1
<1> HIDE DEF c
<1> QED
  BY <1>2, <1>3, <1>4, CallStep

(* What is told changes nothing else.                                      *)
LEMMA ToldStep ==
  ASSUME WalletInv, NEW k \in Keys, key[k].state = "active", NEW t \in Wallet!Tellers,
         Wallet!Tell(k, t, Truth(k, t).chain, Truth(k, t).address, Truth(k, t).owner),
         UNCHANGED <<call, key>>
  PROVE  WalletInv'
<1>1. /\ told' = [j \in Keys |-> [s \in Wallet!Tellers |-> told'[j][s]]]
      /\ \A j \in Keys : ToldTruth(j)'
  BY Telling
<1>2. WalletShape'
  BY <1>1, ShapeOf DEF WalletShape
<1>3. ASSUME NEW j \in Keys PROVE WalletFits(j)'
  BY <1>1 DEF WalletInv, WalletFits, CallMade, AskedByCall, FormFits
<1> QED
  BY <1>2, <1>3 DEF WalletInv

(* waitForPublicKey, and the two clients that know the key only.           *)
LEMMA ReturnedStep ==
  ASSUME PlainWallets, WalletInv, NEW k \in Keys, Wallet!WalletReturned(k)
  PROVE  WalletInv'
<1> DEFINE chain == Wallet!ChainOf(call[k].entry)
           address == Wallet!AddressOn(chain, key[k].asked.spec, key[k].form)
           pc == IF address = Wallet!Thrown THEN "threw" ELSE "returned"
           c == [entry |-> call[k].entry, user |-> call[k].user, pc |-> pc]
<1>1. /\ call[k].pc = "waiting" /\ key[k].state = "active" /\ key' = key
      /\ call' = [call EXCEPT ![k].pc = pc]
      /\ Wallet!Tell(k, "call", chain, address, call[k].user)
  BY DEF Wallet!WalletReturned
<1>2. address = AddressOfChain(chain)
  BY <1>1, ActiveKey
<1>3. /\ Truth(k, "call").chain = chain /\ Truth(k, "call").address = address
      /\ Truth(k, "call").owner = call[k].user
  BY <1>2 DEF Truth, OwnerTold
<1>4. call' = [call EXCEPT ![k] = c]
  <2>1. call[k] = [entry |-> call[k].entry, user |-> call[k].user, pc |-> call[k].pc]
    BY ShapeOf
  <2>2. [call[k] EXCEPT !.pc = pc] = c
    BY <2>1
  <2>3. call' = [call EXCEPT ![k] = [call[k] EXCEPT !.pc = pc]]
    BY <1>1
  <2> QED
    BY <2>2, <2>3
<1>5. \A j \in Keys : call'[j].entry = call[j].entry /\ call'[j].user = call[j].user
  BY <1>4, ShapeOf
<1>6. "call" \in Wallet!Tellers
  BY DEF Wallet!Tellers
<1>7. Wallet!Tell(k, "call", Truth(k, "call").chain, Truth(k, "call").address,
                  Truth(k, "call").owner)
  BY <1>1, <1>3
<1>8. /\ told' = [j \in Keys |-> [s \in Wallet!Tellers |-> told'[j][s]]]
      /\ \A j \in Keys : ToldTruth(j)'
  BY <1>1, <1>5, <1>6, <1>7, Telling
<1>9. WalletShape'
  BY <1>1, <1>4, <1>8, ShapeOf DEF WalletShape
<1>10. pc # "idle"
  OBVIOUS
<1>11. ASSUME NEW j \in Keys PROVE WalletFits(j)'
  <2>1. CallMade(j)'
    BY <1>1, <1>4, <1>10, ShapeOf DEF WalletInv, WalletFits, CallMade
  <2> QED
    BY <1>1, <1>5, <1>8, <2>1 DEF WalletInv, WalletFits, AskedByCall, FormFits
<1> QED
  BY <1>9, <1>11 DEF WalletInv

LEMMA ProviderStep ==
  ASSUME PlainWallets, WalletInv, NEW k \in Keys, Wallet!LoadedBySpec(k)
  PROVE  WalletInv'
<1> DEFINE chain == Wallet!ChainOf(call[k].entry)
           asked == key[k].asked
           form == key[k].form
<1>1. key[k].state = "active" /\ UNCHANGED <<call, key>> /\ "react" \in Wallet!Tellers
  BY DEF Wallet!LoadedBySpec, Wallet!Tellers
<1>2. \/ /\ chain = "ethereum" /\ asked.spec = Wallet!Secp256k1
         /\ Wallet!EvmAddress(asked.spec, form) = "0x"
      \/ /\ chain = "solana" /\ asked.spec = Wallet!Ed25519
         /\ Wallet!SolanaAddress(asked.spec, form) = "base58"
  BY <1>1, ActiveKey
<1>3. Wallet!Tell(k, "react", chain, AddressOfChain(chain), Wallet!Nobody)
  <2>1. CASE /\ chain = "ethereum" /\ asked.spec = Wallet!Secp256k1
             /\ Wallet!EvmAddress(asked.spec, form) = "0x"
    <3>1. Wallet!Tell(k, "react", "ethereum", Wallet!EvmAddress(asked.spec, form),
                      Wallet!Nobody)
      BY <2>1 DEF Wallet!LoadedBySpec, Wallet!Secp256k1, Wallet!Ed25519, Wallet!Ed448
    <3>2. AddressOfChain(chain) = "0x"
      BY <2>1 DEF AddressOfChain
    <3> QED
      BY <2>1, <3>1, <3>2
  <2>2. CASE /\ chain = "solana" /\ asked.spec = Wallet!Ed25519
             /\ Wallet!SolanaAddress(asked.spec, form) = "base58"
    <3>1. Wallet!Tell(k, "react", "solana", Wallet!SolanaAddress(asked.spec, form),
                      Wallet!Nobody)
      BY <2>2 DEF Wallet!LoadedBySpec, Wallet!Secp256k1, Wallet!Ed25519, Wallet!Ed448,
                  Wallet!P256
    <3>2. AddressOfChain(chain) = "base58"
      BY <2>2 DEF AddressOfChain
    <3> QED
      BY <2>2, <3>1, <3>2
  <2> QED
    BY <1>2, <2>1, <2>2
<1>4. /\ Truth(k, "react").chain = chain /\ Truth(k, "react").owner = Wallet!Nobody
      /\ Truth(k, "react").address = AddressOfChain(chain)
  BY DEF Truth, OwnerTold
<1> QED
  BY <1>1, <1>3, <1>4, ToldStep

LEMMA TagsStep ==
  ASSUME PlainWallets, WalletInv, NEW k \in Keys, Wallet!DescribedByTags(k)
  PROVE  WalletInv'
<1> DEFINE chain == Wallet!ChainOf(call[k].entry)
           asked == key[k].asked
           form == key[k].form
<1>1. key[k].state = "active" /\ UNCHANGED <<call, key>> /\ "node" \in Wallet!Tellers
  BY DEF Wallet!DescribedByTags, Wallet!Tellers
<1>2. /\ Wallet!TaggedChain(asked) = chain
      /\ asked.owner = IF call[k].entry = "vanilla ethereum" THEN Wallet!Nobody
                       ELSE call[k].user
      /\ \/ /\ chain = "ethereum"
            /\ Wallet!EvmAddress(asked.spec, form) = "0x"
         \/ /\ chain = "solana"
            /\ Wallet!SolanaAddress(asked.spec, form) = "base58"
  BY <1>1, ActiveKey
<1>3. Wallet!Tell(k, "node", Wallet!TaggedChain(asked),
                  IF Wallet!TaggedChain(asked) = "solana"
                  THEN Wallet!SolanaAddress(asked.spec, form)
                  ELSE Wallet!EvmAddress(asked.spec, form), asked.owner)
  BY DEF Wallet!DescribedByTags
<1>4. (IF chain = "solana" THEN Wallet!SolanaAddress(asked.spec, form)
       ELSE Wallet!EvmAddress(asked.spec, form)) = AddressOfChain(chain)
  BY <1>2 DEF AddressOfChain
<1>5. Wallet!Tell(k, "node", chain, AddressOfChain(chain), asked.owner)
  BY <1>2, <1>3, <1>4
<1>6. /\ Truth(k, "node").chain = chain /\ Truth(k, "node").owner = asked.owner
      /\ Truth(k, "node").address = AddressOfChain(chain)
  BY <1>2 DEF Truth, OwnerTold
<1> QED
  BY <1>1, <1>5, <1>6, ToldStep

LEMMA RefuseStep ==
  ASSUME WalletInv, NEW k \in Keys, NEW e \in WalletEntries, NEW u,
         Wallet!Refuse(k, e, u)
  PROVE  WalletInv'
<1> DEFINE c == [entry |-> e, user |-> u, pc |-> "threw"]
<1>1. /\ call[k].pc = "idle" /\ UNCHANGED <<key, told>> /\ call' = [call EXCEPT ![k] = c]
  BY DEF Wallet!Refuse
<1>2. /\ c = [entry |-> c.entry, user |-> c.user, pc |-> c.pc] /\ c.pc # "idle"
      /\ c.entry \in WalletEntries
  OBVIOUS
<1> HIDE DEF c
<1> QED
  BY <1>1, <1>2, CallStep

LEMMA WalletStep ==
  ASSUME PlainWallets, WalletInv, [Wallet!Next]_walletVars
  PROVE  WalletInv'
<1>1. CASE UNCHANGED walletVars
  <2>1. call' = call /\ key' = key /\ told' = told
    BY <1>1 DEF walletVars
  <2>2. WalletShape'
    BY <2>1, ShapeOf DEF WalletShape
  <2>3. \A k, t : Truth(k, t)' = Truth(k, t)
    BY <2>1 DEF Truth, OwnerTold
  <2>4. \A k \in Keys : WalletFits(k)'
    BY <2>1, <2>3 DEF WalletInv, WalletFits, CallMade, AskedByCall, FormFits, ToldTruth
  <2> QED
    BY <2>2, <2>4 DEF WalletInv
<1>2. CASE Wallet!Next
  <2>1. PICK k \in Keys :
          \/ \E e \in WalletEntries, u \in Users \cup {Wallet!Nobody} :
               Wallet!Create(k, e, u) \/ Wallet!Refuse(k, e, u)
          \/ Wallet!KeyMade(k) \/ Wallet!DkgEnds(k)
          \/ Wallet!Answered(k) \/ Wallet!CallThrows(k) \/ Wallet!WalletReturned(k)
          \/ Wallet!LoadedBySpec(k) \/ Wallet!DescribedByTags(k)
    BY <1>2 DEF Wallet!Next
  <2>2. ASSUME NEW e \in WalletEntries, NEW u, Wallet!Create(k, e, u) PROVE WalletInv'
    BY <2>2, CreateStep
  <2>3. ASSUME NEW e \in WalletEntries, NEW u, Wallet!Refuse(k, e, u) PROVE WalletInv'
    BY <2>3, RefuseStep
  <2>4. CASE Wallet!KeyMade(k)
    BY <2>4, KeyMadeStep
  <2>5. CASE Wallet!DkgEnds(k)
    BY <2>5, DkgEndsStep
  <2>6. CASE Wallet!Answered(k) \/ Wallet!CallThrows(k)
    BY <2>6, AnsweredStep
  <2>7. CASE Wallet!WalletReturned(k)
    BY <2>7, ReturnedStep
  <2>8. CASE Wallet!LoadedBySpec(k)
    BY <2>8, ProviderStep
  <2>9. CASE Wallet!DescribedByTags(k)
    BY <2>9, TagsStep
  <2> QED
    BY <2>1, <2>2, <2>3, <2>4, <2>5, <2>6, <2>7, <2>8, <2>9
<1> QED
  BY <1>1, <1>2

LEMMA WalletsStayTrue == ASSUME PlainWallets PROVE PartSpec => []WalletInv
<1>1. PartInit => WalletInv
  BY WalletInit DEF PartInit
<1>2. WalletInv /\ [PartNext]_<<part, vars, routingVars, walletVars>> => WalletInv'
  <2> SUFFICES ASSUME WalletInv, [PartNext]_<<part, vars, routingVars, walletVars>>
               PROVE  WalletInv'
    OBVIOUS
  <2>1. [Wallet!Next]_walletVars
    BY DEF PartNext
  <2> QED
    BY <2>1, WalletStep
<1> QED
  BY <1>1, <1>2, PTL DEF PartSpec

(* What the truth says.                                                    *)
LEMMA TruthSays ==
  ASSUME NEW k, NEW t
  PROVE  /\ Truth(k, t).chain = Wallet!ChainOf(call[k].entry)
         /\ Truth(k, t).address = AddressOfChain(Wallet!ChainOf(call[k].entry))
         /\ Truth(k, t).owner = OwnerTold(k, t)
BY DEF Truth

(* All that is told of a key is one wallet: the chain the call was made    *)
(* for, one address, and its owner, whoever tells and in whatever order    *)
(* calls, keys and clients take their steps; for the entry points and the  *)
(* forms of keys of PlainWallets, and any number of keys.                  *)
THEOREM WalletsAreOne == ASSUME PlainWallets PROVE PartSpec => []OneWallet
<1>1. ASSUME WalletInv PROVE OneWallet
  <2>1. \A k \in Keys, t \in Wallet!Tellers :
          Wallet!Told(k, t) => told[k][t] = Truth(k, t)
    BY <1>1 DEF WalletInv, WalletFits, ToldTruth, Wallet!Told
  <2>2. Wallet!OneChainPerWallet
    <3>1. ASSUME NEW k \in Keys, NEW t \in Wallet!Tellers, Wallet!Told(k, t)
          PROVE  told[k][t].chain = Wallet!ChainOf(call[k].entry)
      BY <2>1, <3>1, TruthSays
    <3> QED
      BY <3>1 DEF Wallet!OneChainPerWallet
  <2>3. Wallet!SameAddress
    <3>1. ASSUME NEW k \in Keys, NEW t \in Wallet!Tellers, Wallet!Told(k, t)
          PROVE  told[k][t].address = AddressOfChain(Wallet!ChainOf(call[k].entry))
      BY <2>1, <3>1, TruthSays
    <3> QED
      BY <3>1 DEF Wallet!SameAddress
  <2>4. Wallet!OwnersAreKept
    <3>1. "node" \in Wallet!Tellers
      BY DEF Wallet!Tellers
    <3>2. \A k : Truth(k, "node").owner =
                    IF call[k].entry = "vanilla ethereum" THEN Wallet!Nobody
                    ELSE call[k].user
      BY DEF Truth, OwnerTold
    <3> QED
      BY <2>1, <3>1, <3>2 DEF Wallet!OwnersAreKept
  <2> QED
    BY <2>2, <2>3, <2>4 DEF OneWallet, Wallet!OneWallet
<1> QED
  BY <1>1, WalletsStayTrue, PTL

(* No client leaves a finished wallet out: an address can be derived of    *)
(* every key that PlainWallets lets an entry point ask for.                *)
THEOREM WalletsAreFound == ASSUME PlainWallets PROVE PartSpec => []NoWalletLeftOut
<1>1. ASSUME WalletInv PROVE NoWalletLeftOut
  <2>1. \A k : AddressOfChain(k) # Wallet!Thrown
    BY DEF AddressOfChain, Wallet!Thrown
  <2>2. Wallet!Silent.address # Wallet!Thrown
    BY DEF Wallet!Silent, Wallet!Nobody, Wallet!Thrown
  <2>3. \A k \in Keys, t \in Wallet!Tellers :
          told[k][t] = Wallet!Silent \/ told[k][t] = Truth(k, t)
    BY <1>1 DEF WalletInv, WalletFits, ToldTruth
  <2>4. ASSUME NEW k \in Keys, NEW t \in Wallet!Tellers
        PROVE  told[k][t].address # Wallet!Thrown
    BY <2>1, <2>2, <2>3, TruthSays
  <2> QED
    BY <2>4 DEF NoWalletLeftOut, Wallet!NoWalletLeftOut
<1> QED
  BY <1>1, WalletsStayTrue, PTL

===============================================================================
