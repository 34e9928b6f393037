------------------------------ MODULE RsaKeyGen ------------------------------
(***************************************************************************)
(* A CreateKey task of RSASession: the eight phases that rsa_nparty.go     *)
(* runs behind rsa_dkg_init and rsa_dkg_round, one phase per server round. *)
(*                                                                         *)
(* A poll feeds the contributions of the round one by one to the session,  *)
(* which handles each by ITS phase, whatever phase the message is of, and  *)
(* submits only the output of the last one.  The session moves on before   *)
(* the submission is known to have arrived, and nothing repeats an output; *)
(* so a lost UpdateTask puts a party out of step with what it has sent.    *)
(*                                                                         *)
(* A message is [phase, to]: to[q] is what its payload field gives party   *)
(* q, 0 where the field is absent (encoding/json drops empty byte slices,  *)
(* so a zero and an absent field are the same).  A Paillier key is the     *)
(* ordinal of its draw, an encryption the key it was made for, and the     *)
(* dealer's Shamir evaluation the lambda its secret inverts.  The dealer   *)
(* (party id 1) holds two small primes; the others hold zeros.             *)
(***************************************************************************)
EXTENDS TaskRounds, FiniteSetsExt, Functions

CONSTANTS
  Dealer,  \* the sidecar with party id 1
  P, Q, E, \* its primes, and the public exponent
  Garbage  \* what a decryption under the wrong key may give; -1 is an error

DealerAssumption ==
  Dealer \in Party /\ {P, Q, E} \subseteq Nat \ {0, 1} /\ Garbage \subseteq Int

VARIABLES
  sess,       \* the NPartyRSADKGSession in the Go session cache
  inited,     \* RSASession.initializedDkgTasks
  completed,  \* RSASession.completedKeyShares
  store,      \* the persisted key share
  draws       \* how many sessions each sidecar has begun

goVars == <<sess, inited, completed, draws>>
vars == <<roundsVars, goVars, store>>

None == 0       \* phase of a session that is not in the cache
Crashed == 9    \* the Go runtime has panicked: every later call throws
NoKey == [n |-> 0, lambda |-> 0]
Zeros == [q \in Party |-> 0]
NoSession == [phase |-> None, pk |-> Zeros, cross |-> [q \in Party |-> -1],
              back |-> {}, evals |-> Zeros, n |-> 0, lambda |-> 0,
              heard |-> [q \in Party |-> [k \in 1 .. 8 |-> -1]]]
Data(phase, to) == [kind |-> "data", phase |-> phase, to |-> to]
ToAll(phase, body) == Data(phase, [q \in Party |-> body])

Init ==
  /\ InitRounds
  /\ sess = [p \in Party |-> NoSession]
  /\ inited = {}
  /\ completed = [p \in Party |-> NoKey]
  /\ store = [p \in Party |-> NoKey]
  /\ draws = [p \in Party |-> 0]

-------------------------------------------------------------------------------
(* The message a session sends when it enters a phase, and the one it      *)
(* sends while it waits there, which names the phase and carries nothing.  *)
Sum(terms) == MapThenSumSet(LAMBDA q : terms[q], Party)
NContribution(p, s) ==
  (IF p = Dealer THEN P * Q ELSE 0)
    + Sum([s.cross EXCEPT ![p] = 0])
LambdaContribution(p, s) == IF p = Dealer THEN s.n + 1 - P - Q ELSE 0
Absolute(i) == IF i < 0 THEN -i ELSE i
EncryptedShares(p, s) == Data(2, [s.pk EXCEPT ![p] = 0])
CrossProducts(p, s) == Data(3, [s.cross EXCEPT ![p] = 0])
Biprimality == ToAll(5, 1)        \* the result of the trial division is not used
Evaluations(p, s) == ToAll(7, s.evals[p])
Verification == ToAll(8, 1)
Enters(p, s) ==
  CASE s.phase = 2 -> EncryptedShares(p, s)
    [] s.phase = 3 -> CrossProducts(p, s)
    [] s.phase = 4 -> ToAll(4, NContribution(p, s))
    [] s.phase = 6 -> ToAll(6, Absolute(LambdaContribution(p, s)))
    [] s.phase = 7 -> Evaluations(p, s)
    [] OTHER -> IF s.phase = 5 THEN Biprimality ELSE Verification
Waits(s) == ToAll(s.phase, 0)

(* What phases 4 and 6 add up: the sum over the parties heard from in this *)
(* phase, where the sender at hand counts as heard from, with nothing.     *)
Terms(p, s, from, own) ==
  [q \in Party |-> IF q = p THEN own
                   ELSE IF q = from /\ s.heard[q][s.phase] < 0 THEN 0
                   ELSE s.heard[q][s.phase]]
AllIn(p, terms) == \A q \in Party : terms[q] >= 0

HasInverse(e, modulus) == \E d \in 1 .. modulus : (e * d) % modulus = 1 % modulus

-------------------------------------------------------------------------------
(* ProcessNPartyRSADKGRound by the session's phase.  Each gives the        *)
(* session afterwards; the message is already in ReceivedMessages.         *)
Phase1(p, s, from, m) ==
  LET pk == IF m.phase = 1 /\ m.to[p] # 0 THEN [s.pk EXCEPT ![from] = m.to[p]] ELSE s.pk
  IN  [s EXCEPT !.pk = pk, !.phase = IF 0 \in Range(pk) THEN 1 ELSE 2]

Decrypts(p, s, body, garbage) ==
  IF body = s.pk[p] THEN 0 ELSE IF p = Dealer \/ garbage = -1 THEN garbage ELSE 0
Phase2(p, s, from, m, garbage) ==
  LET cross == IF m.phase = 2 /\ m.to[p] # 0
               THEN [s.cross EXCEPT ![from] = Decrypts(p, s, m.to[p], garbage)]
               ELSE s.cross
  IN  [s EXCEPT !.cross = cross,
                !.phase = IF \E q \in Party \ {p} : cross[q] = -1 THEN 2 ELSE 3]

(* Mutant: a zero cross product, absent on the wire, is not counted.       *)
Phase3NonZero(p, s, from, m) ==
  LET back == s.back \cup {q \in Party : s.heard[q][3] > 0}
  IN  [s EXCEPT !.back = back, !.phase = IF Party \ {p} \subseteq back THEN 4 ELSE 3]

Phase3(p, s, from, m) ==
  LET back == s.back \cup {from} \cup {q \in Party : s.heard[q][3] >= 0}
  IN  [s EXCEPT !.back = back, !.phase = IF Party \ {p} \subseteq back THEN 4 ELSE 3]

Phase4(p, s, from, m) ==
  LET terms == Terms(p, s, from, NContribution(p, s))
  IN  IF AllIn(p, terms) THEN [s EXCEPT !.n = Sum(terms), !.phase = 5] ELSE s

Phase5(p, s, from, m) ==
  IF \A q \in Party \ {p} : s.heard[q][5] >= 0 THEN [s EXCEPT !.phase = 6] ELSE s

(* computeAdditiveDShares and initShamirResharing: the dealer needs an     *)
(* inverse (or the call fails), and rand.Int panics unless lambda > 0.     *)
Phase6(p, s, from, m) ==
  LET terms == Terms(p, s, from, LambdaContribution(p, s))
      lambda == Sum(terms)
  IN  IF ~AllIn(p, terms) THEN s
      ELSE IF p = Dealer /\ ~HasInverse(E, Absolute(lambda)) THEN [s EXCEPT !.lambda = lambda]
      ELSE [s EXCEPT !.lambda = lambda,
                     !.phase = IF lambda <= 0 THEN Crashed ELSE 7,
                     !.evals[p] = IF p = Dealer THEN lambda ELSE 1]
NotInvertible(p, s) ==
  p = Dealer /\ s.phase = 6 /\ s.lambda # 0 /\ ~HasInverse(E, Absolute(s.lambda))

(* Mutant: no test signature.                                              *)
Phase7Untested(p, s, from, m) ==
  LET evals == [q \in Party |-> IF s.heard[q][7] > 0 THEN s.heard[q][7] ELSE s.evals[q]]
  IN  [s EXCEPT !.evals = evals, !.phase = IF 0 \in Range(evals) THEN 7 ELSE 8]

(* createVerification raises 2 to the share without a modulus if n is 0.   *)
Phase7(p, s, from, m) ==
  LET evals == [q \in Party |-> IF s.heard[q][7] > 0 THEN s.heard[q][7] ELSE s.evals[q]]
  IN  [s EXCEPT !.evals = evals,
                !.phase = IF 0 \in Range(evals) THEN 7 ELSE IF s.n = 0 THEN Crashed ELSE 8]

Verified(p, s) == \A q \in Party \ {p} : s.heard[q][8] > 0

-------------------------------------------------------------------------------
(* One message fed to the session in the course of a poll.  r is what the  *)
(* poll has so far: the session, the last output, the key, and whether a   *)
(* call has failed, after which nothing more is fed.                       *)
Handle(p, s, from, m, garbage) ==
  CASE s.phase = 1 -> Phase1(p, s, from, m)
    [] s.phase = 2 -> Phase2(p, s, from, m, garbage)
    [] s.phase = 3 -> Phase3(p, s, from, m)
    [] s.phase = 4 -> Phase4(p, s, from, m)
    [] s.phase = 5 -> Phase5(p, s, from, m)
    [] s.phase = 6 -> Phase6(p, s, from, m)
    [] s.phase = 7 -> Phase7(p, s, from, m)
    [] OTHER -> s
Undecryptable(p, s, m, garbage) ==
  /\ s.phase = 2 /\ m.phase = 2 /\ m.to[p] # 0
  /\ Decrypts(p, s, m.to[p], garbage) = -1
Feed(p, r, from, m, garbage) ==
  LET heard == [r.s EXCEPT !.heard[from][m.phase] = m.to[p]]
      after == Handle(p, heard, from, m, garbage)
  IN  IF r.failed THEN r
      ELSE IF r.s.phase \in {None, Crashed} \/ Undecryptable(p, heard, m, garbage)
      THEN [r EXCEPT !.s = heard, !.failed = TRUE]
      ELSE IF heard.phase = 8 /\ Verified(p, heard)
      THEN [r EXCEPT !.s = NoSession, !.key = [n |-> heard.n, lambda |-> heard.evals[Dealer]]]
      ELSE [r EXCEPT !.s = after,
                     !.failed = after.phase = Crashed \/ NotInvertible(p, after),
                     !.last = IF after.phase = heard.phase THEN Waits(after)
                              ELSE Enters(p, after)]

Senders(p) == {q \in Party \ {p} : snap[p].contribs[q].kind = "data"}

(* What the decryption of a message gives if it is not for the key at hand *)
Wrong(p, q) ==
  IF snap[p].contribs[q].phase # 2 \/ snap[p].contribs[q].to[p] = sess[p].pk[p]
  THEN {0} ELSE Garbage

(* The results of a poll, over the orders its contributions may come in.   *)
Polls(p) ==
  LET start == [s |-> sess[p], last |-> Empty, key |-> NoKey, failed |-> FALSE]
      after[T \in SUBSET Senders(p)] ==
        IF T = {} THEN {start}
        ELSE UNION {{Feed(p, r, q, snap[p].contribs[q], garbage) :
                       r \in after[T \ {q}], garbage \in Wrong(p, q)} : q \in T}
  IN  after[Senders(p)]

-------------------------------------------------------------------------------
(* processDKG.                                                             *)
ReemitCompletion(p) ==
  /\ Processing(p)
  /\ completed[p] # NoKey
  /\ Submit(p, Complete)
  /\ UNCHANGED <<goVars, store>>

ResubmitRound0(p) ==
  /\ Processing(p)
  /\ completed[p] = NoKey
  /\ snap[p].round = 0
  /\ p \in inited
  /\ Submit(p, Empty)
  /\ UNCHANGED <<goVars, store>>

(* InitNPartyRSADKG replaces whatever session the cache holds.             *)
StartSession(p) ==
  /\ draws' = [draws EXCEPT ![p] = @ + 1]
  /\ sess' = [sess EXCEPT ![p] = [NoSession EXCEPT !.phase = 1, !.pk[p] = draws[p] + 1]]
  /\ inited' = inited \cup {p}
  /\ Submit(p, ToAll(1, draws[p] + 1))
  /\ UNCHANGED <<completed, store>>

(* Mutant: round 0 does not look at initializedDkgTasks.                   *)
InitRound0Again(p) ==
  /\ Processing(p)
  /\ completed[p] = NoKey
  /\ snap[p].round = 0
  /\ StartSession(p)

InitRound0(p) ==
  /\ Processing(p)
  /\ completed[p] = NoKey
  /\ snap[p].round = 0
  /\ p \notin inited
  /\ StartSession(p)

(* Every later round.  A failed call throws, and what the session became   *)
(* by the messages before stays; a key found before the failure is lost.   *)
Drive(p) ==
  /\ Processing(p)
  /\ completed[p] = NoKey
  /\ snap[p].round > 0
  /\ \E r \in Polls(p) :
       /\ sess' = [sess EXCEPT ![p] = r.s]
       /\ IF r.failed THEN Throw(p) /\ UNCHANGED <<inited, completed>>
          ELSE IF r.key = NoKey THEN Submit(p, r.last) /\ UNCHANGED <<inited, completed>>
          ELSE /\ completed' = [completed EXCEPT ![p] = r.key]
               /\ inited' = inited \ {p}
               /\ Await(p, "persisting")
  /\ UNCHANGED <<store, draws>>

PersistShare(p) ==
  /\ pc[p] = "persisting"
  /\ store' = [store EXCEPT ![p] = completed[p]]
  /\ Submit(p, Complete)
  /\ UNCHANGED goVars

PersistFails(p) == AwaitFails(p, "persisting") /\ UNCHANGED <<goVars, store>>

(* The session cache forgets a session 30 minutes after InitNPartyRSADKG;  *)
(* Get never extends that.                                                 *)
SessionExpires(p) ==
  /\ sess[p].phase \notin {None, Crashed}
  /\ faults < MaxFaults
  /\ faults' = faults + 1
  /\ sess' = [sess EXCEPT ![p] = NoSession]
  /\ UNCHANGED <<serverVars, tickVars, submitted, restarts, inited, completed, draws, store>>

Restart(p) ==
  /\ LoseTick(p)
  /\ sess' = [sess EXCEPT ![p] = NoSession]
  /\ inited' = inited \ {p}
  /\ completed' = [completed EXCEPT ![p] = NoKey]
  /\ store' \in {store} \cup (IF pc[p] = "persisting"
                              THEN {[store EXCEPT ![p] = completed[p]]} ELSE {})
  /\ UNCHANGED draws

-------------------------------------------------------------------------------
Tick(p) ==
  \/ (ListTasks(p) \/ SkipSubmitted(p) \/ UpdateTask(p)) /\ UNCHANGED <<goVars, store>>
  \/ ReemitCompletion(p) \/ ResubmitRound0(p) \/ InitRound0(p) \/ Drive(p)
  \/ PersistShare(p)

Fault(p) ==
  \/ UpdateTaskFails(p) /\ UNCHANGED <<goVars, store>>
  \/ PersistFails(p) \/ SessionExpires(p) \/ Restart(p)

Next ==
  \/ \E p \in Party : Tick(p) \/ Fault(p)
  \/ Server /\ UNCHANGED <<goVars, store>>

Spec == Init /\ [][Next]_vars

-------------------------------------------------------------------------------
(* Type invariant of the task and of the sessions.                         *)
Contributions ==
  {NoContribution, Empty, Complete}
    \cup [kind : {"data"}, phase : 1 .. 8, to : [Party -> Nat]]
TypeOK ==
  /\ RoundsTypeOK(Contributions, {"persisting"})
  /\ \A p \in Party :
       /\ sess[p].phase \in 0 .. 9
       /\ sess[p].pk \in [Party -> Nat] /\ sess[p].evals \in [Party -> Nat]
       /\ sess[p].cross \in [Party -> Int] /\ sess[p].back \subseteq Party
       /\ sess[p].n \in Nat /\ sess[p].lambda \in Int
       /\ sess[p].heard \in [Party -> [1 .. 8 -> Int]]
  /\ inited \subseteq Party
  /\ {completed, store} \subseteq [Party -> [n : Nat, lambda : Nat]]
  /\ draws \in [Party -> Nat]

(* All the shares that are ever stored belong to one modulus and to one    *)
(* secret of the dealer, whatever fails, expires or restarts.              *)
AgreeOnKey ==
  \A p, q \in Party : NoKey \in {store[p], store[q]} \/ store[p] = store[q]

(* While nobody restarts, a stored share belongs to the dealer's primes:   *)
(* the lost and repeated outputs stall the protocol or crash a party, but  *)
(* never make a key of a wrong modulus or a wrong lambda.                  *)
StoredKeysWork ==
  restarts = 0 =>
    \A p \in Party : store[p] \in {NoKey, [n |-> P * Q, lambda |-> (P - 1) * (Q - 1)]}

(* Without failures every party enters one phase in every round and sends  *)
(* its message, although each message is handled by the phase of its       *)
(* receiver, and no party runs the Go code into a panic.                   *)
InStep ==
  faults = 0 =>
    \A p \in Party :
      /\ sess[p].phase # Crashed
      /\ round > 0 => contribs[p].kind = "data" /\ contribs[p].phase = round

===============================================================================
