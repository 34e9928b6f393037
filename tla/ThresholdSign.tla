---------------------------- MODULE ThresholdSign ----------------------------
(***************************************************************************)
(* Sign in every threshold session: Decaf448 (Schnorr: nonce commitments,  *)
(* partials, aggregate), FROST (the same in Go, with the partials          *)
(* verified), BLS48-581 and BLS12-381 (one partial each), RSA (Shoup, no   *)
(* state) and DKLs23 (steps 1, 2, 3 and a finalization behind its WASM     *)
(* boundary).  The rounds travel as TaskRounds has them.                   *)
(*                                                                         *)
(* Group elements are their exponents and the sessions compute with them,  *)
(* so whether a submitted signature verifies is a matter of arithmetic.    *)
(* The parties are known by their DKG ids; DkgIds took part in the key     *)
(* generation, Party signs, and the server may or may not name the         *)
(* participants.  The server also numbers the parties of the task, and     *)
(* DKLs23 signs with DKG ids but takes in the messages addressed to its    *)
(* own number of the task.  The WASM calls of FROST rounds 2 and 3 and of DKLs23 are *)
(* external: they fail unless every cosigner's message is there, and the   *)
(* last of each unless it is consistent with what was heard before.        *)
(* initializedSignTasks of RSASession is written and never read.           *)
(***************************************************************************)
EXTENDS TaskRounds, ThresholdArithmetic

CONSTANTS
  DkgIds,         \* everybody's id at key generation, a superset of Party
  Protocols,
  PartyIDMaps,    \* the numberings of the task's parties the server may use
  Q, Polynomial,  \* the prime field and the key's polynomial, of degree 1
  Nonce(_, _),    \* a party's nonce of a draw, known by its ordinal
  Challenge(_),   \* the hash of a group commitment and the message
  N, E, DShares,  \* RSA: modulus, exponent, the integer polynomial of d
  Input           \* RSA: the padded message

VARIABLES
  protocol,    \* what the key's KeySpec selects
  named,       \* ServerData.participants is there
  partyIDMap,  \* ServerData.partyIDMap: the parties' numbers in the task
  sess,        \* signStates, submitted12381Sigs, the Go signSessions
  draws,       \* nonces drawn by each sidecar
  answered     \* history: the partials that left, with nonce's draw and challenge

signVars == <<protocol, named, partyIDMap, sess, draws, answered>>
vars == <<roundsVars, signVars>>

SignState(step, draw, R, heard) == [step |-> step, draw |-> draw, R |-> R, heard |-> heard]
NobodyHeard == [q \in Party |-> 0]
NoSession == SignState(0, 0, 0, NobodyHeard)

Init ==
  /\ InitRounds
  /\ protocol \in Protocols
  /\ named \in BOOLEAN
  /\ partyIDMap \in IF protocol = "dkls23" THEN PartyIDMaps ELSE {[p \in Party |-> p]}
  /\ sess = [p \in Party |-> NoSession]
  /\ draws = [p \in Party |-> 0]
  /\ answered = {}

-------------------------------------------------------------------------------
(* Keys and what is computed of them.                                      *)
Field == 0 .. Q - 1
Secret == Polynomial[1]
SkShare(p) == EvaluatePolynomial(Polynomial, p, Q)
DShare(p) == DShares[1] + p * DShares[2]

(* BLS counts the parties of the task, the others the named participants   *)
(* or else everybody of the key generation.                                *)
CosignerIds ==
  IF protocol \in {"bls48581", "bls12381"} \/ named THEN Party ELSE DkgIds
LagrangeKeyShareUnweighted(p) == SkShare(p)             \* mutant: L_i left out
WeightedShare(p, ids) == ComputeLagrangeCoeff(p, ids, Q) * SkShare(p) % Q
LagrangeKeyShare(p) == WeightedShare(p, CosignerIds)

(* s_i = k_i - c L_i sk_i in Decaf448, with a plus sign in FROST.          *)
PartialSchnorr(p, nonce, R) ==
  LET cx == Challenge(R) * LagrangeKeyShare(p)
  IN  IF protocol = "frost" THEN (nonce + cx) % Q ELSE (nonce - cx) % Q

(* What is assumed of the key: that its signers are of its parties, that   *)
(* weighted shares are field elements and those of the signers add up to   *)
(* the secret, and that their RSA partials combine to one signature,       *)
(* whoever of them is heard from.                                          *)
ASSUME KeyAssumption ==
  /\ Protocols \subseteq {"decaf448", "frost", "bls48581", "bls12381", "rsa", "dkls23"}
  /\ Party \subseteq DkgIds /\ DkgIds \subseteq Nat
  /\ PartyIDMaps \subseteq [Party -> Nat]
  /\ Q \in Nat \ {0} /\ Secret \in Field
ASSUME Interpolation ==
  /\ \A p \in Party, ids \in {Party, DkgIds} : WeightedShare(p, ids) \in Field
  /\ SumMod([p \in Party |-> WeightedShare(p, Party)], 0, Party, Q) = Secret

RsaPartialOf(p) == ShoupPartial(Input, DShare(p), Delta(Cardinality(DkgIds)), N)
Combined(partials) == CombineShoup(partials, N, E, Delta(Cardinality(DkgIds)), Input)
ASSUME ShoupCombines ==
  /\ \A p \in Party : RsaPartialOf(p) \in 0 .. N - 1
  /\ \E s \in 0 .. N - 1 :
       /\ PowMod(s, E, N) = Input
       /\ \A S \in SUBSET Party :
            (\E p, q \in S : p # q) => Combined([p \in S |-> RsaPartialOf(p)]) = s

(* ... and of hash and draws, that they are field elements and that no     *)
(* partial of FROST is one for another group commitment too, whichever     *)
(* nonces of theirs the signers use.                                       *)
Draws == 1 .. MaxRestarts + 1
ASSUME InTheField ==
  /\ \A p \in Party, d \in Draws : Nonce(p, d) \in Field
  /\ \A R \in Field : Challenge(R) \in Field
GroupCommitments ==
  {SumMod([p \in Party |-> Nonce(p, draw[p])], 0, Party, Q) : draw \in [Party -> Draws]}
FrostPartial(p, nonce, R) == (nonce + Challenge(R) * WeightedShare(p, Party)) % Q
ASSUME NoCollisions ==
  \A p \in Party, d, e \in Draws, R, S \in GroupCommitments :
    FrostPartial(p, Nonce(p, d), R) = FrostPartial(p, Nonce(p, e), S) => R = S

Others(p) == Party \ {p}
Contrib(p, q) == snap[p].contribs[q]
Senders(p, kind) == {q \in Others(p) : Contrib(p, q).kind = kind}
SumOf(p, kind, own) ==
  SumMod([q \in Senders(p, kind) |-> Contrib(p, q).value], own, Senders(p, kind), Q)
MyNonce(p) == Nonce(p, sess[p].draw)

Commitment(value) == [kind |-> "commit", value |-> value]
Partial(value) == [kind |-> "partial", value |-> value]
Message(step, draw) == [kind |-> "message", step |-> step, draw |-> draw]
Signature(R, s) == [kind |-> "complete", R |-> R, s |-> s]

-------------------------------------------------------------------------------
Asked(p, protocols) == protocol \in protocols /\ Processing(p)
Refuse(p) == Throw(p) /\ UNCHANGED signVars

(* A session keeps what it needs of the key share, which RSA loads at      *)
(* every poll.                                                             *)
LoadKeyShare(p) ==
  /\ Asked(p, Protocols)
  /\ protocol # "rsa" => snap[p].round = 0 /\ sess[p].step = 0
  /\ Await(p, "loading")
  /\ UNCHANGED signVars
LoadFails(p) == AwaitFails(p, "loading") /\ UNCHANGED signVars

(* Round 0 again, after a failure: no payload, except that BLS12-381 has   *)
(* kept its contribution.                                                  *)
Again(p) ==
  /\ Asked(p, Protocols \ {"rsa"}) /\ snap[p].round = 0
  /\ sess[p].step # 0
  /\ Submit(p, IF protocol = "bls12381" THEN Partial(LagrangeKeyShare(p)) ELSE Empty)
  /\ UNCHANGED signVars

NewSession(p) ==
  /\ draws' = [draws EXCEPT ![p] = @ + 1]
  /\ sess' = [sess EXCEPT ![p] = SignState(1, draws[p] + 1, 0, NobodyHeard)]
  /\ UNCHANGED <<protocol, named, partyIDMap, answered>>
Drop(p) ==
  /\ sess' = [sess EXCEPT ![p] = NoSession]
  /\ UNCHANGED <<protocol, named, partyIDMap, draws, answered>>
(* A partial under the session's nonce leaves the sidecar.                 *)
Answer(p, R) ==
  /\ answered' = answered \cup {[party |-> p, draw |-> sess[p].draw, R |-> R]}
  /\ Submit(p, Partial(PartialSchnorr(p, MyNonce(p), R)))
  /\ UNCHANGED <<protocol, named, partyIDMap, draws>>

-------------------------------------------------------------------------------
(* Decaf448.  Nobody counts the commitments or the partials.               *)
SendCommitment(p) ==
  /\ pc[p] = "loading"
  /\ NewSession(p)
  /\ Submit(p, Commitment(Nonce(p, draws[p] + 1)))
DecafInit(p) == protocol = "decaf448" /\ SendCommitment(p)
DecafRoundAgain(p) ==              \* mutant: internalRound stays where it was
  /\ Asked(p, {"decaf448"}) /\ snap[p].round > 0
  /\ sess[p].step = 1
  /\ Answer(p, SumOf(p, "commit", MyNonce(p)))
  /\ UNCHANGED sess
DecafRound(p) ==
  /\ Asked(p, {"decaf448"}) /\ snap[p].round > 0
  /\ sess[p].step = 1
  /\ LET R == SumOf(p, "commit", MyNonce(p))
     IN  /\ Answer(p, R)
         /\ sess' = [sess EXCEPT ![p] = SignState(2, @.draw, R, @.heard)]
DecafAggregate(p) ==
  /\ Asked(p, {"decaf448"}) /\ snap[p].round > 0
  /\ sess[p].step = 2
  /\ Submit(p, Signature(sess[p].R,
                 SumOf(p, "partial", PartialSchnorr(p, MyNonce(p), sess[p].R))))
  /\ Drop(p)

-------------------------------------------------------------------------------
(* FROST: the task's Round selects the WASM call, which insists on the     *)
(* session's own.                                                          *)
FrostInit(p) == protocol = "frost" /\ SendCommitment(p)
EverybodySent(p, kind) ==          \* mutant: waits for its own contribution
  Senders(p, kind) = CosignerIds
AllSent(p, kind) == Senders(p, kind) = CosignerIds \ {p}
FrostVerified(p) ==
  \A q \in Others(p) :
    Contrib(p, q).value = PartialSchnorr(q, sess[p].heard[q], sess[p].R)
FrostRound1to2(p) ==
  /\ Asked(p, {"frost"}) /\ snap[p].round = 1
  /\ sess[p].step = 1 /\ AllSent(p, "commit")
  /\ LET R == SumOf(p, "commit", MyNonce(p))
     IN  /\ Answer(p, R)
         /\ sess' = [sess EXCEPT ![p] = SignState(2, @.draw, R,
                       [q \in Party |-> IF q = p THEN MyNonce(p) ELSE Contrib(p, q).value])]
FrostRound2to3(p) ==
  /\ Asked(p, {"frost"}) /\ snap[p].round > 1
  /\ sess[p].step = 2 /\ AllSent(p, "partial") /\ FrostVerified(p)
  /\ Submit(p, Signature(sess[p].R,
                 SumOf(p, "partial", PartialSchnorr(p, MyNonce(p), sess[p].R))))
  /\ Drop(p)
FrostRefuses(p) ==
  /\ Asked(p, {"frost"}) /\ snap[p].round > 0
  /\ IF snap[p].round = 1
     THEN ~(sess[p].step = 1 /\ AllSent(p, "commit"))
     ELSE ~(sess[p].step = 2 /\ AllSent(p, "partial") /\ FrostVerified(p))
  /\ Refuse(p)

-------------------------------------------------------------------------------
(* BLS.  BLS48-581 needs its session to aggregate; BLS12-381 aggregates    *)
(* its own partial if it still has it, and drops it before the call that   *)
(* may fail.                                                               *)
SendPartial(p) ==
  /\ pc[p] = "loading"
  /\ NewSession(p)
  /\ Submit(p, Partial(LagrangeKeyShare(p)))
BlsInit(p) == protocol = "bls48581" /\ SendPartial(p)
Bls12381Init(p) == protocol = "bls12381" /\ SendPartial(p)

OwnPartial(p) == IF sess[p].step = 0 THEN 0 ELSE LagrangeKeyShare(p)
Aggregate(p) ==
  /\ Submit(p, Signature(0, SumOf(p, "partial", OwnPartial(p))))
  /\ Drop(p)
BlsAggregate(p) ==
  /\ Asked(p, {"bls48581"}) /\ snap[p].round > 0
  /\ sess[p].step # 0
  /\ Aggregate(p)
Bls12381Aggregate(p) ==
  /\ Asked(p, {"bls12381"}) /\ snap[p].round > 0
  /\ sess[p].step # 0 \/ Senders(p, "partial") # {}
  /\ Aggregate(p)
Bls12381Refuses(p) ==
  /\ Asked(p, {"bls12381"}) /\ snap[p].round > 0
  /\ sess[p].step = 0 /\ Senders(p, "partial") = {}
  /\ Refuse(p)

(* Decaf448, BLS48-581 and DKLs23 know no session at this round.           *)
NoSessionRefuses(p) ==
  /\ Asked(p, {"decaf448", "bls48581", "dkls23"}) /\ snap[p].round > 0
  /\ sess[p].step = 0
  /\ Refuse(p)

-------------------------------------------------------------------------------
(* RSA: from the key share and the others' partials, at every poll.        *)
RsaPartial(p) ==
  /\ protocol = "rsa" /\ pc[p] = "loading"
  /\ Senders(p, "partial") = {}
  /\ Submit(p, Partial(RsaPartialOf(p)))
  /\ UNCHANGED signVars
RsaCombine(p) ==
  /\ protocol = "rsa" /\ pc[p] = "loading"
  /\ Senders(p, "partial") # {}
  /\ LET partials == [q \in Senders(p, "partial") \cup {p} |->
                        IF q = p THEN RsaPartialOf(p) ELSE Contrib(p, q).value]
     IN  Submit(p, Signature(0, Combined(partials)))
  /\ UNCHANGED signVars

-------------------------------------------------------------------------------
(* DKLs23, as at key generation: messages go end to end first.  Its        *)
(* signature is a function of the key and of all nonces.                   *)
Tell(p, contribution) ==
  /\ pc' = [pc EXCEPT ![p] = "telling"]
  /\ out' = [out EXCEPT ![p] = contribution]
  /\ UNCHANGED <<serverVars, snap, submitted, faults, restarts>>
PeersTold(p) ==
  /\ pc[p] = "telling"
  /\ pc' = [pc EXCEPT ![p] = "submitting"]
  /\ UNCHANGED <<serverVars, snap, out, submitted, faults, restarts, signVars>>
DklsInit(p) ==
  /\ protocol = "dkls23" /\ pc[p] = "loading"
  /\ NewSession(p)
  /\ Tell(p, Message(1, draws[p] + 1))
Heard(p) == [q \in Party |-> IF q = p THEN sess[p].draw ELSE Contrib(p, q).draw]
(* collectIncomingMessages: a sidecar keeps what is addressed to its number *)
(* in the task; its cosigners, who know DKG ids, addressed p to p.          *)
KeepsItsMessages(p) == partyIDMap[p] = p
DklsReady(p) ==
  /\ KeepsItsMessages(p)
  /\ AllSent(p, "message")
  /\ \A q \in Others(p) :
       /\ Contrib(p, q).step = sess[p].step
       /\ sess[p].step > 1 => Contrib(p, q).draw = sess[p].heard[q]
DklsAdvance(p) ==
  /\ Asked(p, {"dkls23"}) /\ snap[p].round > 0
  /\ sess[p].step \in {1, 2} /\ DklsReady(p)
  /\ sess' = [sess EXCEPT ![p] = SignState(@.step + 1, @.draw, @.R,
                                           IF @.step = 1 THEN Heard(p) ELSE @.heard)]
  /\ Tell(p, Message(sess[p].step + 1, sess[p].draw))
  /\ UNCHANGED <<protocol, named, partyIDMap, draws, answered>>
DklsFinalize(p) ==
  /\ Asked(p, {"dkls23"}) /\ snap[p].round > 0
  /\ sess[p].step = 3 /\ DklsReady(p)
  /\ LET R == SumMod([q \in Party |-> Nonce(q, sess[p].heard[q])], 0, Party, Q)
     IN  Submit(p, Signature(R, (R + Challenge(R) * Secret) % Q))
  /\ Drop(p)
DklsRefuses(p) ==
  /\ Asked(p, {"dkls23"}) /\ snap[p].round > 0
  /\ sess[p].step > 0 /\ ~DklsReady(p)
  /\ Refuse(p)

-------------------------------------------------------------------------------
Restart(p) ==
  /\ LoseTick(p)
  /\ Drop(p)

Session(p) ==
  \/ LoadKeyShare(p) \/ Again(p) \/ NoSessionRefuses(p)
  \/ DecafInit(p) \/ DecafRound(p) \/ DecafAggregate(p)
  \/ FrostInit(p) \/ FrostRound1to2(p) \/ FrostRound2to3(p) \/ FrostRefuses(p)
  \/ BlsInit(p) \/ BlsAggregate(p)
  \/ Bls12381Init(p) \/ Bls12381Aggregate(p) \/ Bls12381Refuses(p)
  \/ RsaPartial(p) \/ RsaCombine(p)
  \/ DklsInit(p) \/ DklsAdvance(p) \/ DklsFinalize(p) \/ DklsRefuses(p) \/ PeersTold(p)
Tick(p) ==
  \/ (ListTasks(p) \/ SkipSubmitted(p) \/ UpdateTask(p)) /\ UNCHANGED signVars
  \/ Session(p)
Fault(p) ==
  \/ UpdateTaskFails(p) /\ UNCHANGED signVars
  \/ LoadFails(p) \/ Restart(p)
Serve == Server /\ UNCHANGED signVars

Next == Serve \/ \E p \in Party : Tick(p) \/ Fault(p)

Spec == Init /\ [][Next]_vars

(* The interval timer keeps polling, and the server closes what is full.   *)
FairSpec == Spec /\ WF_vars(Serve) /\ \A p \in Party : WF_vars(Tick(p))

-------------------------------------------------------------------------------
(* Type invariant of the task and of the sessions.                         *)
Values == IF protocol = "rsa" THEN 0 .. N - 1 ELSE Field
Contributions ==
  {NoContribution, Empty}
    \cup [kind : {"commit", "partial"}, value : Values]
    \cup [kind : {"message"}, step : 1 .. 3, draw : Draws]
    \cup [kind : {"complete"}, R : Field, s : Values]
TypeOK ==
  /\ RoundsTypeOK(Contributions, {"loading", "telling"})
  /\ protocol \in Protocols /\ named \in BOOLEAN /\ partyIDMap \in [Party -> Nat]
  /\ sess \in [Party -> [step : 0 .. 3, draw : Nat, R : Field, heard : [Party -> Nat]]]
  /\ draws \in [Party -> 0 .. MaxRestarts + 1]
  /\ answered \subseteq [party : Party, draw : Nat, R : Field]

(* Does a signature verify under the public key?                           *)
Verifies(c) ==
  CASE protocol = "decaf448" -> c.s = (c.R - Challenge(c.R) * Secret) % Q
    [] protocol \in {"frost", "dkls23"} -> c.s = (c.R + Challenge(c.R) * Secret) % Q
    [] protocol = "rsa" -> PowMod(c.s, E, N) = Input
    [] OTHER -> c.s = Secret

(* A session's signatures verify, and are one signature: through every     *)
(* failure for FROST and DKLs23, which check what they aggregate, and for  *)
(* RSA, which keeps nothing that could be stale; for the others as long as *)
(* nothing fails, and for Decaf448 only if the server names the signers.   *)
Sent(p) == {c \in {out[p], inbox[p]} : c.kind = "complete"}
Trustworthy ==
  IF protocol \in {"frost", "dkls23", "rsa"} THEN TRUE
  ELSE faults = 0 /\ (protocol = "decaf448" => CosignerIds = Party)
SignaturesVerify ==
  Trustworthy => /\ \A p \in Party : \A c \in Sent(p) : Verifies(c)
                 /\ \A p, q \in Party : \A c \in Sent(p), e \in Sent(q) : c = e

(* A drawn nonce answers one challenge, whatever is lost, repeated or      *)
(* restarted: two partials under it would give away the key share.         *)
NonceUsedOnce ==
  \A a, b \in answered : a.party = b.party /\ a.draw = b.draw => a.R = b.R

(* Every signing ends, unless something fails, or the sessions of FROST    *)
(* and DKLs23 wait for cosigners who are not of the task, or the server    *)
(* numbers a party of a DKLs23 task otherwise than at key generation.      *)
EventuallySigned ==
  \/ <>(faults > 0)
  \/ <>(protocol \in {"frost", "dkls23"} /\ CosignerIds # Party)
  \/ <>(protocol = "dkls23" /\ \E p \in Party : ~KeepsItsMessages(p))
  \/ <>done

(* The same of every numbering: signers 1 and 3 of a key may well be the   *)
(* parties 1 and 2 of the signing task.                                    *)
SignedUnderAnyNumbers ==
  \/ <>(faults > 0)
  \/ <>(protocol \in {"frost", "dkls23"} /\ CosignerIds # Party)
  \/ <>done

(* What bls.ts:693 says of BLS12-381: the cache answers a re-poll, so a    *)
(* second answer is as good as the first.                                  *)
RepollIsHarmless ==
  protocol = "bls12381" /\ restarts = 0 =>
    \A p \in Party : \A c \in Sent(p) : Verifies(c)

===============================================================================
