----------------------------- MODULE SessionDkg -----------------------------
(***************************************************************************)
(* CreateKey in the three sessions whose cryptography is behind a WASM     *)
(* boundary: DKLs23Session (rounds 1, 2, 3 and a finalization),            *)
(* FROSTSession (one message) and the BLS12-381 path of BLSSession         *)
(* (commitments, then shares).  They differ in what they do when the       *)
(* server asks for a round they have already been through, which is where  *)
(* a lost UpdateTask, a lost answer or a restart takes them:               *)
(*                                                                         *)
(*   DKLs23     round 0 is answered with an empty contribution;            *)
(*   FROST      round 0 draws a new polynomial, whatever was sent before;  *)
(*   BLS12-381  likewise, but a share is checked against the commitments   *)
(*              its sender was heard with.                                 *)
(*                                                                         *)
(* A session is known by the ordinal of its draw and the step its last     *)
(* message was of; a message carries both.  A key share is the draw it     *)
(* took from every party.  The WASM rounds are external: round k fails     *)
(* unless every other party is there with a message of step k - 1 that     *)
(* belongs to the session it was heard with.  The server never hands out   *)
(* an empty partyContributions past round 0, so the branches that answer   *)
(* one with an empty contribution are left out.                            *)
(***************************************************************************)
EXTENDS TaskRounds

CONSTANTS Protocols, StorageMayFail

VARIABLES
  protocol,   \* what the task's KeySpec selects
  sess,       \* dkgStates, or the Go dkgSessions
  completed,  \* completedKeyShares, completed12381KeyShares
  store,      \* the persisted key share
  draws       \* sessions begun by each sidecar

dkgVars == <<protocol, sess, completed, store, draws>>
vars == <<roundsVars, dkgVars>>

NoKey == [q \in Party |-> 0]
Session(step, draw, heard) == [step |-> step, draw |-> draw, heard |-> heard]
NoSession == Session(0, 0, NoKey)
Message(step, draw) == [kind |-> "message", step |-> step, draw |-> draw]

Init ==
  /\ InitRounds
  /\ protocol \in Protocols
  /\ sess = [p \in Party |-> NoSession]
  /\ completed = [p \in Party |-> NoKey]
  /\ store = [p \in Party |-> NoKey]
  /\ draws = [p \in Party |-> 0]

-------------------------------------------------------------------------------
Others(p) == Party \ {p}
Contrib(p, q) == snap[p].contribs[q]

(* Does the contribution of every other party hold a message of a step?    *)
Collected(p, step) ==
  \A q \in Others(p) : Contrib(p, q).kind = "message" /\ Contrib(p, q).step = step
Heard(p) == [q \in Party |-> IF q = p THEN sess[p].draw ELSE Contrib(p, q).draw]

(* Does what the senders of this round sent belong to the sessions they    *)
(* were heard with first?                                                  *)
Trusted(p) == TRUE                          \* mutant: shares not verified
Verified(p) == \A q \in Others(p) : Contrib(p, q).draw = sess[p].heard[q]

Asked(p, which) ==
  /\ protocol = which
  /\ Processing(p)
  /\ completed[p] = NoKey

(* Re-poll after completion.                                               *)
ReemitCompletion(p) ==
  /\ Processing(p)
  /\ completed[p] # NoKey
  /\ Submit(p, Complete)
  /\ UNCHANGED dkgVars

NewSession(p) ==
  /\ draws' = [draws EXCEPT ![p] = @ + 1]
  /\ sess' = [sess EXCEPT ![p] = Session(1, draws[p] + 1, NoKey)]
  /\ UNCHANGED <<protocol, completed, store>>

(* The key is final: remembered, its session dropped, then persisted.      *)
Finish(p, key) ==
  /\ completed' = [completed EXCEPT ![p] = key]
  /\ sess' = [sess EXCEPT ![p] = NoSession]
  /\ Await(p, "persisting")
  /\ UNCHANGED <<protocol, store, draws>>

Refuse(p) == Throw(p) /\ UNCHANGED dkgVars

-------------------------------------------------------------------------------
(* DKLs23.  A contribution with messages goes to every peer end to end,    *)
(* one awaited call after the other whose failure is only logged, and then *)
(* to the server; nothing in the repository collects the former.           *)
Tell(p, contribution) ==
  /\ pc' = [pc EXCEPT ![p] = "telling"]
  /\ out' = [out EXCEPT ![p] = contribution]
  /\ UNCHANGED <<serverVars, snap, submitted, faults, restarts>>
PeersTold(p) ==
  /\ pc[p] = "telling"
  /\ pc' = [pc EXCEPT ![p] = "submitting"]
  /\ UNCHANGED <<serverVars, snap, out, submitted, faults, restarts, dkgVars>>

DklsInit(p) ==
  /\ Asked(p, "dkls23") /\ snap[p].round = 0
  /\ sess[p].step = 0
  /\ NewSession(p)
  /\ Tell(p, Message(1, draws[p] + 1))
DklsAgain(p) ==
  /\ Asked(p, "dkls23") /\ snap[p].round = 0
  /\ sess[p].step # 0
  /\ Submit(p, Empty)
  /\ UNCHANGED dkgVars

(* Internal rounds 2 and 3 go by internalRound, not by the task's Round.   *)
DklsReady(p) ==
  /\ Collected(p, sess[p].step)
  /\ sess[p].step > 1 => Verified(p)
DklsAdvance(p) ==
  /\ Asked(p, "dkls23") /\ snap[p].round > 0
  /\ sess[p].step \in {1, 2}
  /\ DklsReady(p)
  /\ sess' = [sess EXCEPT ![p] = Session(@.step + 1, @.draw,
                                         IF @.step = 1 THEN Heard(p) ELSE @.heard)]
  /\ Tell(p, Message(sess[p].step + 1, sess[p].draw))
  /\ UNCHANGED <<protocol, completed, store, draws>>
DklsFinalize(p) ==
  /\ Asked(p, "dkls23") /\ snap[p].round > 0
  /\ sess[p].step = 3
  /\ DklsReady(p)
  /\ Finish(p, sess[p].heard)
DklsRefuses(p) ==
  /\ Asked(p, "dkls23") /\ snap[p].round > 0
  /\ sess[p].step = 0 \/ ~DklsReady(p)
  /\ Refuse(p)
Dkls(p) ==
  \/ DklsInit(p) \/ DklsAgain(p) \/ DklsAdvance(p) \/ DklsFinalize(p)
  \/ DklsRefuses(p) \/ PeersTold(p)

-------------------------------------------------------------------------------
(* FROST.                                                                  *)
FrostInit(p) ==
  /\ Asked(p, "frost") /\ snap[p].round = 0
  /\ NewSession(p)
  /\ Submit(p, Message(1, draws[p] + 1))
FrostReady(p) == sess[p].step = 1 /\ Collected(p, 1)
FrostRound(p) ==
  /\ Asked(p, "frost") /\ snap[p].round > 0
  /\ FrostReady(p)
  /\ Finish(p, Heard(p))
FrostRefuses(p) ==
  /\ Asked(p, "frost") /\ snap[p].round > 0
  /\ ~FrostReady(p)
  /\ Refuse(p)
Frost(p) == FrostInit(p) \/ FrostRound(p) \/ FrostRefuses(p)

-------------------------------------------------------------------------------
(* BLS12-381.  A step that throws may keep some of what it collected; it   *)
(* collects the same again at every later poll of the round.               *)
Bls12381Init(p) ==
  /\ Asked(p, "bls12381") /\ snap[p].round = 0
  /\ NewSession(p)
  /\ Submit(p, Message(1, draws[p] + 1))
Bls12381Shares(p) ==
  /\ Asked(p, "bls12381") /\ snap[p].round > 0
  /\ sess[p].step = 1 /\ Collected(p, 1)
  /\ sess' = [sess EXCEPT ![p] = Session(2, @.draw, Heard(p))]
  /\ Submit(p, Message(2, sess[p].draw))
  /\ UNCHANGED <<protocol, completed, store, draws>>
Bls12381Combine(p) ==
  /\ Asked(p, "bls12381") /\ snap[p].round > 0
  /\ sess[p].step = 2 /\ Collected(p, 2) /\ Verified(p)
  /\ Finish(p, Heard(p))
Bls12381Refuses(p) ==
  /\ Asked(p, "bls12381") /\ snap[p].round > 0
  /\ CASE sess[p].step = 1 -> ~Collected(p, 1)
       [] sess[p].step = 2 -> ~(Collected(p, 2) /\ Verified(p))
       [] OTHER -> TRUE
  /\ Refuse(p)
Bls12381(p) ==
  \/ Bls12381Init(p) \/ Bls12381Shares(p) \/ Bls12381Combine(p) \/ Bls12381Refuses(p)

-------------------------------------------------------------------------------
PersistShare(p) ==
  /\ pc[p] = "persisting"
  /\ store' = [store EXCEPT ![p] = completed[p]]
  /\ Submit(p, Complete)
  /\ UNCHANGED <<protocol, sess, completed, draws>>
PersistFails(p) == StorageMayFail /\ AwaitFails(p, "persisting") /\ UNCHANGED dkgVars

Restart(p) ==
  /\ LoseTick(p)
  /\ sess' = [sess EXCEPT ![p] = NoSession]
  /\ completed' = [completed EXCEPT ![p] = NoKey]
  /\ store' \in {store} \cup (IF pc[p] = "persisting"
                              THEN {[store EXCEPT ![p] = completed[p]]} ELSE {})
  /\ UNCHANGED <<protocol, draws>>

Tick(p) ==
  \/ (ListTasks(p) \/ SkipSubmitted(p) \/ UpdateTask(p)) /\ UNCHANGED dkgVars
  \/ ReemitCompletion(p) \/ Dkls(p) \/ Frost(p) \/ Bls12381(p)
  \/ PersistShare(p)
Fault(p) ==
  \/ UpdateTaskFails(p) /\ UNCHANGED dkgVars
  \/ PersistFails(p) \/ Restart(p)

Next ==
  \/ \E p \in Party : Tick(p) \/ Fault(p)
  \/ Server /\ UNCHANGED dkgVars

Spec == Init /\ [][Next]_vars

-------------------------------------------------------------------------------
(* Type invariant of the task and of the sessions.                         *)
Contributions ==
  {NoContribution, Empty, Complete}
    \cup [kind : {"message"}, step : 1 .. 3, draw : Nat]
Sessions == [step : 0 .. 3, draw : Nat, heard : [Party -> Nat]]
TypeOK ==
  /\ RoundsTypeOK(Contributions, {"telling", "persisting"})
  /\ protocol \in Protocols
  /\ sess \in [Party -> Sessions]
  /\ completed \in [Party -> [Party -> Nat]]
  /\ store \in [Party -> [Party -> Nat]]
  /\ draws \in [Party -> Nat]

(* All stored shares are shares of one key.  For DKLs23 and BLS12-381      *)
(* through lost calls, lost answers and restarts; for FROST only as long   *)
(* as nothing fails, since its round 0 draws again.                        *)
SameKey == \A p, q \in Party : NoKey \in {store[p], store[q]} \/ store[p] = store[q]
AgreeOnKey == protocol # "frost" \/ faults = 0 => SameKey

(* What dispatch.ts:8-11 promises of a round the server issues again: the  *)
(* protocol state of no session is corrupted by it, so that even after     *)
(* lost calls, short of a restart, all shares are shares of one key.       *)
NeverCorrupted == restarts = 0 => SameKey

(* Without failures the sessions move in step with the task: what is       *)
(* handed out in a round is everybody's message of that step.              *)
InStep ==
  faults = 0 /\ round > 0 =>
    \A p \in Party : contribs[p].kind = "message" /\ contribs[p].step = round

===============================================================================
