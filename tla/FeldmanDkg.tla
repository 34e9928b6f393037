------------------------------ MODULE FeldmanDkg ------------------------------
(***************************************************************************)
(* One CreateKey task driven through the two-round Feldman DKG that        *)
(* Decaf448Session and BLSSession (BLS48-581) implement, together with     *)
(* the three things it cannot be separated from: the dispatcher's          *)
(* submittedRounds cache, the storage write of the finished share, and the *)
(* QKMS server, which relays contributions from one round to the next.     *)
(*                                                                         *)
(* A sidecar's tick is a loop of four asynchronous steps, and everything   *)
(* that can happen between them is an interleaving here:                   *)
(*                                                                         *)
(*    idle --ListTasks--> polled --process--> persisting --> submitting    *)
(*      ^                    |                                   |         *)
(*      +----- throw, or ----+<---------- UpdateTask ------------+         *)
(*             round known                                                 *)
(*                                                                         *)
(* A polynomial is abstracted to the ordinal of the draw that made it, so  *)
(* that "the commitment and the share come from the same polynomial" is an *)
(* equation.  0 stands for "nothing received".                             *)
(*                                                                         *)
(* The server is not part of the repository.  It is modelled from what the *)
(* sessions rely on: a task carries the Round and, once past round 0, the  *)
(* contributions of the previous round; a round is over when every party   *)
(* has contributed to it.  Where the client code gives no hint (a second   *)
(* contribution to the same round, a contribution naming another round)    *)
(* the server may record it or ignore it.                                  *)
(***************************************************************************)
EXTENDS Naturals

CONSTANTS
  Party,           \* the sidecars in the task's partyIDMap
  MaxFaults,       \* bound: UpdateTask calls or storage writes that fail
  MaxRestarts,     \* bound: sidecar processes that lose their memory
  StorageMayFail   \* may StorageAdapter.put reject?

ASSUME ConstantsAssumption ==
  /\ MaxFaults \in Nat
  /\ MaxRestarts \in Nat
  /\ StorageMayFail \in BOOLEAN

VARIABLES
  round,      \* server: the task's Round
  inbox,      \* server: contribution received from each party this round
  contribs,   \* server: partyContributions handed out with this round
  done,       \* server: the task is COMPLETED
  pc,         \* where each sidecar's tick is suspended
  snap,       \* the task as this tick's ListTasks returned it
  out,        \* the contribution this tick is submitting
  dkg,        \* session: dkgStates entry of the task
  completed,  \* session: completedKeyShares entry of the task
  submitted,  \* dispatcher: submittedRounds of the task
  store,      \* StorageAdapter: the persisted key share
  draws,      \* how many polynomials each sidecar has drawn
  faults,     \* failed calls so far
  restarts    \* restarts so far

serverVars == <<round, inbox, contribs, done>>
tickVars   == <<pc, snap, out>>
memoryVars == <<dkg, completed, submitted>>
budgetVars == <<faults, restarts>>
vars == <<round, inbox, contribs, done, pc, snap, out, dkg, completed,
          submitted, store, draws, faults, restarts>>

LastRound == 2
Polys == [Party -> Nat]
NoPolys == [q \in Party |-> 0]

(* A contribution: what the fields of ContributionPayload let a peer do.   *)
(* "commit" carries commitments, "shares" carries shares, "complete" says  *)
(* the party is finished, "empty" carries neither.                         *)
Kinds == {"none", "empty", "commit", "shares", "complete"}
Contributions == [kind : Kinds, poly : Nat, round : Nat]
NoContribution == [kind |-> "none", poly |-> 0, round |-> 0]

Sessions == [phase : {"none", "round0", "round1"}, poly : Nat,
             commitments : Polys, shares : Polys]
NoSession == [phase |-> "none", poly |-> 0,
              commitments |-> NoPolys, shares |-> NoPolys]

(* A key share: the polynomials whose constant commitments were summed     *)
(* into the public key, and those whose shares were summed into the secret.*)
Keys == [commitments : Polys, shares : Polys]
NoKey == [commitments |-> NoPolys, shares |-> NoPolys]

Tasks == [round : Nat, contribs : [Party -> Contributions]]
NoTask == [round |-> 0, contribs |-> [q \in Party |-> NoContribution]]

-------------------------------------------------------------------------------
Init ==
  /\ round = 0
  /\ inbox = [p \in Party |-> NoContribution]
  /\ contribs = [p \in Party |-> NoContribution]
  /\ done = FALSE
  /\ pc = [p \in Party |-> "idle"]
  /\ snap = [p \in Party |-> NoTask]
  /\ out = [p \in Party |-> NoContribution]
  /\ dkg = [p \in Party |-> NoSession]
  /\ completed = [p \in Party |-> NoKey]
  /\ submitted = [p \in Party |-> {}]
  /\ store = [p \in Party |-> NoKey]
  /\ draws = [p \in Party |-> 0]
  /\ faults = 0
  /\ restarts = 0

(* The tick awaits ListTasks.  A task that is no longer AWAITING_CLIENT is *)
(* skipped, and the loop reschedules itself.                               *)
ListTasks(p) ==
  /\ pc[p] = "idle"
  /\ IF done THEN UNCHANGED <<pc, snap>>
     ELSE /\ pc' = [pc EXCEPT ![p] = "polled"]
          /\ snap' = [snap EXCEPT ![p] = [round |-> round, contribs |-> contribs]]
  /\ UNCHANGED <<serverVars, out, memoryVars, store, draws, budgetVars>>

(* The tick's dispatch is over: the snapshot and the payload are garbage.  *)
EndDispatch(p) ==
  /\ pc' = [pc EXCEPT ![p] = "idle"]
  /\ snap' = [snap EXCEPT ![p] = NoTask]
  /\ out' = [out EXCEPT ![p] = NoContribution]

Submit(p, kind, poly, r) ==
  /\ pc' = [pc EXCEPT ![p] = "submitting"]
  /\ out' = [out EXCEPT ![p] = [kind |-> kind, poly |-> poly, round |-> r]]
  /\ snap' = snap

(* TaskDispatcher.dispatch: this round was already submitted.              *)
SkipSubmitted(p) ==
  /\ pc[p] = "polled"
  /\ snap[p].round \in submitted[p]
  /\ EndDispatch(p)
  /\ UNCHANGED <<serverVars, memoryVars, store, draws, budgetVars>>

(* dispatch hands the task to processDKG.                                  *)
Processing(p) ==
  /\ pc[p] = "polled"
  /\ snap[p].round \notin submitted[p]

(* Re-poll after completion: the cached share answers without being stored *)
(* again.                                                                  *)
ReemitCompletion(p) ==
  /\ Processing(p)
  /\ completed[p] # NoKey
  /\ Submit(p, "complete", 0, snap[p].round)
  /\ UNCHANGED <<serverVars, memoryVars, store, draws, budgetVars>>

(* Round 0 seen again although the polynomial exists: a bare contribution. *)
ResubmitRound0(p) ==
  /\ Processing(p)
  /\ completed[p] = NoKey
  /\ snap[p].round = 0
  /\ dkg[p].phase # "none"
  /\ Submit(p, "empty", 0, 0)
  /\ UNCHANGED <<serverVars, memoryVars, store, draws, budgetVars>>

(* Mutant: round 0 always initialises, without looking at dkgStates.       *)
DrawPolynomialAlways(p) ==
  /\ Processing(p)
  /\ completed[p] = NoKey
  /\ snap[p].round = 0
  /\ draws' = [draws EXCEPT ![p] = @ + 1]
  /\ dkg' = [dkg EXCEPT ![p] = [NoSession EXCEPT !.phase = "round0",
                                                 !.poly = draws[p] + 1]]
  /\ Submit(p, "commit", draws[p] + 1, 0)
  /\ UNCHANGED <<serverVars, completed, submitted, store, budgetVars>>

(* Round 0: draw a polynomial, remember it, submit its commitments.        *)
DrawPolynomial(p) ==
  /\ Processing(p)
  /\ completed[p] = NoKey
  /\ snap[p].round = 0
  /\ dkg[p].phase = "none"
  /\ draws' = [draws EXCEPT ![p] = @ + 1]
  /\ dkg' = [dkg EXCEPT ![p] = [NoSession EXCEPT !.phase = "round0",
                                                 !.poly = draws[p] + 1]]
  /\ Submit(p, "commit", draws[p] + 1, 0)
  /\ UNCHANGED <<serverVars, completed, submitted, store, budgetVars>>

(* A later round without a session: processDKG throws.                     *)
ThrowNoSession(p) ==
  /\ Processing(p)
  /\ completed[p] = NoKey
  /\ snap[p].round > 0
  /\ dkg[p].phase = "none"
  /\ EndDispatch(p)
  /\ UNCHANGED <<serverVars, memoryVars, store, draws, budgetVars>>

(* What the session holds after the loop over partyContributions: the      *)
(* entries of the wanted kind overwrite what it held, the others are kept. *)
Collected(p, held, kind) ==
  [q \in Party |-> IF q # p /\ snap[p].contribs[q].kind = kind
                   THEN snap[p].contribs[q].poly ELSE held[q]]
FromAll(p, got) == \A q \in Party : got[q] # 0    \* mutant: waits for itself
FromAllOthers(p, got) == \A q \in Party \ {p} : got[q] # 0

Commitments(p) == Collected(p, dkg[p].commitments, "commit")
Shares(p) == Collected(p, dkg[p].shares, "shares")

(* Mutant: the shares leave without all commitments.                       *)
SendSharesUnchecked(p) ==
  /\ Processing(p)
  /\ completed[p] = NoKey
  /\ snap[p].round > 0
  /\ dkg[p].phase = "round0"
  /\ dkg' = [dkg EXCEPT ![p].commitments = Commitments(p), ![p].phase = "round1"]
  /\ Submit(p, "shares", dkg[p].poly, snap[p].round)
  /\ UNCHANGED <<serverVars, completed, submitted, store, draws, budgetVars>>

(* Internal round 0 -> 1: the session moves on, then submits the shares.   *)
SendShares(p) ==
  /\ Processing(p)
  /\ completed[p] = NoKey
  /\ snap[p].round > 0
  /\ dkg[p].phase = "round0"
  /\ FromAllOthers(p, Commitments(p))
  /\ dkg' = [dkg EXCEPT ![p].commitments = Commitments(p), ![p].phase = "round1"]
  /\ Submit(p, "shares", dkg[p].poly, snap[p].round)
  /\ UNCHANGED <<serverVars, completed, submitted, store, draws, budgetVars>>

(* ... or throws, keeping the commitments it has seen.                     *)
ThrowMissingCommitments(p) ==
  /\ Processing(p)
  /\ completed[p] = NoKey
  /\ snap[p].round > 0
  /\ dkg[p].phase = "round0"
  /\ ~FromAllOthers(p, Commitments(p))
  /\ dkg' = [dkg EXCEPT ![p].commitments = Commitments(p)]
  /\ EndDispatch(p)
  /\ UNCHANGED <<serverVars, completed, submitted, store, draws, budgetVars>>

CombinedKey(p) ==
  [commitments |-> [dkg[p].commitments EXCEPT ![p] = dkg[p].poly],
   shares      |-> [Shares(p) EXCEPT ![p] = dkg[p].poly]]

(* Mutants: the key is combined from the shares at hand, or reported       *)
(* without going through onKeyShareReady.                                  *)
CombineSharesUnchecked(p) ==
  /\ Processing(p)
  /\ completed[p] = NoKey
  /\ snap[p].round > 0
  /\ dkg[p].phase = "round1"
  /\ completed' = [completed EXCEPT ![p] = CombinedKey(p)]
  /\ dkg' = [dkg EXCEPT ![p] = NoSession]
  /\ pc' = [pc EXCEPT ![p] = "persisting"]
  /\ UNCHANGED <<serverVars, snap, out, submitted, store, draws, budgetVars>>
CombineSharesUnstored(p) ==
  /\ Processing(p)
  /\ completed[p] = NoKey
  /\ snap[p].round > 0
  /\ dkg[p].phase = "round1"
  /\ FromAllOthers(p, Shares(p))
  /\ completed' = [completed EXCEPT ![p] = CombinedKey(p)]
  /\ dkg' = [dkg EXCEPT ![p] = NoSession]
  /\ Submit(p, "complete", 0, LastRound)
  /\ UNCHANGED <<serverVars, submitted, store, draws, budgetVars>>

(* Internal round 1 -> complete: nothing compares a share with the         *)
(* commitments of its sender.  The key is put in completedKeyShares and    *)
(* the session deleted before the share is stored.                         *)
CombineShares(p) ==
  /\ Processing(p)
  /\ completed[p] = NoKey
  /\ snap[p].round > 0
  /\ dkg[p].phase = "round1"
  /\ FromAllOthers(p, Shares(p))
  /\ completed' = [completed EXCEPT ![p] = CombinedKey(p)]
  /\ dkg' = [dkg EXCEPT ![p] = NoSession]
  /\ pc' = [pc EXCEPT ![p] = "persisting"]
  /\ UNCHANGED <<serverVars, snap, out, submitted, store, draws, budgetVars>>

ThrowMissingShares(p) ==
  /\ Processing(p)
  /\ completed[p] = NoKey
  /\ snap[p].round > 0
  /\ dkg[p].phase = "round1"
  /\ ~FromAllOthers(p, Shares(p))
  /\ dkg' = [dkg EXCEPT ![p].shares = Shares(p)]
  /\ EndDispatch(p)
  /\ UNCHANGED <<serverVars, completed, submitted, store, draws, budgetVars>>

(* onKeyShareReady resolved: the share is stored, completion is submitted. *)
PersistShare(p) ==
  /\ pc[p] = "persisting"
  /\ store' = [store EXCEPT ![p] = completed[p]]
  /\ Submit(p, "complete", 0, LastRound)
  /\ UNCHANGED <<serverVars, memoryVars, draws, budgetVars>>

(* onKeyShareReady rejected: process throws with the share in memory only. *)
PersistFails(p) ==
  /\ pc[p] = "persisting"
  /\ StorageMayFail
  /\ faults < MaxFaults
  /\ faults' = faults + 1
  /\ EndDispatch(p)
  /\ UNCHANGED <<serverVars, memoryVars, store, draws, restarts>>

-------------------------------------------------------------------------------
(* The server's two answers to a contribution.                             *)
Recorded(p) == [inbox EXCEPT ![p] = out[p]]
MayIgnore(p) ==
  \/ inbox[p].kind # "none"
  \/ out[p].round # round
  \/ done

(* UpdateTask resolves, so dispatch adds the round to submittedRounds.     *)
UpdateTask(p) ==
  /\ pc[p] = "submitting"
  /\ \/ inbox' = Recorded(p)
     \/ MayIgnore(p) /\ inbox' = inbox
  /\ submitted' = [submitted EXCEPT ![p] = @ \cup {snap[p].round}]
  /\ EndDispatch(p)
  /\ UNCHANGED <<round, contribs, done, dkg, completed, store, draws, budgetVars>>

(* UpdateTask rejects on the client: the request was lost, or only its     *)
(* answer was.  Either way submittedRounds does not learn of it.           *)
UpdateTaskFails(p) ==
  /\ pc[p] = "submitting"
  /\ faults < MaxFaults
  /\ faults' = faults + 1
  /\ \/ inbox' = Recorded(p)
     \/ inbox' = inbox
  /\ EndDispatch(p)
  /\ UNCHANGED <<round, contribs, done, memoryVars, store, draws, restarts>>

(* The process or page is restarted: every Map of the session and the      *)
(* dispatcher is gone, only storage is left.  A call in flight may or may  *)
(* not have taken effect.                                                  *)
Restart(p) ==
  /\ restarts < MaxRestarts
  /\ restarts' = restarts + 1
  /\ \/ inbox' = inbox
     \/ pc[p] = "submitting" /\ inbox' = Recorded(p)
  /\ \/ store' = store
     \/ pc[p] = "persisting" /\ store' = [store EXCEPT ![p] = completed[p]]
  /\ dkg' = [dkg EXCEPT ![p] = NoSession]
  /\ completed' = [completed EXCEPT ![p] = NoKey]
  /\ submitted' = [submitted EXCEPT ![p] = {}]
  /\ EndDispatch(p)
  /\ UNCHANGED <<round, contribs, done, draws, faults>>

(* The server closes a round every party has contributed to.               *)
AdvanceRound ==
  /\ ~done
  /\ round < LastRound
  /\ \A p \in Party : inbox[p].kind # "none"
  /\ round' = round + 1
  /\ contribs' = inbox
  /\ inbox' = [p \in Party |-> NoContribution]
  /\ UNCHANGED <<done, tickVars, memoryVars, store, draws, budgetVars>>

(* The server closes the task once every party has reported completion.    *)
FinishTask ==
  /\ ~done
  /\ \A p \in Party : inbox[p].kind = "complete"
  /\ done' = TRUE
  /\ UNCHANGED <<round, inbox, contribs, tickVars, memoryVars, store, draws, budgetVars>>

-------------------------------------------------------------------------------
ProcessDKG(p) ==
  \/ ReemitCompletion(p) \/ ResubmitRound0(p) \/ DrawPolynomial(p)
  \/ ThrowNoSession(p)
  \/ SendShares(p) \/ ThrowMissingCommitments(p)
  \/ CombineShares(p) \/ ThrowMissingShares(p)

Tick(p) ==
  \/ ListTasks(p) \/ SkipSubmitted(p) \/ ProcessDKG(p)
  \/ PersistShare(p) \/ UpdateTask(p)

Fault(p) == PersistFails(p) \/ UpdateTaskFails(p) \/ Restart(p)

Server == AdvanceRound \/ FinishTask

Next ==
  \/ \E p \in Party : Tick(p) \/ Fault(p)
  \/ Server

Spec == Init /\ [][Next]_vars

(* setTimeout re-arms the loop after every tick and a settled promise is   *)
(* always resumed; the server closes a complete round eventually.          *)
Fairness == WF_vars(Server) /\ \A p \in Party : WF_vars(Tick(p))
FairSpec == Spec /\ Fairness

-------------------------------------------------------------------------------
(* Type invariant of the task, the sessions and the server.                *)
TypeOK ==
  /\ round \in Nat
  /\ inbox \in [Party -> Contributions]
  /\ contribs \in [Party -> Contributions]
  /\ done \in BOOLEAN
  /\ pc \in [Party -> {"idle", "polled", "persisting", "submitting"}]
  /\ snap \in [Party -> Tasks]
  /\ out \in [Party -> Contributions]
  /\ dkg \in [Party -> Sessions]
  /\ completed \in [Party -> Keys]
  /\ submitted \in [Party -> SUBSET Nat]
  /\ store \in [Party -> Keys]
  /\ draws \in [Party -> Nat]
  /\ faults \in Nat
  /\ restarts \in Nat

Stored(p) == store[p] # NoKey

(* A stored share combines one polynomial of every party, each of them     *)
(* drawn by its owner: the round-trip through the server, the re-polls and *)
(* the restarts never let a session finish on a hole left by a             *)
(* contribution that came without commitments or without shares            *)
(* (decaf448.ts:471-476, 502-507).                                         *)
StoredKeysAreWhole ==
  \A p \in Party : Stored(p) =>
    \A q \in Party : /\ store[p].commitments[q] \in 1 .. draws[q]
                     /\ store[p].shares[q] \in 1 .. draws[q]

(* Two stored shares belong to the same public key and each was combined   *)
(* from the polynomials that key is made of.  Failed and repeated          *)
(* UpdateTask calls cannot break this; a restart can, so it is claimed     *)
(* only while no sidecar restarted (dkgStates.has guards the only draw).   *)
SharesMatchKey ==
  \A p, q \in Party : Stored(p) /\ Stored(q) =>
    /\ store[p].commitments = store[q].commitments
    /\ store[p].shares = store[p].commitments
AgreementWithoutRestart == restarts = 0 => SharesMatchKey

(* The strengthenings that make the three properties inductive.  The first *)
(* says that every polynomial mentioned anywhere was drawn by its owner    *)
(* and that a session past a round holds that round's data of everybody.   *)
PolysDrawn ==
  \A p, q \in Party :
    /\ inbox[q].poly <= draws[q]
    /\ contribs[q].poly <= draws[q]
    /\ out[q].poly <= draws[q]
    /\ snap[p].contribs[q].poly <= draws[q]
    /\ dkg[q].poly <= draws[q]
    /\ dkg[p].commitments[q] <= draws[q]
    /\ dkg[p].shares[q] <= draws[q]
SessionsFilled ==
  \A p \in Party :
    /\ dkg[p].phase # "none" => dkg[p].poly > 0
    /\ dkg[p].phase = "round1" => FromAllOthers(p, dkg[p].commitments)
Whole(key) ==
  \A q \in Party : /\ key.commitments[q] \in 1 .. draws[q]
                   /\ key.shares[q] \in 1 .. draws[q]
KeysWhole ==
  \A p \in Party : /\ completed[p] # NoKey => Whole(completed[p])
                   /\ store[p] # NoKey => Whole(store[p])
WholeInv == PolysDrawn /\ SessionsFilled /\ KeysWhole

(* The second: without restarts nobody draws twice, because whoever has    *)
(* drawn still holds the session or the finished key.                      *)
DrawnOnce ==
  restarts = 0 => \A p \in Party :
    /\ draws[p] <= 1
    /\ draws[p] = 1 => dkg[p].phase # "none" \/ completed[p] # NoKey

(* The third: with a storage that does not fail, completion is reported,   *)
(* and a finished share kept out of the persisting step, only when stored. *)
ReportedStored ==
  ~StorageMayFail => \A p \in Party :
    /\ inbox[p].kind = "complete" \/ out[p].kind = "complete" => Stored(p)
    /\ completed[p] # NoKey => pc[p] = "persisting" \/ Stored(p)
    /\ pc[p] = "persisting" => completed[p] # NoKey
    /\ done => Stored(p)

(* When the server reports the key as created every party has its share in *)
(* storage: completion is submitted after the put, and survives restarts   *)
(* on either side of it.                                                   *)
DoneImpliesStored == done => \A p \in Party : Stored(p)

(* In the share round the server accepts a party's shares only after it    *)
(* has published the commitments of all the others: whoever reveals shares *)
(* can no longer be answered by a polynomial chosen after seeing them, and *)
(* a resubmission without commitments holds back the shares of everybody   *)
(* else, however calls fail, repeat and arrive late (decaf448.ts:471-476). *)
SharesNeedAllCommitments ==
  \A p \in Party : round = 1 /\ inbox[p].kind = "shares" =>
    \A q \in Party \ {p} : contribs[q].kind = "commit"

(* The DKG is an implementation of the key ceremony.                       *)
Ceremony == INSTANCE KeyCeremony WITH
  bound <- {p \in Party : draws[p] > 0},
  holders <- {p \in Party : Stored(p)},
  over <- done
ImplementsCeremony == Ceremony!CeremonySpec

(* Unless a call fails or a sidecar restarts, the rounds run to the end:   *)
(* everybody stores a share and the server closes the task.                *)
EventuallyDone ==
  <>((done /\ \A p \in Party : Stored(p)) \/ faults > 0 \/ restarts > 0)

(* decaf448.ts:406: a re-polled round 0 "just resubmit[s] cached           *)
(* contribution shape": what a session submits for round 0 carries the     *)
(* commitments of the polynomial it has drawn.                             *)
ResubmitsCommitments ==
  \A p \in Party : pc[p] = "submitting" /\ snap[p].round = 0 =>
    out[p].kind = "commit" /\ out[p].poly = dkg[p].poly

===============================================================================
