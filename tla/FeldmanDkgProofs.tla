---------------------------- MODULE FeldmanDkgProofs --------------------------
(***************************************************************************)
(* Proofs about the Feldman DKG: type correctness, whole keys, agreement,  *)
(* and that it implements the key ceremony, for every set of parties and   *)
(* every number of faults and restarts.                                    *)
(***************************************************************************)
EXTENDS FeldmanDkg, TLAPS

(* The two default values are of their types.                              *)
LEMMA DefaultTypes ==
  /\ NoPolys \in Polys
  /\ NoContribution \in Contributions
  /\ NoSession \in Sessions
  /\ NoKey \in Keys
  /\ NoTask \in Tasks
<1>1. NoPolys \in Polys
  BY DEF NoPolys, Polys
<1>2. NoContribution \in Contributions
  BY DEF NoContribution, Contributions, Kinds
<1>3. NoSession \in Sessions
  BY <1>1 DEF NoSession, Sessions
<1>4. NoKey \in Keys
  BY <1>1 DEF NoKey, Keys
<1>5. NoTask \in Tasks
  BY <1>2 DEF NoTask, Tasks
<1>6. QED
  BY <1>1, <1>2, <1>3, <1>4, <1>5

(* Collecting contributions yields one polynomial (or 0) per party.        *)
LEMMA CollectedType ==
  ASSUME TypeOK, NEW p \in Party, NEW held \in Polys, NEW kind
  PROVE  Collected(p, held, kind) \in Polys
<1>1. snap[p].contribs \in [Party -> Contributions]
  BY DEF TypeOK, Tasks
<1>2. \A q \in Party : snap[p].contribs[q].poly \in Nat
  BY <1>1 DEF Contributions
<1>3. QED
  BY <1>2 DEF Collected, Polys

(* A dispatch that ends leaves well-typed tick variables.                  *)
LEMMA EndDispatchType ==
  ASSUME TypeOK, NEW p \in Party, EndDispatch(p)
  PROVE  /\ pc' \in [Party -> {"idle", "polled", "persisting", "submitting"}]
         /\ snap' \in [Party -> Tasks]
         /\ out' \in [Party -> Contributions]
BY DefaultTypes DEF TypeOK, EndDispatch

LEMMA SubmitType ==
  ASSUME TypeOK, NEW p \in Party, NEW kind \in Kinds, NEW poly \in Nat,
         NEW r \in Nat, Submit(p, kind, poly, r)
  PROVE  /\ pc' \in [Party -> {"idle", "polled", "persisting", "submitting"}]
         /\ snap' \in [Party -> Tasks]
         /\ out' \in [Party -> Contributions]
BY DEF TypeOK, Submit, Contributions

(* Every variable keeps its type in every step.                            *)
THEOREM TypeCorrect == Spec => []TypeOK
<1>1. Init => TypeOK
  <2> SUFFICES ASSUME Init PROVE TypeOK
    OBVIOUS
  <2>1. inbox \in [Party -> Contributions] /\ contribs \in [Party -> Contributions]
        /\ out \in [Party -> Contributions]
    BY DefaultTypes DEF Init
  <2>2. snap \in [Party -> Tasks] /\ dkg \in [Party -> Sessions]
    BY DefaultTypes DEF Init
  <2>3. completed \in [Party -> Keys] /\ store \in [Party -> Keys]
    BY DefaultTypes DEF Init
  <2>4. submitted \in [Party -> SUBSET Nat] /\ draws \in [Party -> Nat]
    BY DEF Init
  <2>5. pc \in [Party -> {"idle", "polled", "persisting", "submitting"}]
    BY DEF Init
  <2>6. QED
    BY <2>1, <2>2, <2>3, <2>4, <2>5 DEF Init, TypeOK
<1>2. TypeOK /\ [Next]_vars => TypeOK'
  <2> SUFFICES ASSUME TypeOK, [Next]_vars PROVE TypeOK'
    OBVIOUS
  <2> USE DEF serverVars, tickVars, memoryVars, budgetVars
  <2>1. ASSUME NEW p \in Party, ListTasks(p) PROVE TypeOK'
    <3>1. [round |-> round, contribs |-> contribs] \in Tasks
      BY DEF TypeOK, Tasks
    <3>2. pc' \in [Party -> {"idle", "polled", "persisting", "submitting"}]
      BY <2>1 DEF TypeOK, ListTasks
    <3>3. snap' \in [Party -> Tasks]
      BY <2>1, <3>1 DEF TypeOK, ListTasks
    <3>4. QED
      BY <2>1, <3>2, <3>3 DEF TypeOK, ListTasks
  <2>2. ASSUME NEW p \in Party, SkipSubmitted(p) PROVE TypeOK'
    BY <2>2, EndDispatchType DEF TypeOK, SkipSubmitted
  <2>3. ASSUME NEW p \in Party, ReemitCompletion(p) PROVE TypeOK'
    <3>1. snap[p].round \in Nat /\ "complete" \in Kinds
      BY DEF TypeOK, Tasks, Kinds
    <3>2. QED
      BY <2>3, <3>1, SubmitType DEF TypeOK, ReemitCompletion
  <2>4. ASSUME NEW p \in Party, ResubmitRound0(p) PROVE TypeOK'
    <3>1. "empty" \in Kinds
      BY DEF Kinds
    <3>2. QED
      BY <2>4, <3>1, SubmitType DEF TypeOK, ResubmitRound0
  <2>5. ASSUME NEW p \in Party, DrawPolynomial(p) PROVE TypeOK'
    <3>1. "commit" \in Kinds /\ draws[p] + 1 \in Nat
      BY DEF Kinds, TypeOK
    <3>2. dkg' \in [Party -> Sessions]
      BY <2>5, <3>1, DefaultTypes DEF DrawPolynomial, TypeOK, Sessions, NoSession
    <3>3. QED
      BY <2>5, <3>1, <3>2, SubmitType DEF TypeOK, DrawPolynomial
  <2>6. ASSUME NEW p \in Party, ThrowNoSession(p) PROVE TypeOK'
    BY <2>6, EndDispatchType DEF TypeOK, ThrowNoSession
  <2>7. ASSUME NEW p \in Party, SendShares(p) PROVE TypeOK'
    <3>1. "shares" \in Kinds /\ dkg[p].poly \in Nat /\ snap[p].round \in Nat
      BY DEF Kinds, TypeOK, Sessions, Tasks
    <3>2. Commitments(p) \in Polys
      BY CollectedType DEF TypeOK, Sessions, Commitments
    <3>3. dkg' \in [Party -> Sessions]
      BY <2>7, <3>2 DEF SendShares, TypeOK, Sessions
    <3>4. QED
      BY <2>7, <3>1, <3>3, SubmitType DEF TypeOK, SendShares
  <2>8. ASSUME NEW p \in Party, ThrowMissingCommitments(p) PROVE TypeOK'
    <3>1. Commitments(p) \in Polys
      BY CollectedType DEF TypeOK, Sessions, Commitments
    <3>2. dkg' \in [Party -> Sessions]
      BY <2>8, <3>1 DEF ThrowMissingCommitments, TypeOK, Sessions
    <3>3. QED
      BY <2>8, <3>2, EndDispatchType DEF TypeOK, ThrowMissingCommitments
  <2>9. ASSUME NEW p \in Party, CombineShares(p) PROVE TypeOK'
    <3>1. Shares(p) \in Polys /\ dkg[p].commitments \in Polys /\ dkg[p].poly \in Nat
      BY CollectedType DEF TypeOK, Sessions, Shares
    <3>2. completed' \in [Party -> Keys]
      BY <2>9, <3>1 DEF CombineShares, CombinedKey, TypeOK, Keys, Polys
    <3>3. QED
      BY <2>9, <3>2, DefaultTypes DEF TypeOK, CombineShares
  <2>10. ASSUME NEW p \in Party, ThrowMissingShares(p) PROVE TypeOK'
    <3>1. Shares(p) \in Polys
      BY CollectedType DEF TypeOK, Sessions, Shares
    <3>2. dkg' \in [Party -> Sessions]
      BY <2>10, <3>1 DEF ThrowMissingShares, TypeOK, Sessions
    <3>3. QED
      BY <2>10, <3>2, EndDispatchType DEF TypeOK, ThrowMissingShares
  <2>11. ASSUME NEW p \in Party, PersistShare(p) PROVE TypeOK'
    <3>1. "complete" \in Kinds /\ LastRound \in Nat
      BY DEF Kinds, LastRound
    <3>2. QED
      BY <2>11, <3>1, SubmitType DEF TypeOK, PersistShare
  <2>12. ASSUME NEW p \in Party, PersistFails(p) PROVE TypeOK'
    BY <2>12, EndDispatchType DEF TypeOK, PersistFails
  <2>13. ASSUME NEW p \in Party, UpdateTask(p) PROVE TypeOK'
    <3>1. inbox' \in [Party -> Contributions]
      BY <2>13 DEF TypeOK, UpdateTask, Recorded
    <3>2. submitted' \in [Party -> SUBSET Nat]
      BY <2>13 DEF TypeOK, UpdateTask, Tasks
    <3>3. QED
      BY <2>13, <3>1, <3>2, EndDispatchType DEF TypeOK, UpdateTask
  <2>14. ASSUME NEW p \in Party, UpdateTaskFails(p) PROVE TypeOK'
    <3>1. inbox' \in [Party -> Contributions]
      BY <2>14 DEF TypeOK, UpdateTaskFails, Recorded
    <3>2. QED
      BY <2>14, <3>1, EndDispatchType DEF TypeOK, UpdateTaskFails
  <2>15. ASSUME NEW p \in Party, Restart(p) PROVE TypeOK'
    <3>1. inbox' \in [Party -> Contributions] /\ store' \in [Party -> Keys]
      BY <2>15 DEF TypeOK, Restart, Recorded
    <3>2. /\ dkg' \in [Party -> Sessions]
          /\ completed' \in [Party -> Keys]
          /\ submitted' \in [Party -> SUBSET Nat]
      BY <2>15, DefaultTypes DEF TypeOK, Restart
    <3>3. QED
      BY <2>15, <3>1, <3>2, EndDispatchType DEF TypeOK, Restart
  <2>16. ASSUME AdvanceRound PROVE TypeOK'
    BY <2>16, DefaultTypes DEF TypeOK, AdvanceRound
  <2>17. ASSUME FinishTask PROVE TypeOK'
    BY <2>17 DEF TypeOK, FinishTask
  <2>18. CASE UNCHANGED vars
    BY <2>18 DEF TypeOK, vars
  <2>19. QED
    BY <2>1, <2>2, <2>3, <2>4, <2>5, <2>6, <2>7, <2>8, <2>9, <2>10, <2>11,
       <2>12, <2>13, <2>14, <2>15, <2>16, <2>17, <2>18
    DEF Next, Tick, Fault, Server, ProcessDKG
<1>3. QED
  BY <1>1, <1>2, PTL DEF Spec

-------------------------------------------------------------------------------
(* The fields of the default values.                                       *)
LEMMA DefaultFields ==
  ASSUME NEW q \in Party
  PROVE  /\ NoPolys[q] = 0
         /\ NoContribution.poly = 0
         /\ NoContribution.kind = "none"
         /\ NoTask.contribs[q].poly = 0
         /\ NoSession.poly = 0
         /\ NoSession.phase = "none"
         /\ NoSession.commitments[q] = 0
         /\ NoSession.shares[q] = 0
BY DEF NoPolys, NoContribution, NoTask, NoSession

(* What a tick variable may mention after a dispatch ended or submitted.   *)
LEMMA EndDispatchPolys ==
  ASSUME TypeOK, PolysDrawn, NEW p \in Party, EndDispatch(p)
  PROVE  \A r, q \in Party : /\ out'[q].poly <= draws[q]
                             /\ snap'[r].contribs[q].poly <= draws[q]
BY DefaultFields DEF TypeOK, PolysDrawn, EndDispatch

LEMMA SubmitPolys ==
  ASSUME TypeOK, PolysDrawn, NEW p \in Party, NEW kind, NEW r, NEW poly \in Nat,
         Submit(p, kind, poly, r)
  PROVE  /\ snap' = snap
         /\ \A q \in Party : q # p => out'[q].poly <= draws[q]
         /\ out'[p].poly = poly
BY DEF TypeOK, PolysDrawn, Submit

(* Collected polynomials were drawn by the parties they are filed under.   *)
LEMMA CollectedDrawn ==
  ASSUME TypeOK, PolysDrawn, NEW p \in Party, NEW held \in Polys, NEW kind,
         \A q \in Party : held[q] <= draws[q]
  PROVE  \A q \in Party : Collected(p, held, kind)[q] <= draws[q]
BY DEF Collected, PolysDrawn, TypeOK

LEMMA WholeInvInductive ==
  ASSUME TypeOK, WholeInv, [Next]_vars
  PROVE  WholeInv'
<1> USE DEF serverVars, tickVars, memoryVars, budgetVars
<1>0. PolysDrawn /\ SessionsFilled /\ KeysWhole
  BY DEF WholeInv
<1>1. ASSUME NEW p \in Party, ListTasks(p) PROVE WholeInv'
  <2>1. PolysDrawn'
    BY <1>0, <1>1 DEF PolysDrawn, ListTasks, TypeOK
  <2>2. SessionsFilled' /\ KeysWhole'
    BY <1>0, <1>1 DEF SessionsFilled, KeysWhole, Whole, FromAllOthers, ListTasks
  <2>3. QED
    BY <2>1, <2>2 DEF WholeInv
<1>2. ASSUME NEW p \in Party,
             \/ SkipSubmitted(p) \/ ThrowNoSession(p) \/ PersistFails(p)
      PROVE  WholeInv'
  <2>1. /\ EndDispatch(p)
        /\ UNCHANGED <<serverVars, memoryVars, store, draws>>
    BY <1>2 DEF SkipSubmitted, ThrowNoSession, PersistFails
  <2>2. PolysDrawn'
    BY <1>0, <2>1, EndDispatchPolys DEF PolysDrawn
  <2>3. SessionsFilled' /\ KeysWhole'
    BY <1>0, <2>1 DEF SessionsFilled, KeysWhole, Whole, FromAllOthers
  <2>4. QED
    BY <2>2, <2>3 DEF WholeInv
<1>3. ASSUME NEW p \in Party, ReemitCompletion(p) \/ ResubmitRound0(p)
      PROVE  WholeInv'
  <2>1. /\ UNCHANGED <<serverVars, memoryVars, store, draws>>
        /\ \E kind, r : Submit(p, kind, 0, r)
    BY <1>3 DEF ReemitCompletion, ResubmitRound0
  <2>2. PolysDrawn'
    BY <1>0, <2>1, SubmitPolys DEF PolysDrawn, TypeOK
  <2>3. SessionsFilled' /\ KeysWhole'
    BY <1>0, <2>1 DEF SessionsFilled, KeysWhole, Whole, FromAllOthers
  <2>4. QED
    BY <2>2, <2>3 DEF WholeInv
<1>4. ASSUME NEW p \in Party, DrawPolynomial(p) PROVE WholeInv'
  <2> DEFINE n == draws[p] + 1
  <2>1. /\ n \in Nat
        /\ draws' = [draws EXCEPT ![p] = n]
        /\ \A q \in Party : draws[q] \in Nat /\ draws[q] <= draws'[q]
    BY <1>4 DEF DrawPolynomial, TypeOK
  <2>2. /\ UNCHANGED <<serverVars, completed, submitted, store>>
        /\ Submit(p, "commit", n, 0)
    BY <1>4 DEF DrawPolynomial
  <2>3. /\ dkg'[p].phase = "round0" /\ dkg'[p].poly = n
        /\ \A q \in Party : dkg'[p].commitments[q] = 0 /\ dkg'[p].shares[q] = 0
        /\ \A q \in Party : q # p => dkg'[q] = dkg[q]
    BY <1>4 DEF DrawPolynomial, TypeOK, NoSession, NoPolys
  <2>4. snap' = snap /\ out'[p].poly = n
        /\ \A q \in Party : q # p => out'[q].poly <= draws[q]
    BY <1>0, <2>1, <2>2, SubmitPolys
  <2>5. PolysDrawn'
    <3>1. \A q \in Party : /\ inbox'[q].poly <= draws'[q]
                           /\ contribs'[q].poly <= draws'[q]
      BY <1>0, <2>1, <2>2 DEF PolysDrawn, TypeOK, Contributions
    <3>2. \A q \in Party : out'[q].poly <= draws'[q]
      <4>1. \A q \in Party : out'[q].poly \in Nat
        BY <2>2 DEF Submit, TypeOK, Contributions
      <4>2. QED
        BY <2>1, <2>4, <4>1, <1>4 DEF DrawPolynomial, TypeOK
    <3>3. \A r, q \in Party : snap'[r].contribs[q].poly <= draws'[q]
      BY <1>0, <2>1, <2>4 DEF PolysDrawn, TypeOK, Contributions, Tasks
    <3>4. \A r, q \in Party : /\ dkg'[q].poly <= draws'[q]
                              /\ dkg'[r].commitments[q] <= draws'[q]
                              /\ dkg'[r].shares[q] <= draws'[q]
      BY <1>0, <2>1, <2>3, <1>4 DEF PolysDrawn, TypeOK, Sessions, Polys, DrawPolynomial
    <3>5. QED
      BY <3>1, <3>2, <3>3, <3>4 DEF PolysDrawn
  <2>6. SessionsFilled'
    BY <1>0, <2>1, <2>3 DEF SessionsFilled, FromAllOthers
  <2>7. KeysWhole'
    BY <1>0, <2>1, <2>2 DEF KeysWhole, Whole, TypeOK, Keys, Polys
  <2>8. QED
    BY <2>5, <2>6, <2>7 DEF WholeInv
<1>5. ASSUME NEW p \in Party, SendShares(p) PROVE WholeInv'
  <2>1. /\ UNCHANGED <<serverVars, completed, submitted, store, draws>>
        /\ Submit(p, "shares", dkg[p].poly, snap[p].round)
        /\ dkg[p].phase = "round0" /\ dkg[p].poly \in Nat
    BY <1>5 DEF SendShares, TypeOK, Sessions
  <2>2. /\ dkg'[p].phase = "round1" /\ dkg'[p].poly = dkg[p].poly
        /\ dkg'[p].commitments = Commitments(p) /\ dkg'[p].shares = dkg[p].shares
        /\ \A q \in Party : q # p => dkg'[q] = dkg[q]
    BY <1>5 DEF SendShares, TypeOK, Sessions
  <2>3. \A q \in Party : Commitments(p)[q] <= draws[q]
    BY <1>0, CollectedDrawn DEF Commitments, PolysDrawn, TypeOK, Sessions
  <2>4. PolysDrawn'
    BY <1>0, <2>1, <2>2, <2>3, SubmitPolys DEF PolysDrawn
  <2>5. SessionsFilled'
    <3>1. Commitments(p) \in Polys
      BY CollectedType DEF Commitments, TypeOK, Sessions
    <3>2. \A q \in Party \ {p} : Commitments(p)[q] > 0
      BY <1>5, <3>1 DEF SendShares, FromAllOthers, Polys
    <3>3. QED
      BY <1>0, <2>1, <2>2, <3>2 DEF SessionsFilled, FromAllOthers
  <2>6. KeysWhole'
    BY <1>0, <2>1 DEF KeysWhole, Whole
  <2>7. QED
    BY <2>4, <2>5, <2>6 DEF WholeInv
<1>6. ASSUME NEW p \in Party, ThrowMissingCommitments(p) PROVE WholeInv'
  <2>1. /\ UNCHANGED <<serverVars, completed, submitted, store, draws>>
        /\ EndDispatch(p)
    BY <1>6 DEF ThrowMissingCommitments
  <2>2. /\ dkg'[p].phase = "round0" /\ dkg[p].phase = "round0" /\ dkg'[p].poly = dkg[p].poly
        /\ dkg'[p].commitments = Commitments(p) /\ dkg'[p].shares = dkg[p].shares
        /\ \A q \in Party : q # p => dkg'[q] = dkg[q]
    BY <1>6 DEF ThrowMissingCommitments, TypeOK, Sessions
  <2>3. \A q \in Party : Commitments(p)[q] <= draws[q]
    BY <1>0, CollectedDrawn DEF Commitments, PolysDrawn, TypeOK, Sessions
  <2>4. PolysDrawn'
    BY <1>0, <2>1, <2>2, <2>3, EndDispatchPolys DEF PolysDrawn
  <2>5. SessionsFilled' /\ KeysWhole'
    BY <1>0, <2>1, <2>2 DEF SessionsFilled, FromAllOthers, KeysWhole, Whole
  <2>6. QED
    BY <2>4, <2>5 DEF WholeInv
<1>7. ASSUME NEW p \in Party, CombineShares(p) PROVE WholeInv'
  <2> DEFINE key == [commitments |-> [dkg[p].commitments EXCEPT ![p] = dkg[p].poly],
                     shares      |-> [Shares(p) EXCEPT ![p] = dkg[p].poly]]
  <2>1. /\ UNCHANGED <<serverVars, snap, out, submitted, store, draws>>
        /\ completed' = [completed EXCEPT ![p] = key]
        /\ dkg' = [dkg EXCEPT ![p] = NoSession]
        /\ dkg[p].phase = "round1"
        /\ FromAllOthers(p, Shares(p))
    BY <1>7 DEF CombineShares, CombinedKey
  <2>2. PolysDrawn'
    BY <1>0, <2>1, DefaultFields DEF PolysDrawn, TypeOK
  <2>3. SessionsFilled'
    BY <1>0, <2>1, DefaultFields DEF SessionsFilled, FromAllOthers, TypeOK
  <2>4. Whole(key)
    <3>1. Shares(p) \in Polys /\ dkg[p].commitments \in Polys /\ dkg[p].poly \in Nat
      BY CollectedType DEF TypeOK, Sessions, Shares
    <3>2. \A q \in Party : Shares(p)[q] <= draws[q]
      BY <1>0, CollectedDrawn DEF Shares, PolysDrawn, TypeOK, Sessions
    <3>3. /\ dkg[p].poly > 0 /\ dkg[p].poly <= draws[p]
          /\ \A q \in Party : dkg[p].commitments[q] <= draws[q]
          /\ \A q \in Party \ {p} : dkg[p].commitments[q] # 0
      BY <1>0, <2>1 DEF SessionsFilled, PolysDrawn, FromAllOthers
    <3>4. \A q \in Party : draws[q] \in Nat
      BY DEF TypeOK
    <3>5. QED
      BY <2>1, <3>1, <3>2, <3>3, <3>4 DEF Whole, Polys, FromAllOthers
  <2>5. KeysWhole'
    BY <1>0, <2>1, <2>4 DEF KeysWhole, Whole, TypeOK
  <2>6. QED
    BY <2>2, <2>3, <2>5 DEF WholeInv
<1>8. ASSUME NEW p \in Party, ThrowMissingShares(p) PROVE WholeInv'
  <2>1. /\ UNCHANGED <<serverVars, completed, submitted, store, draws>>
        /\ EndDispatch(p)
    BY <1>8 DEF ThrowMissingShares
  <2>2. /\ dkg'[p].phase = dkg[p].phase /\ dkg'[p].poly = dkg[p].poly
        /\ dkg'[p].shares = Shares(p) /\ dkg'[p].commitments = dkg[p].commitments
        /\ \A q \in Party : q # p => dkg'[q] = dkg[q]
    BY <1>8 DEF ThrowMissingShares, TypeOK, Sessions
  <2>3. \A q \in Party : Shares(p)[q] <= draws[q]
    BY <1>0, CollectedDrawn DEF Shares, PolysDrawn, TypeOK, Sessions
  <2>4. PolysDrawn'
    BY <1>0, <2>1, <2>2, <2>3, EndDispatchPolys DEF PolysDrawn
  <2>5. SessionsFilled' /\ KeysWhole'
    BY <1>0, <2>1, <2>2 DEF SessionsFilled, FromAllOthers, KeysWhole, Whole
  <2>6. QED
    BY <2>4, <2>5 DEF WholeInv
<1>9. ASSUME NEW p \in Party, PersistShare(p) PROVE WholeInv'
  <2>1. /\ UNCHANGED <<serverVars, memoryVars, draws>>
        /\ Submit(p, "complete", 0, LastRound)
        /\ store' = [store EXCEPT ![p] = completed[p]]
    BY <1>9 DEF PersistShare
  <2>2. PolysDrawn'
    BY <1>0, <2>1, SubmitPolys DEF PolysDrawn, TypeOK
  <2>3. SessionsFilled' /\ KeysWhole'
    BY <1>0, <2>1 DEF SessionsFilled, FromAllOthers, KeysWhole, Whole, TypeOK
  <2>4. QED
    BY <2>2, <2>3 DEF WholeInv
<1>10. ASSUME NEW p \in Party, UpdateTask(p) \/ UpdateTaskFails(p) PROVE WholeInv'
  <2>1. /\ UNCHANGED <<contribs, dkg, completed, store, draws>>
        /\ EndDispatch(p)
        /\ inbox' = inbox \/ inbox' = Recorded(p)
    BY <1>10 DEF UpdateTask, UpdateTaskFails
  <2>2. \A q \in Party : inbox'[q].poly <= draws[q]
    BY <1>0, <2>1 DEF Recorded, PolysDrawn, TypeOK
  <2>3. PolysDrawn'
    BY <1>0, <2>1, <2>2, EndDispatchPolys DEF PolysDrawn
  <2>4. SessionsFilled' /\ KeysWhole'
    BY <1>0, <2>1 DEF SessionsFilled, FromAllOthers, KeysWhole, Whole
  <2>5. QED
    BY <2>3, <2>4 DEF WholeInv
<1>11. ASSUME NEW p \in Party, Restart(p) PROVE WholeInv'
  <2>1. /\ UNCHANGED <<contribs, draws>>
        /\ EndDispatch(p)
        /\ inbox' = inbox \/ inbox' = Recorded(p)
        /\ store' = store \/ store' = [store EXCEPT ![p] = completed[p]]
        /\ dkg' = [dkg EXCEPT ![p] = NoSession]
        /\ completed' = [completed EXCEPT ![p] = NoKey]
    BY <1>11 DEF Restart
  <2>2. \A q \in Party : inbox'[q].poly <= draws[q]
    BY <1>0, <2>1 DEF Recorded, PolysDrawn, TypeOK
  <2>3. \A r, q \in Party : /\ dkg'[q].poly <= draws[q]
                            /\ dkg'[r].commitments[q] <= draws[q]
                            /\ dkg'[r].shares[q] <= draws[q]
    BY <1>0, <2>1, DefaultFields DEF PolysDrawn, TypeOK
  <2>4. PolysDrawn'
    BY <1>0, <2>1, <2>2, <2>3, EndDispatchPolys DEF PolysDrawn
  <2>5. SessionsFilled'
    BY <1>0, <2>1, DefaultFields DEF SessionsFilled, FromAllOthers, TypeOK
  <2>6. KeysWhole'
    BY <1>0, <2>1 DEF KeysWhole, Whole, TypeOK
  <2>7. QED
    BY <2>4, <2>5, <2>6 DEF WholeInv
<1>12. ASSUME AdvanceRound PROVE WholeInv'
  <2>1. PolysDrawn'
    BY <1>0, <1>12, DefaultFields DEF PolysDrawn, AdvanceRound, TypeOK
  <2>2. SessionsFilled' /\ KeysWhole'
    BY <1>0, <1>12 DEF SessionsFilled, FromAllOthers, KeysWhole, Whole, AdvanceRound
  <2>3. QED
    BY <2>1, <2>2 DEF WholeInv
<1>13. ASSUME FinishTask \/ UNCHANGED vars PROVE WholeInv'
  BY <1>13 DEF FinishTask, vars, WholeInv, PolysDrawn, SessionsFilled, FromAllOthers,
               KeysWhole, Whole
<1>14. QED
  BY <1>1, <1>2, <1>3, <1>4, <1>5, <1>6, <1>7, <1>8, <1>9, <1>10, <1>11, <1>12, <1>13
  DEF Next, Tick, Fault, Server, ProcessDKG

LEMMA WholeInvHolds == Spec => []WholeInv
<1>1. Init => WholeInv
  <2> SUFFICES ASSUME Init PROVE WholeInv
    OBVIOUS
  <2>1. PolysDrawn /\ SessionsFilled
    BY DefaultFields DEF Init, PolysDrawn, SessionsFilled
  <2>2. KeysWhole
    BY DEF Init, KeysWhole
  <2>3. QED
    BY <2>1, <2>2 DEF WholeInv
<1>2. TypeOK /\ WholeInv /\ [Next]_vars => WholeInv'
  BY WholeInvInductive
<1>3. QED
  BY <1>1, <1>2, TypeCorrect, PTL DEF Spec

(* A stored share combines one polynomial of every party, whatever fails   *)
(* and restarts.                                                           *)
THEOREM StoredKeysWhole == Spec => []StoredKeysAreWhole
<1>1. WholeInv => StoredKeysAreWhole
  BY DEF WholeInv, KeysWhole, Whole, StoredKeysAreWhole, Stored
<1>2. QED
  BY <1>1, WholeInvHolds, PTL

-------------------------------------------------------------------------------
(* Without restarts every party draws at most once.                        *)
LEMMA DrawnOnceInductive ==
  ASSUME TypeOK, WholeInv, DrawnOnce, [Next]_vars
  PROVE  DrawnOnce'
<1> USE DEF serverVars, tickVars, memoryVars, budgetVars
<1>1. ASSUME NEW p \in Party,
             \/ ListTasks(p) \/ SkipSubmitted(p) \/ ReemitCompletion(p)
             \/ ResubmitRound0(p) \/ ThrowNoSession(p) \/ PersistShare(p)
             \/ PersistFails(p) \/ UpdateTask(p) \/ UpdateTaskFails(p)
      PROVE  DrawnOnce'
  <2>1. UNCHANGED <<dkg, completed, draws, restarts>>
    BY <1>1 DEF ListTasks, SkipSubmitted, ReemitCompletion, ResubmitRound0,
                ThrowNoSession, PersistShare, PersistFails, UpdateTask, UpdateTaskFails
  <2>2. QED
    BY <2>1 DEF DrawnOnce
<1>2. ASSUME NEW p \in Party, DrawPolynomial(p) PROVE DrawnOnce'
  <2>1. /\ dkg[p].phase = "none" /\ completed[p] = NoKey
        /\ dkg'[p].phase = "round0"
        /\ draws'[p] = draws[p] + 1
        /\ \A q \in Party : q # p => dkg'[q] = dkg[q] /\ draws'[q] = draws[q]
        /\ UNCHANGED <<completed, restarts>>
    BY <1>2 DEF DrawPolynomial, TypeOK
  <2>2. \A q \in Party : draws[q] \in Nat
    BY DEF TypeOK
  <2>3. QED
    BY <2>1, <2>2 DEF DrawnOnce
<1>3. ASSUME NEW p \in Party,
             \/ SendShares(p) \/ ThrowMissingCommitments(p) \/ ThrowMissingShares(p)
      PROVE  DrawnOnce'
  <2>1. /\ dkg'[p].phase # "none"
        /\ \A q \in Party : q # p => dkg'[q] = dkg[q]
        /\ UNCHANGED <<completed, draws, restarts>>
    BY <1>3 DEF SendShares, ThrowMissingCommitments, ThrowMissingShares, TypeOK, Sessions
  <2>2. QED
    BY <2>1 DEF DrawnOnce
<1>4. ASSUME NEW p \in Party, CombineShares(p) PROVE DrawnOnce'
  <2>1. WholeInv'
    BY WholeInvInductive
  <2>2. /\ completed'[p].commitments[p] = dkg[p].poly
        /\ \A q \in Party : q # p => dkg'[q] = dkg[q] /\ completed'[q] = completed[q]
        /\ UNCHANGED <<draws, restarts>>
    BY <1>4 DEF CombineShares, CombinedKey, TypeOK, Sessions, Polys
  <2>3. completed'[p] # NoKey
    <3>1. dkg[p].poly > 0
      BY <1>4 DEF CombineShares, WholeInv, SessionsFilled
    <3>2. NoKey.commitments[p] = 0
      BY DEF NoKey, NoPolys
    <3>3. dkg[p].poly \in Nat
      BY DEF TypeOK, Sessions
    <3>4. QED
      BY <2>2, <3>1, <3>2, <3>3
  <2>4. QED
    BY <2>2, <2>3 DEF DrawnOnce
<1>5. ASSUME NEW p \in Party, Restart(p) PROVE DrawnOnce'
  BY <1>5 DEF Restart, DrawnOnce, TypeOK
<1>6. ASSUME Server \/ UNCHANGED vars PROVE DrawnOnce'
  BY <1>6 DEF Server, AdvanceRound, FinishTask, vars, DrawnOnce
<1>7. QED
  BY <1>1, <1>2, <1>3, <1>4, <1>5, <1>6 DEF Next, Tick, Fault, ProcessDKG

(* Calls that fail, repeat or are answered late never make two parties     *)
(* hold shares of different keys, or shares that do not fit their key.     *)
THEOREM Agreement == Spec => []AgreementWithoutRestart
<1>1. Init => DrawnOnce
  <2>1. ASSUME Init, NEW p \in Party
        PROVE  draws[p] <= 1 /\ draws[p] # 1
    <3>1. draws[p] = 0
      BY <2>1 DEF Init
    <3>2. QED
      BY <3>1
  <2>2. QED
    BY <2>1 DEF DrawnOnce
<1>2. TypeOK /\ WholeInv /\ DrawnOnce /\ [Next]_vars => DrawnOnce'
  BY DrawnOnceInductive
<1>3. TypeOK /\ WholeInv /\ DrawnOnce => AgreementWithoutRestart
  <2> SUFFICES ASSUME TypeOK, WholeInv, DrawnOnce, restarts = 0,
                      NEW p \in Party, NEW q \in Party, Stored(p), Stored(q)
               PROVE  /\ store[p].commitments = store[q].commitments
                      /\ store[p].shares = store[p].commitments
    BY DEF AgreementWithoutRestart, SharesMatchKey
  <2>1. \A r \in Party : draws[r] \in Nat /\ draws[r] <= 1
    BY DEF TypeOK, DrawnOnce
  <2>2. \A r \in Party : /\ store[p].commitments[r] = 1 /\ store[p].shares[r] = 1
                         /\ store[q].commitments[r] = 1
    <3>1. Whole(store[p]) /\ Whole(store[q])
      BY DEF WholeInv, KeysWhole, Stored
    <3>2. ASSUME NEW r \in Party
          PROVE  /\ store[p].commitments[r] \in 1 .. draws[r]
                 /\ store[p].shares[r] \in 1 .. draws[r]
                 /\ store[q].commitments[r] \in 1 .. draws[r]
      BY <3>1 DEF Whole
    <3>3. ASSUME NEW r \in Party, NEW n \in 1 .. draws[r]
          PROVE  n = 1
      BY <2>1
    <3>4. QED
      BY <3>2, <3>3
  <2>3. /\ store[p].commitments \in Polys /\ store[p].shares \in Polys
        /\ store[q].commitments \in Polys
    BY DEF TypeOK, Keys
  <2>4. QED
    BY <2>2, <2>3 DEF Polys
<1>4. QED
  BY <1>1, <1>2, <1>3, TypeCorrect, WholeInvHolds, PTL DEF Spec

-------------------------------------------------------------------------------
(* With a storage that does not fail, completion is reported only when     *)
(* stored.                                                                 *)
LEMMA ReportedStoredInductive ==
  ASSUME TypeOK, WholeInv, ReportedStored, ~StorageMayFail, [Next]_vars
  PROVE  ReportedStored'
<1> USE DEF serverVars, tickVars, memoryVars, budgetVars
<1> USE DEF Stored
<1>1. ASSUME NEW p \in Party, ListTasks(p) PROVE ReportedStored'
  BY <1>1 DEF ListTasks, ReportedStored, TypeOK
<1>2. ASSUME NEW p \in Party,
             \/ SkipSubmitted(p) \/ ThrowNoSession(p) \/ ThrowMissingCommitments(p)
             \/ ThrowMissingShares(p)
      PROVE  ReportedStored'
  <2>1. /\ EndDispatch(p) /\ pc[p] = "polled"
        /\ UNCHANGED <<inbox, completed, store, done>>
    BY <1>2 DEF SkipSubmitted, ThrowNoSession, ThrowMissingCommitments,
                ThrowMissingShares, Processing
  <2>2. QED
    BY <2>1 DEF EndDispatch, ReportedStored, TypeOK, NoContribution
<1>3. ASSUME NEW p \in Party,
             \/ ResubmitRound0(p) \/ DrawPolynomial(p) \/ SendShares(p)
      PROVE  ReportedStored'
  <2>1. /\ UNCHANGED <<inbox, completed, store, done>>
        /\ pc[p] = "polled"
        /\ \E kind \in {"empty", "commit", "shares"} :
              \E poly, r : Submit(p, kind, poly, r)
    BY <1>3 DEF ResubmitRound0, DrawPolynomial, SendShares, Processing
  <2>2. QED
    BY <2>1 DEF Submit, ReportedStored, TypeOK
<1>4. ASSUME NEW p \in Party, ReemitCompletion(p) PROVE ReportedStored'
  BY <1>4 DEF ReemitCompletion, Processing, Submit, ReportedStored, TypeOK
<1>5. ASSUME NEW p \in Party, CombineShares(p) PROVE ReportedStored'
  <2>1. completed'[p] # NoKey
    <3>1. dkg[p].poly \in Nat /\ dkg[p].poly > 0
      BY <1>5 DEF CombineShares, WholeInv, SessionsFilled, TypeOK, Sessions
    <3>2. completed'[p].commitments[p] = dkg[p].poly
      BY <1>5 DEF CombineShares, CombinedKey, TypeOK, Sessions, Polys
    <3>3. NoKey.commitments[p] = 0
      BY DEF NoKey, NoPolys
    <3>4. QED
      BY <3>1, <3>2, <3>3
  <2>2. QED
    BY <1>5, <2>1 DEF CombineShares, ReportedStored, TypeOK
<1>6. ASSUME NEW p \in Party, PersistShare(p) PROVE ReportedStored'
  <2>1. completed[p] # NoKey
    BY <1>6 DEF PersistShare, ReportedStored
  <2>2. QED
    BY <1>6, <2>1 DEF PersistShare, Submit, ReportedStored, TypeOK
<1>7. ASSUME NEW p \in Party, PersistFails(p) PROVE ReportedStored'
  BY <1>7 DEF PersistFails
<1>8. ASSUME NEW p \in Party, UpdateTask(p) \/ UpdateTaskFails(p)
      PROVE  ReportedStored'
  <2>1. /\ EndDispatch(p) /\ pc[p] = "submitting"
        /\ UNCHANGED <<completed, store, done>>
        /\ inbox' = inbox \/ inbox' = [inbox EXCEPT ![p] = out[p]]
    BY <1>8 DEF UpdateTask, UpdateTaskFails, Recorded
  <2>2. QED
    BY <2>1 DEF EndDispatch, ReportedStored, TypeOK, NoContribution
<1>9. ASSUME NEW p \in Party, Restart(p) PROVE ReportedStored'
  <2>1. /\ EndDispatch(p) /\ done' = done
        /\ completed' = [completed EXCEPT ![p] = NoKey]
        /\ inbox' = inbox \/ inbox' = [inbox EXCEPT ![p] = out[p]]
        /\ \A q \in Party : store[q] # NoKey => store'[q] # NoKey
        /\ \A q \in Party : q # p => store'[q] = store[q]
    BY <1>9 DEF Restart, Recorded, TypeOK, ReportedStored
  <2>2. QED
    BY <2>1 DEF EndDispatch, ReportedStored, TypeOK, NoContribution
<1>10. ASSUME Server \/ UNCHANGED vars PROVE ReportedStored'
  BY <1>10 DEF Server, AdvanceRound, FinishTask, vars, ReportedStored, NoContribution
<1>11. QED
  BY <1>1, <1>2, <1>3, <1>4, <1>5, <1>6, <1>7, <1>8, <1>9, <1>10
  DEF Next, Tick, Fault, ProcessDKG

LEMMA ReportedStoredHolds ==
  ASSUME ~StorageMayFail
  PROVE  Spec => []ReportedStored
<1>1. Init => ReportedStored
  <2> SUFFICES ASSUME Init, NEW p \in Party
               PROVE  /\ inbox[p].kind = "none" /\ out[p].kind = "none"
                      /\ completed[p] = NoKey /\ pc[p] = "idle" /\ ~done
    BY DEF ReportedStored
  <2>1. inbox[p].kind = "none" /\ out[p].kind = "none"
    BY DefaultFields DEF Init
  <2>2. QED
    BY <2>1 DEF Init
<1>2. TypeOK /\ WholeInv /\ ReportedStored /\ [Next]_vars => ReportedStored'
  BY ReportedStoredInductive
<1>3. QED
  BY <1>1, <1>2, TypeCorrect, WholeInvHolds, PTL DEF Spec

(* The wallet's key is never reported as created while a party's share is  *)
(* not in its storage, provided storage does not fail.                     *)
THEOREM CreatedKeysAreStored ==
  ASSUME ~StorageMayFail
  PROVE  Spec => []DoneImpliesStored
<1>1. ReportedStored => DoneImpliesStored
  BY DEF ReportedStored, DoneImpliesStored
<1>2. QED
  BY <1>1, ReportedStoredHolds, PTL

-------------------------------------------------------------------------------
(* The two sets of the refinement mapping, named for the proofs below.     *)
Bound == {p \in Party : draws[p] > 0}
Holders == {p \in Party : Stored(p)}

(* A party whose finished share reaches storage joins the holders; it can  *)
(* only do so when everybody is bound.                                     *)
LEMMA StoringIsHolding ==
  ASSUME TypeOK, WholeInv, ReportedStored, ~StorageMayFail, NEW p \in Party,
         pc[p] = "persisting", store' = [store EXCEPT ![p] = completed[p]],
         UNCHANGED <<draws, done>>
  PROVE  Ceremony!Hold(p) \/ UNCHANGED <<Bound, Holders, done>>
<1>1. completed[p] # NoKey
  BY DEF ReportedStored
<1>2. \A q \in Party : draws[q] > 0
  <2>1. Whole(completed[p])
    BY <1>1 DEF WholeInv, KeysWhole
  <2>2. QED
    BY <2>1 DEF Whole, TypeOK
<1>3. \A q \in Party : Stored(q)' <=> Stored(q) \/ q = p
  BY <1>1 DEF Stored, TypeOK
<1>4. Bound' = Bound /\ Bound = Party
  BY <1>2 DEF Bound
<1>5. Holders' = Holders \cup {p}
  BY <1>3 DEF Holders
<1>6. CASE p \in Holders
  BY <1>4, <1>5, <1>6
<1>7. CASE p \notin Holders
  BY <1>4, <1>5, <1>7 DEF Ceremony!Hold, Bound, Holders
<1>8. QED
  BY <1>6, <1>7

(* The DKG implements the key ceremony: every step of the rounds is a step *)
(* of the ceremony or invisible to it.                                     *)
THEOREM RefinesCeremony ==
  ASSUME ~StorageMayFail
  PROVE  Spec => ImplementsCeremony
<1>1. Init => Ceremony!CeremonyInit
  <2> SUFFICES ASSUME Init PROVE Ceremony!CeremonyInit
    OBVIOUS
  <2>1. \A p \in Party : draws[p] = 0 /\ store[p] = NoKey
    BY DEF Init
  <2>2. Bound = {} /\ Holders = {}
    BY <2>1 DEF Bound, Holders, Stored
  <2>3. QED
    BY <2>2 DEF Ceremony!CeremonyInit, Bound, Holders, Init
<1>2. TypeOK /\ WholeInv /\ ReportedStored /\ [Next]_vars
      => [Ceremony!CeremonyNext]_(Ceremony!ceremonyVars)
  <2> SUFFICES ASSUME TypeOK, WholeInv, ReportedStored, [Next]_vars
               PROVE  Ceremony!CeremonyNext \/ UNCHANGED <<Bound, Holders, done>>
    BY DEF Ceremony!ceremonyVars, Bound, Holders
  <2> USE DEF serverVars, tickVars, memoryVars, budgetVars
  <2>1. ASSUME UNCHANGED <<draws, store, done>>
        PROVE  UNCHANGED <<Bound, Holders, done>>
    BY <2>1 DEF Bound, Holders, Stored
  <2>2. ASSUME NEW p \in Party,
               \/ ListTasks(p) \/ SkipSubmitted(p) \/ ReemitCompletion(p)
               \/ ResubmitRound0(p) \/ ThrowNoSession(p) \/ SendShares(p)
               \/ ThrowMissingCommitments(p) \/ CombineShares(p)
               \/ ThrowMissingShares(p) \/ PersistFails(p)
               \/ UpdateTask(p) \/ UpdateTaskFails(p)
        PROVE  UNCHANGED <<draws, store, done>>
    BY <2>2 DEF ListTasks, SkipSubmitted, ReemitCompletion, ResubmitRound0,
                ThrowNoSession, SendShares, ThrowMissingCommitments, CombineShares,
                ThrowMissingShares, PersistFails, UpdateTask, UpdateTaskFails
  <2>3. ASSUME NEW p \in Party, DrawPolynomial(p)
        PROVE  Ceremony!Bind(p) \/ UNCHANGED <<Bound, Holders, done>>
    <3>1. /\ UNCHANGED <<store, done>>
          /\ \A q \in Party : draws'[q] = IF q = p THEN draws[q] + 1 ELSE draws[q]
          /\ \A q \in Party : draws[q] \in Nat
      BY <2>3 DEF DrawPolynomial, TypeOK
    <3>2. Holders' = Holders
      BY <3>1 DEF Holders, Stored
    <3>3. \A q \in Party : draws'[q] > 0 <=> draws[q] > 0 \/ q = p
      BY <3>1
    <3>4. Bound' = Bound \cup {p}
      BY <3>3 DEF Bound
    <3>5. CASE p \in Bound
      BY <3>1, <3>2, <3>4, <3>5
    <3>6. CASE p \notin Bound
      BY <3>1, <3>2, <3>4, <3>6 DEF Ceremony!Bind, Bound, Holders
    <3>7. QED
      BY <3>5, <3>6
  <2>4. ASSUME NEW p \in Party, PersistShare(p) \/ Restart(p)
        PROVE  Ceremony!Hold(p) \/ UNCHANGED <<Bound, Holders, done>>
    <3>1. /\ UNCHANGED <<draws, done>>
          /\ \/ store' = store
             \/ pc[p] = "persisting" /\ store' = [store EXCEPT ![p] = completed[p]]
      BY <2>4 DEF PersistShare, Restart
    <3>2. CASE store' = store
      BY <2>1, <3>1, <3>2
    <3>3. CASE pc[p] = "persisting" /\ store' = [store EXCEPT ![p] = completed[p]]
      BY <3>1, <3>3, StoringIsHolding
    <3>4. QED
      BY <3>1, <3>2, <3>3
  <2>5. ASSUME AdvanceRound \/ UNCHANGED vars
        PROVE  UNCHANGED <<draws, store, done>>
    BY <2>5 DEF AdvanceRound, vars
  <2>6. ASSUME FinishTask PROVE Ceremony!Conclude
    <3>1. Holders = Party
      BY <2>6 DEF FinishTask, ReportedStored, Holders
    <3>2. Bound' = Bound /\ Holders' = Holders
      BY <2>6 DEF FinishTask, Bound, Holders, Stored
    <3>3. QED
      BY <2>6, <3>1, <3>2 DEF FinishTask, Ceremony!Conclude, Bound, Holders
  <2>7. QED
    BY <2>1, <2>2, <2>3, <2>4, <2>5, <2>6
    DEF Next, Tick, Fault, Server, ProcessDKG, Ceremony!CeremonyNext
<1>3. QED
  BY <1>1, <1>2, TypeCorrect, WholeInvHolds, ReportedStoredHolds, PTL
  DEF Spec, ImplementsCeremony, Ceremony!CeremonySpec

-------------------------------------------------------------------------------
(* In the share round, whatever a session holds of another party, submits  *)
(* or has submitted as shares rests on a commitment that the server handed *)
(* out with this round: earlier there are no commitments to hold.          *)
Committed(p) == \A q \in Party \ {p} : contribs[q].kind = "commit"
Listed == \A p \in Party : /\ snap[p].round <= round
                           /\ snap[p].round = 1 /\ round = 1 => snap[p].contribs = contribs
NothingYet ==
  round = 0 => \A p \in Party : /\ out[p].kind # "shares"
                                /\ \A q \in Party : dkg[p].commitments[q] = 0
HeldCommitted ==
  round = 1 => \A p \in Party :
    /\ \A q \in Party \ {p} : dkg[p].commitments[q] # 0 => contribs[q].kind = "commit"
    /\ out[p].kind = "shares" => Committed(p)
    /\ inbox[p].kind = "shares" => Committed(p)
RoundInv == Listed /\ NothingYet /\ HeldCommitted

LEMMA RoundInvInit == ASSUME Init PROVE RoundInv
<1>1. round = 0 /\ NoTask.round = 0
  BY DEF Init, NoTask
<1>2. \A p \in Party : snap[p] = NoTask /\ out[p] = NoContribution /\ dkg[p] = NoSession
  BY DEF Init
<1>3. Listed
  <2>1. \A p \in Party : snap[p].round = 0
    BY <1>1, <1>2
  <2>2. 0 <= 0 /\ 0 # 1
    OBVIOUS
  <2>3. QED
    BY <1>1, <2>1, <2>2 DEF Listed
<1>4. NothingYet
  BY <1>2, DefaultFields DEF NothingYet
<1>5. HeldCommitted
  BY <1>1 DEF HeldCommitted
<1>6. QED
  BY <1>3, <1>4, <1>5 DEF RoundInv

(* A step that leaves the server's round alone, seen from the sidecar that *)
(* takes it.                                                               *)
LEMMA RoundInvKept ==
  ASSUME TypeOK, RoundInv, NEW p \in Party, UNCHANGED <<round, contribs>>,
         snap'[p] \in {snap[p], NoTask, [round |-> round, contribs |-> contribs]},
         \A r \in Party \ {p} : snap'[r] = snap[r] /\ out'[r] = out[r] /\ dkg'[r] = dkg[r],
         inbox' = inbox \/ inbox' = Recorded(p),
         dkg'[p].commitments = dkg[p].commitments
           \/ dkg'[p].commitments = NoPolys
           \/ (round # 0 /\ (round = 1 => \A q \in Party \ {p} :
                 dkg'[p].commitments[q] # 0 => contribs[q].kind = "commit")),
         out'[p].kind = "shares" =>
           out'[p] = out[p] \/ (round # 0 /\ (round = 1 => Committed(p)))
  PROVE  RoundInv'
<1> USE DEF RoundInv
<1>1. round \in Nat /\ snap[p].round \in Nat
  BY DEF TypeOK, Tasks
<1>2. Listed'
  BY <1>1 DEF Listed, NoTask
<1>3. NothingYet'
  BY <1>1, DefaultFields DEF NothingYet
<1>4. HeldCommitted'
  <2> SUFFICES ASSUME round = 1
               PROVE  \A r \in Party :
                        /\ \A q \in Party \ {r} :
                             dkg'[r].commitments[q] # 0 => contribs[q].kind = "commit"
                        /\ out'[r].kind = "shares" => Committed(r)
                        /\ inbox'[r].kind = "shares" => Committed(r)
    BY DEF HeldCommitted, Committed
  <2>1. \A r \in Party : inbox'[r] \in {inbox[r], out[r]}
    BY DEF Recorded, TypeOK
  <2>2. QED
    BY <2>1, DefaultFields DEF HeldCommitted
<1>5. QED
  BY <1>2, <1>3, <1>4

(* What a session has collected in the share round was committed to.       *)
LEMMA CollectedCommitted ==
  ASSUME TypeOK, RoundInv, NEW p \in Party, snap[p].round > 0
  PROVE  /\ round # 0
         /\ round = 1 => \A q \in Party \ {p} :
              Commitments(p)[q] # 0 => contribs[q].kind = "commit"
<1>1. round \in Nat /\ snap[p].round \in Nat /\ snap[p].round <= round
  BY DEF TypeOK, Tasks, RoundInv, Listed
<1>2. round = 1 => snap[p].contribs = contribs
  BY <1>1 DEF RoundInv, Listed
<1>3. QED
  BY <1>1, <1>2 DEF Commitments, Collected, RoundInv, HeldCommitted

LEMMA RoundInvInductive ==
  ASSUME TypeOK, RoundInv, [Next]_vars
  PROVE  RoundInv'
<1> USE DEF serverVars, tickVars, memoryVars, budgetVars
<1>1. ASSUME NEW p \in Party, ListTasks(p) PROVE RoundInv'
  <2>1. /\ UNCHANGED <<round, contribs, inbox, out, dkg>>
        /\ snap' = snap \/ snap' = [snap EXCEPT ![p] = [round |-> round, contribs |-> contribs]]
    BY <1>1 DEF ListTasks
  <2>2. snap'[p] \in {snap[p], [round |-> round, contribs |-> contribs]}
        /\ \A r \in Party \ {p} : snap'[r] = snap[r]
    BY <2>1 DEF TypeOK
  <2>3. QED
    BY <2>1, <2>2, RoundInvKept
<1>2. ASSUME NEW p \in Party, EndDispatch(p), UNCHANGED <<round, contribs>>,
             inbox' = inbox \/ inbox' = Recorded(p),
             \A r \in Party \ {p} : dkg'[r] = dkg[r],
             dkg'[p].commitments = dkg[p].commitments
               \/ dkg'[p].commitments = NoPolys
               \/ (dkg'[p].commitments = Commitments(p) /\ snap[p].round > 0)
      PROVE  RoundInv'
  <2>1. /\ snap'[p] = NoTask /\ out'[p].kind = "none"
        /\ \A r \in Party \ {p} : snap'[r] = snap[r] /\ out'[r] = out[r]
    BY <1>2, DefaultFields DEF EndDispatch, TypeOK
  <2>2. QED
    BY <1>2, <2>1, CollectedCommitted, RoundInvKept
<1>3. ASSUME NEW p \in Party,
             \/ SkipSubmitted(p) \/ ThrowNoSession(p) \/ ThrowMissingCommitments(p)
             \/ ThrowMissingShares(p) \/ PersistFails(p) \/ UpdateTask(p)
             \/ UpdateTaskFails(p) \/ Restart(p)
      PROVE  RoundInv'
  <2>1. /\ EndDispatch(p) /\ UNCHANGED <<round, contribs>>
        /\ inbox' = inbox \/ inbox' = Recorded(p)
    BY <1>3 DEF SkipSubmitted, ThrowNoSession, ThrowMissingCommitments, ThrowMissingShares,
                PersistFails, UpdateTask, UpdateTaskFails, Restart
  <2>2. \A r \in Party \ {p} : dkg'[r] = dkg[r]
    BY <1>3 DEF SkipSubmitted, ThrowNoSession, ThrowMissingCommitments, ThrowMissingShares,
                PersistFails, UpdateTask, UpdateTaskFails, Restart, TypeOK
  <2>3. \/ dkg'[p].commitments = dkg[p].commitments
        \/ dkg'[p].commitments = NoPolys
        \/ dkg'[p].commitments = Commitments(p) /\ snap[p].round > 0
    BY <1>3 DEF SkipSubmitted, ThrowNoSession, ThrowMissingCommitments, ThrowMissingShares,
                PersistFails, UpdateTask, UpdateTaskFails, Restart, TypeOK, Sessions, NoSession
  <2>4. QED
    BY <1>2, <2>1, <2>2, <2>3
<1>4. ASSUME NEW p \in Party, NEW kind, NEW poly, NEW r, Submit(p, kind, poly, r),
             UNCHANGED <<round, contribs, inbox>>,
             \A q \in Party \ {p} : dkg'[q] = dkg[q],
             dkg'[p].commitments = dkg[p].commitments
               \/ dkg'[p].commitments = NoPolys
               \/ (dkg'[p].commitments = Commitments(p) /\ snap[p].round > 0),
             kind # "shares" \/ (snap[p].round > 0 /\ FromAllOthers(p, Commitments(p)))
      PROVE  RoundInv'
  <2>1. /\ snap' = snap /\ out'[p].kind = kind
        /\ \A q \in Party \ {p} : out'[q] = out[q]
    BY <1>4 DEF Submit, TypeOK
  <2>2. kind = "shares" => round # 0 /\ (round = 1 => Committed(p))
    BY <1>4, CollectedCommitted DEF FromAllOthers, Committed
  <2>3. QED
    BY <1>4, <2>1, <2>2, CollectedCommitted, RoundInvKept
<1>5. ASSUME NEW p \in Party,
             \/ ReemitCompletion(p) \/ ResubmitRound0(p) \/ PersistShare(p)
      PROVE  RoundInv'
  <2>1. /\ \E kind \in {"complete", "empty"} : \E poly, r : Submit(p, kind, poly, r)
        /\ UNCHANGED <<round, contribs, inbox, dkg>>
    BY <1>5 DEF ReemitCompletion, ResubmitRound0, PersistShare
  <2>2. QED
    BY <1>4, <2>1
<1>6. ASSUME NEW p \in Party, DrawPolynomial(p) PROVE RoundInv'
  <2>1. /\ Submit(p, "commit", draws[p] + 1, 0) /\ UNCHANGED <<round, contribs, inbox>>
        /\ dkg'[p].commitments = NoPolys /\ \A q \in Party \ {p} : dkg'[q] = dkg[q]
    BY <1>6 DEF DrawPolynomial, TypeOK, NoSession
  <2>2. QED
    BY <1>4, <2>1
<1>7. ASSUME NEW p \in Party, SendShares(p) PROVE RoundInv'
  <2>1. /\ Submit(p, "shares", dkg[p].poly, snap[p].round)
        /\ UNCHANGED <<round, contribs, inbox>>
        /\ snap[p].round > 0 /\ FromAllOthers(p, Commitments(p))
        /\ dkg'[p].commitments = Commitments(p) /\ \A q \in Party \ {p} : dkg'[q] = dkg[q]
    BY <1>7 DEF SendShares, TypeOK, Sessions
  <2>2. QED
    BY <1>4, <2>1
<1>8. ASSUME NEW p \in Party, CombineShares(p) PROVE RoundInv'
  <2>1. /\ UNCHANGED <<round, contribs, inbox, snap, out>>
        /\ dkg'[p].commitments = NoPolys /\ \A q \in Party \ {p} : dkg'[q] = dkg[q]
    BY <1>8 DEF CombineShares, TypeOK, NoSession
  <2>2. QED
    BY <2>1, RoundInvKept
<1>9. ASSUME AdvanceRound PROVE RoundInv'
  <2>1. /\ round' = round + 1 /\ round \in Nat /\ UNCHANGED <<snap, out, dkg>>
        /\ \A p \in Party : inbox'[p].kind = "none" /\ snap[p].round \in Nat
    BY <1>9, DefaultFields DEF AdvanceRound, TypeOK, Tasks
  <2>2. Listed'
    BY <2>1 DEF RoundInv, Listed
  <2>3. NothingYet'
    BY <2>1 DEF NothingYet
  <2>4. HeldCommitted'
    <3>1. round' = 1 => round = 0
      BY <2>1
    <3>2. QED
      BY <2>1, <3>1 DEF RoundInv, NothingYet, HeldCommitted
  <2>5. QED
    BY <2>2, <2>3, <2>4 DEF RoundInv
<1>10. CASE FinishTask \/ UNCHANGED vars
  BY <1>10 DEF FinishTask, vars, RoundInv, Listed, NothingYet, HeldCommitted, Committed
<1>11. QED
  BY <1>1, <1>3, <1>5, <1>6, <1>7, <1>8, <1>9, <1>10 DEF Next, Tick, Fault, Server, ProcessDKG

(* Nobody's shares are accepted in the share round before everybody else   *)
(* is bound by published commitments (decaf448.ts:471-476), for every set  *)
(* of parties and however often calls fail and sidecars restart.           *)
THEOREM SharesAfterCommitments == Spec => []SharesNeedAllCommitments
<1>1. RoundInv => SharesNeedAllCommitments
  BY DEF RoundInv, HeldCommitted, Committed, SharesNeedAllCommitments
<1>2. Init => RoundInv
  BY RoundInvInit
<1>3. TypeOK /\ RoundInv /\ [Next]_vars => RoundInv'
  BY RoundInvInductive
<1>4. QED
  BY <1>1, <1>2, <1>3, TypeCorrect, PTL DEF Spec

===============================================================================
