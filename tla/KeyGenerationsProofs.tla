------------------------ MODULE KeyGenerationsProofs ------------------------
(***************************************************************************)
(* Proofs about key generation behind the WASM boundary, for every set of  *)
(* parties and any number of failures and restarts.  The first half is of  *)
(* SessionDkg: type correctness, one key for all shares whatever fails,    *)
(* and sessions in step with the task while nothing does.  The second is   *)
(* the same of RsaKeyGen, whose definitions are MCKeyGenerations' Rsa: one *)
(* modulus and one lambda, shares that sign together, and lockstep.        *)
(***************************************************************************)
EXTENDS MCKeyGenerations, FiniteSetTheorems, WellFoundedInduction, TLAPS

-------------------------------------------------------------------------------
(* One key.  A party draws only in round 0, so what it has drawn last is   *)
(* final once it is past that round; and whatever is of a later step than  *)
(* the first was sent by a party that is.                                  *)
Settled(q) == round > 0 /\ (pc[q] = "polled" => snap[q].round > 0)
AllSettled == \A q \in Party : Settled(q)

LateIsFinal(m, q) == m.kind = "message" /\ m.step > 1 => m.draw = draws[q] /\ Settled(q)
MessagesFinal ==
  \A q \in Party :
    /\ LateIsFinal(inbox[q], q) /\ LateIsFinal(contribs[q], q) /\ LateIsFinal(out[q], q)
    /\ \A p \in Party : LateIsFinal(snap[p].contribs[q], q)

SessionsFinal ==
  \A p \in Party :
    /\ sess[p].step > 0 => sess[p].draw = draws[p]
    /\ sess[p].step > 1 => Settled(p) /\ sess[p].heard[p] = sess[p].draw

IsTheKey(key) == key # NoKey => key = draws /\ AllSettled
KeysFinal ==
  protocol # "frost" => \A p \in Party : IsTheKey(completed[p]) /\ IsTheKey(store[p])

SnapsPast == \A p \in Party : snap[p].round <= round

DrawInv == TypeOK /\ SnapsPast /\ MessagesFinal /\ SessionsFinal /\ KeysFinal

-------------------------------------------------------------------------------
(* In step.  Without failures every party is, in every round, before, at   *)
(* or past its one contribution.                                           *)
Steps == IF protocol = "dkls23" THEN 3 ELSE IF protocol = "bls12381" THEN 2 ELSE 1
TheKey == [q \in Party |-> 1]
StepContribution == IF round < Steps THEN Message(round + 1, 1) ELSE Complete
StepDone(p) ==
  IF round < Steps THEN sess[p].step = round + 1 /\ sess[p].draw = 1 /\ completed[p] = NoKey
  ELSE completed[p] = TheKey

Before(p) ==
  /\ round \notin submitted[p]
  /\ inbox[p] = NoContribution
  /\ pc[p] \in {"idle", "polled"}
  /\ sess[p].step = round
  /\ IF round = 0 THEN draws[p] = 0 ELSE draws[p] = 1 /\ sess[p].draw = 1
  /\ completed[p] = NoKey
At(p) ==
  /\ round \notin submitted[p]
  /\ inbox[p] = NoContribution
  /\ snap[p].round = round
  /\ draws[p] = 1
  /\ StepDone(p)
  /\ \/ pc[p] \in {"telling", "submitting"} /\ out[p] = StepContribution
     \/ pc[p] = "persisting" /\ round = Steps
Past(p) ==
  /\ round \in submitted[p]
  /\ inbox[p] = StepContribution
  /\ pc[p] \in {"idle", "polled"}
  /\ draws[p] = 1
  /\ StepDone(p)

HandedOut(m) == m.kind = "message" /\ m.step = round /\ m.draw = 1
PartyInStep(p) ==
  /\ Before(p) \/ At(p) \/ Past(p)
  /\ \A k \in 0 .. round - 1 : k \in submitted[p]
  /\ \A k \in submitted[p] : k <= round
  /\ round > 0 => HandedOut(contribs[p])
  /\ snap[p].round <= round
  /\ pc[p] # "idle" /\ snap[p].round = round => snap[p].contribs = contribs
  /\ store[p] \in {NoKey, TheKey}
StepInv ==
  faults = 0 =>
    /\ round <= Steps
    /\ done => AllReported
    /\ \A p \in Party : PartyInStep(p)

-------------------------------------------------------------------------------
(* Type correctness.  The operators of TaskRounds keep their part of it,   *)
(* whatever the contributions of the protocol and its places to wait.      *)
LEMMA RoundsInitTypes ==
  ASSUME NEW C, NEW Places, NoContribution \in C, InitRounds
  PROVE  RoundsTypeOK(C, Places)
<1>1. NoTask \in [round : 0 .. LastRound, contribs : [Party -> C]]
  BY RoundsAssumption DEF NoTask
<1>2. round \in 0 .. LastRound /\ faults \in 0 .. MaxFaults /\ restarts \in 0 .. MaxRestarts
  BY RoundsAssumption DEF InitRounds
<1>3. /\ inbox \in [Party -> C] /\ contribs \in [Party -> C] /\ out \in [Party -> C]
      /\ done \in BOOLEAN
  BY DEF InitRounds
<1>4. /\ pc \in [Party -> {"idle", "polled", "submitting"} \cup Places]
      /\ snap \in [Party -> [round : 0 .. LastRound, contribs : [Party -> C]]]
      /\ submitted \in [Party -> SUBSET (0 .. LastRound)]
  BY <1>1 DEF InitRounds
<1>5. QED
  BY <1>2, <1>3, <1>4 DEF RoundsTypeOK

LEMMA ListTypes ==
  ASSUME NEW C, NEW Places, RoundsTypeOK(C, Places), NEW p \in Party, ListTasks(p)
  PROVE  RoundsTypeOK(C, Places)'
BY DEF RoundsTypeOK, ListTasks, serverVars

LEMMA EndTickTypes ==
  ASSUME NEW C, NEW Places, NoContribution \in C, RoundsTypeOK(C, Places),
         NEW p \in Party, EndTick(p)
  PROVE  /\ pc' \in [Party -> {"idle", "polled", "submitting"} \cup Places]
         /\ snap' \in [Party -> [round : 0 .. LastRound, contribs : [Party -> C]]]
         /\ out' \in [Party -> C]
<1>1. NoTask \in [round : 0 .. LastRound, contribs : [Party -> C]]
  BY RoundsAssumption DEF NoTask
<1>2. QED
  BY <1>1 DEF RoundsTypeOK, EndTick

LEMMA ThrowTypes ==
  ASSUME NEW C, NEW Places, NoContribution \in C, RoundsTypeOK(C, Places), NEW p \in Party,
         SkipSubmitted(p) \/ Throw(p)
  PROVE  RoundsTypeOK(C, Places)'
<1>1. EndTick(p) /\ UNCHANGED <<serverVars, submitted, faults, restarts>>
  BY DEF SkipSubmitted, Throw
<1>2. QED
  BY <1>1, EndTickTypes DEF RoundsTypeOK, serverVars

LEMMA AwaitTypes ==
  ASSUME NEW C, NEW Places, RoundsTypeOK(C, Places), NEW p \in Party, NEW at \in Places,
         Await(p, at)
  PROVE  RoundsTypeOK(C, Places)'
BY DEF RoundsTypeOK, Await, serverVars

LEMMA SubmitTypes ==
  ASSUME NEW C, NEW Places, RoundsTypeOK(C, Places), NEW p \in Party, NEW m \in C,
         Submit(p, m)
  PROVE  RoundsTypeOK(C, Places)'
BY DEF RoundsTypeOK, Submit, serverVars

LEMMA UpdateTypes ==
  ASSUME NEW C, NEW Places, NoContribution \in C, RoundsTypeOK(C, Places), NEW p \in Party,
         UpdateTask(p)
  PROVE  RoundsTypeOK(C, Places)'
<1>1. EndTick(p) /\ UNCHANGED <<round, contribs, done, faults, restarts>>
  BY DEF UpdateTask
<1>2. inbox' \in [Party -> C]
  <2>1. inbox' = Recorded(p) \/ inbox' = inbox
    BY DEF UpdateTask
  <2>2. QED
    BY <2>1 DEF RoundsTypeOK, Recorded
<1>3. submitted' \in [Party -> SUBSET (0 .. LastRound)]
  BY DEF UpdateTask, RoundsTypeOK
<1>4. QED
  BY <1>1, <1>2, <1>3, EndTickTypes DEF RoundsTypeOK

(* Every way a tick fails or is lost leaves this.                          *)
LEMMA FaultTypes ==
  ASSUME NEW C, NEW Places, NoContribution \in C, RoundsTypeOK(C, Places), NEW p \in Party,
         \/ UpdateTaskFails(p)
         \/ \E at \in Places : AwaitFails(p, at)
         \/ LoseTick(p)
  PROVE  RoundsTypeOK(C, Places)' /\ faults' > 0
<1>1. /\ EndTick(p) /\ UNCHANGED <<round, contribs, done>>
      /\ inbox' \in {inbox, Recorded(p)}
      /\ faults < MaxFaults /\ faults' = faults + 1
  <2>1. CASE UpdateTaskFails(p)
    BY <2>1 DEF UpdateTaskFails
  <2>2. CASE \E at \in Places : AwaitFails(p, at)
    BY <2>2 DEF AwaitFails, serverVars
  <2>3. CASE LoseTick(p)
    BY <2>3 DEF LoseTick
  <2>4. QED
    BY <2>1, <2>2, <2>3
<1>2. inbox' \in [Party -> C]
  BY <1>1 DEF RoundsTypeOK, Recorded
<1>3. faults' \in 0 .. MaxFaults /\ faults' > 0
  BY <1>1, RoundsAssumption DEF RoundsTypeOK
<1>4. restarts' \in 0 .. MaxRestarts
  BY RoundsAssumption DEF RoundsTypeOK, UpdateTaskFails, AwaitFails, LoseTick
<1>5. submitted' \in [Party -> SUBSET (0 .. LastRound)]
  BY DEF RoundsTypeOK, UpdateTaskFails, AwaitFails, LoseTick
<1>6. QED
  BY <1>1, <1>2, <1>3, <1>4, <1>5, EndTickTypes DEF RoundsTypeOK

LEMMA ServerTypes ==
  ASSUME NEW C, NEW Places, NoContribution \in C, RoundsTypeOK(C, Places), Server
  PROVE  RoundsTypeOK(C, Places)'
<1>1. CASE AdvanceRound
  BY <1>1, RoundsAssumption DEF AdvanceRound, RoundsTypeOK, tickVars
<1>2. CASE FinishTask
  BY <1>2 DEF FinishTask, RoundsTypeOK, tickVars
<1>3. QED
  BY <1>1, <1>2 DEF Server

-------------------------------------------------------------------------------
(* The sessions.                                                           *)
Waiting == {"telling", "persisting"}

LEMMA ContributionTypes ==
  /\ NoContribution \in Contributions /\ Empty \in Contributions /\ Complete \in Contributions
  /\ \A k \in 1 .. 3, d \in Nat : Message(k, d) \in Contributions
  /\ \A m \in Contributions : m.kind = "message" => m.step \in 1 .. 3 /\ m.draw \in Nat
BY DEF Contributions, NoContribution, Empty, Complete, Message

LEMMA HeardType ==
  ASSUME TypeOK, NEW p \in Party, NEW k, Collected(p, k)
  PROVE  /\ Heard(p) \in [Party -> Nat]
         /\ \A q \in Party : Heard(p)[q] = IF q = p THEN sess[p].draw ELSE Contrib(p, q).draw
         /\ \A q \in Party \ {p} : Contrib(p, q) \in Contributions /\ Contrib(p, q).kind = "message"
                                   /\ Contrib(p, q).step = k
<1>1. \A q \in Party : Contrib(p, q) \in Contributions
  BY DEF Contrib, TypeOK, RoundsTypeOK
<1>2. \A q \in Party \ {p} : Contrib(p, q).kind = "message" /\ Contrib(p, q).step = k
  BY DEF Collected, Others
<1>3. sess[p].draw \in Nat
  BY DEF TypeOK, Sessions
<1>4. \A q \in Party \ {p} : Contrib(p, q).draw \in Nat
  BY <1>1, <1>2, ContributionTypes
<1>5. QED
  BY <1>1, <1>2, <1>3, <1>4 DEF Heard

LEMMA SameSessionTypes ==
  ASSUME TypeOK, RoundsTypeOK(Contributions, Waiting)', UNCHANGED dkgVars
  PROVE  TypeOK'
BY DEF TypeOK, dkgVars, Waiting

LEMMA NewSessionTypes ==
  ASSUME TypeOK, NEW p \in Party, NewSession(p), RoundsTypeOK(Contributions, Waiting)'
  PROVE  TypeOK'
<1>1. draws[p] + 1 \in Nat
  BY DEF TypeOK
<1>2. Session(1, draws[p] + 1, NoKey) \in Sessions
  BY <1>1 DEF Session, NoKey, Sessions
<1>3. sess' \in [Party -> Sessions] /\ draws' \in [Party -> Nat]
  BY <1>1, <1>2 DEF NewSession, TypeOK
<1>4. QED
  BY <1>3 DEF NewSession, TypeOK, Waiting

LEMMA FinishTypes ==
  ASSUME TypeOK, NEW p \in Party, NEW key \in [Party -> Nat], Finish(p, key)
  PROVE  TypeOK'
<1>1. NoSession \in Sessions
  BY DEF NoSession, Session, NoKey, Sessions
<1>2. RoundsTypeOK(Contributions, Waiting)'
  BY AwaitTypes DEF Finish, TypeOK, Waiting
<1>3. sess' \in [Party -> Sessions] /\ completed' \in [Party -> [Party -> Nat]]
  BY <1>1 DEF Finish, TypeOK
<1>4. QED
  BY <1>2, <1>3 DEF Finish, TypeOK, Waiting

LEMMA InitTypes == ASSUME Init PROVE TypeOK
<1>1. RoundsTypeOK(Contributions, Waiting)
  BY RoundsInitTypes, ContributionTypes DEF Init
<1>2. NoSession \in Sessions /\ NoKey \in [Party -> Nat]
  BY DEF NoSession, Session, NoKey, Sessions
<1>3. QED
  BY <1>1, <1>2 DEF Init, TypeOK, Waiting

(* A message that leaves a sidecar: at once, or after its peers were told. *)
LEMMA TellTypes ==
  ASSUME TypeOK, NEW p \in Party, NEW m \in Contributions, Tell(p, m) \/ Submit(p, m)
  PROVE  RoundsTypeOK(Contributions, Waiting)'
<1>1. CASE Tell(p, m)
  BY <1>1 DEF Tell, TypeOK, RoundsTypeOK, Waiting, serverVars
<1>2. CASE Submit(p, m)
  BY <1>2, SubmitTypes DEF TypeOK, Waiting
<1>3. QED
  BY <1>1, <1>2

LEMMA AdvanceTypes ==
  ASSUME TypeOK, NEW p \in Party, NEW h \in [Party -> Nat], NEW k \in 1 .. 3,
         sess' = [sess EXCEPT ![p] = Session(k, sess[p].draw, h)],
         UNCHANGED <<protocol, completed, store, draws>>,
         Tell(p, Message(k, sess[p].draw)) \/ Submit(p, Message(k, sess[p].draw))
  PROVE  TypeOK'
<1>1. sess[p].draw \in Nat
  BY DEF TypeOK, Sessions
<1>2. Message(k, sess[p].draw) \in Contributions
  BY <1>1, ContributionTypes
<1>3. RoundsTypeOK(Contributions, Waiting)'
  BY <1>2, TellTypes
<1>4. Session(k, sess[p].draw, h) \in Sessions
  BY <1>1 DEF Session, Sessions
<1>5. sess' \in [Party -> Sessions]
  BY <1>4 DEF TypeOK
<1>6. QED
  BY <1>3, <1>5 DEF TypeOK, Waiting

-------------------------------------------------------------------------------
(* What a step does to the task: the round only grows, a tick that is      *)
(* polled was so or has just listed the open round, and contributions move *)
(* from the hands of a sidecar to the server and from there to snapshots.  *)
Moves ==
  /\ round' \in Nat /\ round <= round'
  /\ \A q \in Party :
       /\ pc'[q] = "polled" => \/ pc[q] = "polled" /\ snap'[q] = snap[q]
                              \/ snap'[q].round = round
       /\ snap'[q].round <= round'
       /\ inbox'[q] \in {inbox[q], out[q], NoContribution}
       /\ contribs'[q] \in {contribs[q], inbox[q]}
       /\ \A r \in Party :
            snap'[q].contribs[r] \in {snap[q].contribs[r], contribs[r], NoContribution}
Silent == \A q \in Party : out'[q] \in {out[q], NoContribution}

Ends(p) ==
  /\ EndTick(p) /\ UNCHANGED <<round, contribs>>
  /\ inbox' = inbox \/ inbox' = Recorded(p)

LEMMA ListMoves ==
  ASSUME TypeOK, SnapsPast, NEW p \in Party, ListTasks(p)
  PROVE  Moves /\ Silent
<1> USE DEF TypeOK, RoundsTypeOK, SnapsPast
<1>1. UNCHANGED <<round, inbox, contribs, out>>
  BY DEF ListTasks, serverVars
<1>2. \A q \in Party : q # p => pc'[q] = pc[q] /\ snap'[q] = snap[q]
  BY DEF ListTasks
<1>3. snap'[p].round = round /\ snap'[p].contribs = contribs
  BY DEF ListTasks
<1>4. QED
  BY <1>1, <1>2, <1>3 DEF Moves, Silent

LEMMA EndMoves ==
  ASSUME TypeOK, SnapsPast, NEW p \in Party, Ends(p)
  PROVE  Moves /\ Silent
<1> USE DEF TypeOK, RoundsTypeOK, SnapsPast
<1>1. \A q \in Party : q # p => pc'[q] = pc[q] /\ snap'[q] = snap[q] /\ out'[q] = out[q]
  BY DEF Ends, EndTick
<1>2. /\ pc'[p] = "idle" /\ out'[p] = NoContribution /\ snap'[p].round = 0
      /\ \A r \in Party : snap'[p].contribs[r] = NoContribution
  BY DEF Ends, EndTick, NoTask
<1>3. UNCHANGED <<round, contribs>>
  BY DEF Ends
<1>4. \A q \in Party : inbox'[q] \in {inbox[q], out[q]}
  BY DEF Ends, Recorded
<1>5. QED
  BY <1>1, <1>2, <1>3, <1>4 DEF Moves, Silent

(* A tick that goes on: what it sends aside, only its place changes.       *)
GoesOn(p, at) ==
  /\ pc' = [pc EXCEPT ![p] = at]
  /\ at # "polled"
  /\ UNCHANGED <<serverVars, snap, submitted, faults, restarts>>
LEMMA GoOnMoves ==
  ASSUME TypeOK, SnapsPast, NEW p \in Party, NEW at, GoesOn(p, at)
  PROVE  Moves
<1> USE DEF TypeOK, RoundsTypeOK, SnapsPast
<1>1. UNCHANGED <<round, inbox, contribs, snap>>
  BY DEF GoesOn, serverVars
<1>2. \A q \in Party : pc'[q] = "polled" => pc[q] = "polled"
  BY DEF GoesOn
<1>3. QED
  BY <1>1, <1>2 DEF Moves

LEMMA ServerMoves ==
  ASSUME TypeOK, SnapsPast, Server
  PROVE  Moves /\ Silent
<1> USE DEF TypeOK, RoundsTypeOK, SnapsPast
<1>1. UNCHANGED <<pc, snap, out>>
  BY DEF Server, AdvanceRound, FinishTask, tickVars
<1>2. \/ round' = round + 1 /\ contribs' = inbox /\ inbox' = [q \in Party |-> NoContribution]
      \/ UNCHANGED <<round, contribs, inbox>>
  BY DEF Server, AdvanceRound, FinishTask
<1>3. round' \in Nat /\ round <= round'
  BY <1>2
<1>4. \A q \in Party : snap[q].round <= round'
  BY <1>3
<1>5. QED
  BY <1>1, <1>2, <1>3, <1>4 DEF Moves, Silent

-------------------------------------------------------------------------------
(* Preservation of DrawInv.  What was settled stays settled.               *)
Draws ==
  \A q \in Party : \/ draws'[q] = draws[q]
                   \/ pc[q] = "polled" /\ snap[q].round = 0

LEMMA SettledStays ==
  ASSUME TypeOK, SnapsPast, Moves, Draws, NEW q \in Party, Settled(q)
  PROVE  Settled(q)' /\ draws'[q] = draws[q]
<1>1. round \in Nat /\ round' \in Nat /\ round > 0 /\ round' > 0
  BY DEF Settled, Moves, TypeOK, RoundsTypeOK
<1>2. pc'[q] = "polled" => snap'[q].round > 0
  BY <1>1 DEF Settled, Moves
<1>3. draws'[q] = draws[q]
  BY DEF Draws, Settled
<1>4. QED
  BY <1>1, <1>2, <1>3 DEF Settled

LEMMA FinalStays ==
  ASSUME TypeOK, SnapsPast, Moves, Draws, NEW q \in Party, NEW m, LateIsFinal(m, q)
  PROVE  m.kind = "message" /\ m.step > 1 => m.draw = draws'[q] /\ Settled(q)'
BY SettledStays DEF LateIsFinal

LEMMA KeyStays ==
  ASSUME TypeOK, draws' \in [Party -> Nat], SnapsPast, Moves, Draws, NEW key, IsTheKey(key)
  PROVE  key # NoKey => key = draws' /\ AllSettled'
<1> SUFFICES ASSUME key # NoKey PROVE key = draws' /\ AllSettled'
  OBVIOUS
<1>1. key = draws /\ \A q \in Party : Settled(q)
  BY DEF IsTheKey, AllSettled
<1>2. \A q \in Party : Settled(q)' /\ draws'[q] = draws[q]
  BY <1>1, SettledStays
<1>3. draws' = draws
  BY <1>2 DEF TypeOK
<1>4. QED
  BY <1>1, <1>2, <1>3 DEF AllSettled

LEMMA MessagesStayFinal ==
  ASSUME TypeOK, SnapsPast, MessagesFinal, Moves, Draws,
         \A q \in Party : \/ out'[q] \in {out[q], NoContribution}
                          \/ LateIsFinal(out[q], q)'
  PROVE  MessagesFinal' /\ SnapsPast'
<1> DEFINE Final(m, q) == m.kind = "message" /\ m.step > 1 => m.draw = draws'[q] /\ Settled(q)'
<1>1. \A q \in Party : Final(NoContribution, q)
  BY DEF NoContribution
<1>2. \A q \in Party : Final(inbox[q], q) /\ Final(contribs[q], q) /\ Final(out[q], q)
  BY FinalStays DEF MessagesFinal
<1>3. \A q, p \in Party : Final(snap[p].contribs[q], q)
  BY FinalStays DEF MessagesFinal
<1>4. \A q \in Party : Final(inbox'[q], q) /\ Final(contribs'[q], q)
  <2> HIDE DEF Final
  <2>1. QED
    BY <1>1, <1>2 DEF Moves
<1>5. \A q, p \in Party : Final(snap'[p].contribs[q], q)
  <2> HIDE DEF Final
  <2>1. QED
    BY <1>1, <1>2, <1>3 DEF Moves
<1>6. \A q \in Party : Final(out'[q], q)
  <2>1. \A q \in Party : LateIsFinal(out[q], q)' => Final(out'[q], q)
    BY DEF LateIsFinal
  <2> HIDE DEF Final
  <2>2. QED
    BY <1>1, <1>2, <2>1
<1>7. SnapsPast'
  BY DEF Moves, SnapsPast
<1>8. QED
  BY <1>4, <1>5, <1>6, <1>7 DEF MessagesFinal, LateIsFinal

(* A step that sends nothing of a session leaves the sessions alone.       *)
LEMMA QuietStep ==
  ASSUME DrawInv, RoundsTypeOK(Contributions, Waiting)', Moves, UNCHANGED dkgVars,
         \A q \in Party : out'[q] \in {out[q], NoContribution, Empty, Complete}
  PROVE  DrawInv'
<1> USE DEF DrawInv
<1>1. TypeOK'
  BY SameSessionTypes
<1>2. Draws /\ draws' \in [Party -> Nat]
  BY DEF dkgVars, Draws, TypeOK
<1>3. \A q \in Party : out'[q] \in {out[q], NoContribution} \/ LateIsFinal(out[q], q)'
  BY DEF LateIsFinal, Empty, Complete
<1>4. MessagesFinal' /\ SnapsPast'
  BY <1>2, <1>3, MessagesStayFinal
<1>5. SessionsFinal'
  BY <1>2, SettledStays DEF SessionsFinal, dkgVars
<1>6. KeysFinal'
  BY <1>2, KeyStays DEF KeysFinal, IsTheKey, dkgVars
<1>7. QED
  BY <1>1, <1>4, <1>5, <1>6

LEMMA NewSessionStep ==
  ASSUME DrawInv, NEW p \in Party, pc[p] = "polled", snap[p].round = 0, NewSession(p),
         Tell(p, Message(1, draws[p] + 1)) \/ Submit(p, Message(1, draws[p] + 1))
  PROVE  DrawInv'
<1> USE DEF DrawInv
<1> DEFINE m == Message(1, draws[p] + 1)
<1>1. draws[p] + 1 \in Nat /\ m \in Contributions
  BY ContributionTypes DEF TypeOK
<1>2. TypeOK'
  <2>1. RoundsTypeOK(Contributions, Waiting)'
    BY <1>1, TellTypes
  <2>2. QED
    BY <2>1, NewSessionTypes
<1>3. Moves
  <2>1. GoesOn(p, "telling") \/ GoesOn(p, "submitting")
    BY DEF Tell, Submit, GoesOn
  <2>2. QED
    BY <2>1, GoOnMoves
<1>4. \A q \in Party \ {p} : out'[q] = out[q] /\ draws'[q] = draws[q] /\ sess'[q] = sess[q]
  BY DEF Tell, Submit, NewSession, TypeOK, RoundsTypeOK
<1>5. out'[p] = m /\ draws'[p] = draws[p] + 1 /\ sess'[p] = Session(1, draws[p] + 1, NoKey)
  BY DEF Tell, Submit, NewSession, TypeOK, RoundsTypeOK
<1>6. Draws
  BY <1>4 DEF Draws
<1>7. MessagesFinal' /\ SnapsPast'
  <2>1. LateIsFinal(out[p], p)'
    BY <1>5 DEF LateIsFinal, Message
  <2>2. QED
    BY <1>3, <1>4, <1>6, <2>1, MessagesStayFinal
<1>8. SessionsFinal'
  BY <1>3, <1>4, <1>5, <1>6, SettledStays DEF SessionsFinal, Session
<1>9. KeysFinal'
  <2>1. draws' \in [Party -> Nat] /\ UNCHANGED <<protocol, completed, store>>
    BY <1>2 DEF TypeOK, NewSession
  <2>2. QED
    BY <2>1, <1>3, <1>6, KeyStays DEF KeysFinal, IsTheKey
<1>10. QED
  BY <1>2, <1>7, <1>8, <1>9

(* A session that moves to a later step is past round 0.                   *)
LEMMA AdvanceStep ==
  ASSUME DrawInv, NEW p \in Party, NEW h \in [Party -> Nat], NEW k \in {2, 3},
         pc[p] = "polled", snap[p].round > 0, sess[p].step > 0, h[p] = sess[p].draw,
         sess' = [sess EXCEPT ![p] = Session(k, sess[p].draw, h)],
         UNCHANGED <<protocol, completed, store, draws>>,
         Tell(p, Message(k, sess[p].draw)) \/ Submit(p, Message(k, sess[p].draw))
  PROVE  DrawInv'
<1> USE DEF DrawInv
<1> DEFINE m == Message(k, sess[p].draw)
<1>1. TypeOK'
  <2>1. k \in 1 .. 3
    OBVIOUS
  <2>2. QED
    BY <2>1, AdvanceTypes
<1>2. Moves
  <2>1. GoesOn(p, "telling") \/ GoesOn(p, "submitting")
    BY DEF Tell, Submit, GoesOn
  <2>2. QED
    BY <2>1, GoOnMoves
<1>3. Settled(p)
  BY DEF Settled, SnapsPast, TypeOK, RoundsTypeOK
<1>4. sess[p].draw = draws[p]
  BY DEF SessionsFinal
<1>5. Draws
  BY DEF Draws
<1>6. Settled(p)' /\ draws'[p] = draws[p]
  BY <1>2, <1>3, <1>5, SettledStays
<1>7. \A q \in Party \ {p} : out'[q] = out[q] /\ sess'[q] = sess[q]
  BY DEF Tell, Submit, TypeOK, RoundsTypeOK
<1>8. out'[p] = m /\ sess'[p] = Session(k, sess[p].draw, h)
  BY DEF Tell, Submit, TypeOK, RoundsTypeOK
<1>9. MessagesFinal' /\ SnapsPast'
  <2>1. LateIsFinal(out[p], p)'
    BY <1>4, <1>6, <1>8 DEF LateIsFinal, Message
  <2>2. QED
    BY <1>2, <1>5, <1>7, <2>1, MessagesStayFinal
<1>10. SessionsFinal'
  BY <1>2, <1>4, <1>5, <1>6, <1>7, <1>8, SettledStays DEF SessionsFinal, Session
<1>11. KeysFinal'
  <2>1. draws' \in [Party -> Nat]
    BY DEF TypeOK
  <2>2. QED
    BY <2>1, <1>2, <1>5, KeyStays DEF KeysFinal, IsTheKey
<1>12. QED
  BY <1>1, <1>9, <1>10, <1>11

LEMMA FinishStep ==
  ASSUME DrawInv, NEW p \in Party, NEW key \in [Party -> Nat], Finish(p, key),
         protocol # "frost" => key = draws /\ AllSettled
  PROVE  DrawInv'
<1> USE DEF DrawInv
<1>1. TypeOK'
  BY FinishTypes
<1>2. Moves /\ out' = out
  <2>1. GoesOn(p, "persisting") /\ out' = out
    BY DEF Finish, Await, GoesOn
  <2>2. QED
    BY <2>1, GoOnMoves
<1>3. UNCHANGED <<protocol, store, draws>> /\ Draws
  BY DEF Finish, Draws
<1>4. \A q \in Party \ {p} : sess'[q] = sess[q] /\ completed'[q] = completed[q]
  BY DEF Finish, TypeOK
<1>5. sess'[p] = NoSession /\ completed'[p] = key
  BY DEF Finish, TypeOK
<1>6. MessagesFinal' /\ SnapsPast'
  BY <1>2, <1>3, MessagesStayFinal
<1>7. SessionsFinal'
  BY <1>2, <1>3, <1>4, <1>5, SettledStays DEF SessionsFinal, NoSession, Session
<1>8. KeysFinal'
  <2>1. draws' \in [Party -> Nat]
    BY <1>3 DEF TypeOK
  <2>2. \A q \in Party : protocol # "frost" => IsTheKey(completed'[q]) /\ IsTheKey(store[q])
    BY <1>4, <1>5 DEF KeysFinal, IsTheKey
  <2>3. QED
    BY <2>1, <2>2, <1>2, <1>3, KeyStays DEF KeysFinal, IsTheKey
<1>9. QED
  BY <1>1, <1>6, <1>7, <1>8

LEMMA PersistStep ==
  ASSUME DrawInv, NEW p \in Party, PersistShare(p)
  PROVE  DrawInv'
<1> USE DEF DrawInv
<1>1. Submit(p, Complete) /\ UNCHANGED <<protocol, sess, completed, draws>>
  BY DEF PersistShare
<1>2. TypeOK'
  <2>1. RoundsTypeOK(Contributions, Waiting)'
    BY <1>1, ContributionTypes, TellTypes
  <2>2. store' \in [Party -> [Party -> Nat]]
    BY DEF PersistShare, TypeOK
  <2>3. QED
    BY <1>1, <2>1, <2>2 DEF TypeOK, Waiting
<1>3. Moves
  <2>1. GoesOn(p, "submitting")
    BY <1>1 DEF Submit, GoesOn
  <2>2. QED
    BY <2>1, GoOnMoves
<1>4. Draws /\ draws' \in [Party -> Nat]
  BY <1>1 DEF Draws, TypeOK
<1>5. MessagesFinal' /\ SnapsPast'
  <2>1. \A q \in Party : out'[q] \in {out[q], Complete}
    BY <1>1 DEF Submit, TypeOK, RoundsTypeOK
  <2>2. \A q \in Party : out'[q] \in {out[q], NoContribution} \/ LateIsFinal(out[q], q)'
    BY <2>1 DEF LateIsFinal, Complete
  <2>3. QED
    BY <1>3, <1>4, <2>2, MessagesStayFinal
<1>6. SessionsFinal'
  BY <1>1, <1>3, <1>4, SettledStays DEF SessionsFinal
<1>7. KeysFinal'
  <2>1. \A q \in Party : protocol # "frost" => IsTheKey(completed[q]) /\ IsTheKey(store'[q])
    BY DEF KeysFinal, PersistShare, TypeOK
  <2>2. QED
    BY <2>1, <1>1, <1>3, <1>4, KeyStays DEF KeysFinal, IsTheKey
<1>8. QED
  BY <1>2, <1>5, <1>6, <1>7

LEMMA RestartStep ==
  ASSUME DrawInv, NEW p \in Party, Restart(p)
  PROVE  DrawInv'
<1> USE DEF DrawInv
<1>1. /\ LoseTick(p) /\ UNCHANGED <<protocol, draws>>
      /\ sess' = [sess EXCEPT ![p] = NoSession]
      /\ completed' = [completed EXCEPT ![p] = NoKey]
      /\ store' = store \/ store' = [store EXCEPT ![p] = completed[p]]
  BY DEF Restart
<1>2. TypeOK'
  <2>1. RoundsTypeOK(Contributions, Waiting)'
    BY <1>1, ContributionTypes, FaultTypes DEF TypeOK, Waiting
  <2>2. NoSession \in Sessions /\ NoKey \in [Party -> Nat]
    BY DEF NoSession, Session, NoKey, Sessions
  <2>3. /\ sess' \in [Party -> Sessions]
        /\ completed' \in [Party -> [Party -> Nat]]
        /\ store' \in [Party -> [Party -> Nat]]
    BY <1>1, <2>2 DEF TypeOK
  <2>4. QED
    BY <1>1, <2>1, <2>3 DEF TypeOK, Waiting
<1>3. Moves /\ Silent
  <2>1. Ends(p)
    BY <1>1 DEF LoseTick, Ends
  <2>2. QED
    BY <2>1, EndMoves
<1>4. Draws /\ draws' \in [Party -> Nat]
  BY <1>1 DEF Draws, TypeOK
<1>5. MessagesFinal' /\ SnapsPast'
  BY <1>3, <1>4, MessagesStayFinal DEF Silent
<1>6. \A q \in Party : sess'[q] = sess[q] \/ sess'[q].step = 0
  BY <1>1 DEF NoSession, Session, TypeOK
<1>7. SessionsFinal'
  <2>1. \A q \in Party : sess'[q].step > 0 => sess'[q] = sess[q]
    <3>1. \A q \in Party : sess'[q].step = 0 => ~(sess'[q].step > 0)
      OBVIOUS
    <3>2. QED
      BY <1>6, <3>1
  <2>2. \A q \in Party : Settled(q) => Settled(q)'
    BY <1>3, <1>4, SettledStays
  <2>3. \A q \in Party : sess'[q].step > 1 => sess'[q].step > 0
    <3>1. sess' \in [Party -> Sessions]
      BY <1>2 DEF TypeOK
    <3>2. \A x \in Sessions : x.step > 1 => x.step > 0
      BY DEF Sessions
    <3>3. QED
      BY <3>1, <3>2
  <2>4. QED
    BY <2>1, <2>2, <2>3, <1>1 DEF SessionsFinal
<1>8. KeysFinal'
  <2>1. \A q \in Party : completed'[q] \in {completed[q], NoKey}
    BY <1>1 DEF TypeOK
  <2>2. \A q \in Party : store'[q] \in {store[q], completed[q]}
    BY <1>1 DEF TypeOK
  <2>3. \A q \in Party : protocol # "frost" => IsTheKey(completed'[q]) /\ IsTheKey(store'[q])
    BY <2>1, <2>2 DEF KeysFinal, IsTheKey
  <2>4. QED
    BY <2>3, <1>1, <1>3, <1>4, KeyStays DEF KeysFinal, IsTheKey
<1>9. QED
  BY <1>2, <1>5, <1>7, <1>8

-------------------------------------------------------------------------------
(* The actions, by the kind of step they are.                              *)
LEMMA RoundsStep ==
  ASSUME DrawInv, NEW p \in Party, UNCHANGED dkgVars,
         \/ ListTasks(p) \/ SkipSubmitted(p) \/ UpdateTask(p) \/ Throw(p)
         \/ UpdateTaskFails(p) \/ AwaitFails(p, "persisting") \/ Server
  PROVE  DrawInv'
<1>1. TypeOK /\ SnapsPast /\ RoundsTypeOK(Contributions, Waiting) /\ NoContribution \in Contributions
  BY ContributionTypes DEF DrawInv, TypeOK, Waiting
<1>2. RoundsTypeOK(Contributions, Waiting)'
  <2>1. "persisting" \in Waiting
    BY DEF Waiting
  <2>2. QED
    BY <1>1, <2>1, ListTypes, ThrowTypes, UpdateTypes, FaultTypes, ServerTypes
<1>3. Moves /\ Silent
  <2>1. CASE SkipSubmitted(p) \/ UpdateTask(p) \/ Throw(p) \/ UpdateTaskFails(p)
             \/ AwaitFails(p, "persisting")
    <3>1. Ends(p)
      BY <2>1 DEF SkipSubmitted, UpdateTask, Throw, UpdateTaskFails, AwaitFails, Ends,
         serverVars
    <3>2. QED
      BY <1>1, <3>1, EndMoves
  <2>2. CASE ListTasks(p)
    BY <1>1, <2>2, ListMoves
  <2>3. CASE Server
    BY <1>1, <2>3, ServerMoves
  <2>4. QED
    BY <2>1, <2>2, <2>3
<1>4. QED
  BY <1>2, <1>3, QuietStep DEF Silent

(* Empty or Complete is sent, or a message whose peers have been told.     *)
LEMMA SubmitStep ==
  ASSUME DrawInv, NEW p \in Party, UNCHANGED dkgVars,
         Submit(p, Empty) \/ Submit(p, Complete) \/ PeersTold(p)
  PROVE  DrawInv'
<1>1. TypeOK /\ SnapsPast
  BY DEF DrawInv
<1>2. GoesOn(p, "submitting")
  BY DEF Submit, PeersTold, GoesOn, serverVars
<1>3. Moves
  BY <1>1, <1>2, GoOnMoves
<1>4. RoundsTypeOK(Contributions, Waiting)'
  <2>1. CASE PeersTold(p)
    BY <1>1, <2>1 DEF PeersTold, TypeOK, RoundsTypeOK, Waiting, serverVars
  <2>2. CASE Submit(p, Empty) \/ Submit(p, Complete)
    BY <1>1, <2>2, ContributionTypes, TellTypes
  <2>3. QED
    BY <2>1, <2>2
<1>5. \A q \in Party : out'[q] \in {out[q], NoContribution, Empty, Complete}
  BY <1>1 DEF Submit, PeersTold, TypeOK, RoundsTypeOK
<1>6. QED
  BY <1>3, <1>4, <1>5, QuietStep

(* A DKLs23 session keeps from step 1 on what it heard there.              *)
LEMMA DklsStep ==
  ASSUME DrawInv, NEW p \in Party, Dkls(p)
  PROVE  DrawInv'
<1> USE DEF DrawInv
<1>1. CASE DklsInit(p)
  <2>1. pc[p] = "polled" /\ snap[p].round = 0
    BY <1>1 DEF DklsInit, Asked, Processing
  <2>2. NewSession(p) /\ Tell(p, Message(1, draws[p] + 1))
    BY <1>1 DEF DklsInit
  <2>3. QED
    BY <2>1, <2>2, NewSessionStep
<1>2. CASE DklsAgain(p) \/ PeersTold(p)
  <2>1. UNCHANGED dkgVars /\ (Submit(p, Empty) \/ PeersTold(p))
    BY <1>2 DEF DklsAgain, PeersTold, dkgVars
  <2>2. QED
    BY <2>1, SubmitStep
<1>3. CASE DklsAdvance(p)
  <2> DEFINE h == IF sess[p].step = 1 THEN Heard(p) ELSE sess[p].heard
  <2>1. /\ pc[p] = "polled" /\ snap[p].round > 0 /\ sess[p].step \in {1, 2}
        /\ Collected(p, sess[p].step)
    BY <1>3 DEF DklsAdvance, Asked, Processing, DklsReady
  <2>2. /\ sess' = [sess EXCEPT ![p] = Session(sess[p].step + 1, sess[p].draw, h)]
        /\ UNCHANGED <<protocol, completed, store, draws>>
        /\ Tell(p, Message(sess[p].step + 1, sess[p].draw))
    BY <1>3 DEF DklsAdvance
  <2>3. h \in [Party -> Nat]
    BY <2>1, HeardType DEF TypeOK, Sessions
  <2>4. h[p] = sess[p].draw
    BY <2>1, HeardType DEF SessionsFinal
  <2>5. sess[p].step + 1 \in {2, 3} /\ sess[p].step > 0
    BY <2>1
  <2> HIDE DEF h
  <2>6. QED
    BY <2>1, <2>2, <2>3, <2>4, <2>5, AdvanceStep
<1>4. CASE DklsFinalize(p)
  <2>1. Finish(p, sess[p].heard) /\ sess[p].step = 3 /\ Collected(p, 3) /\ Verified(p)
    BY <1>4 DEF DklsFinalize, DklsReady
  <2>2. sess[p].heard \in [Party -> Nat]
    BY DEF TypeOK, Sessions
  <2>3. \A q \in Party \ {p} : sess[p].heard[q] = draws[q] /\ Settled(q)
    <3>1. \A q \in Party \ {p} : LateIsFinal(Contrib(p, q), q)
      BY DEF MessagesFinal, Contrib
    <3>2. \A q \in Party \ {p} : Contrib(p, q).draw = sess[p].heard[q]
      BY <2>1 DEF Verified, Others
    <3>3. QED
      BY <2>1, <3>1, <3>2, HeardType DEF LateIsFinal
  <2>4. sess[p].heard[p] = draws[p] /\ Settled(p)
    BY <2>1 DEF SessionsFinal
  <2>5. sess[p].heard = draws /\ AllSettled
    BY <2>2, <2>3, <2>4 DEF AllSettled, TypeOK
  <2>6. QED
    BY <2>1, <2>2, <2>5, FinishStep
<1>5. CASE DklsRefuses(p)
  BY <1>5, RoundsStep DEF DklsRefuses, Refuse
<1>6. QED
  BY <1>1, <1>2, <1>3, <1>4, <1>5 DEF Dkls

LEMMA FrostStep ==
  ASSUME DrawInv, NEW p \in Party, Frost(p)
  PROVE  DrawInv'
<1> USE DEF DrawInv
<1>1. CASE FrostInit(p)
  <2>1. pc[p] = "polled" /\ snap[p].round = 0
    BY <1>1 DEF FrostInit, Asked, Processing
  <2>2. NewSession(p) /\ Submit(p, Message(1, draws[p] + 1))
    BY <1>1 DEF FrostInit
  <2>3. QED
    BY <2>1, <2>2, NewSessionStep
<1>2. CASE FrostRound(p)
  <2>1. Finish(p, Heard(p)) /\ Collected(p, 1) /\ protocol = "frost"
    BY <1>2 DEF FrostRound, FrostReady, Asked
  <2>2. Heard(p) \in [Party -> Nat]
    BY <2>1, HeardType
  <2>3. QED
    BY <2>1, <2>2, FinishStep
<1>3. CASE FrostRefuses(p)
  BY <1>3, RoundsStep DEF FrostRefuses, Refuse
<1>4. QED
  BY <1>1, <1>2, <1>3 DEF Frost

LEMMA Bls12381Step ==
  ASSUME DrawInv, NEW p \in Party, Bls12381(p)
  PROVE  DrawInv'
<1> USE DEF DrawInv
<1>1. CASE Bls12381Init(p)
  <2>1. pc[p] = "polled" /\ snap[p].round = 0
    BY <1>1 DEF Bls12381Init, Asked, Processing
  <2>2. NewSession(p) /\ Submit(p, Message(1, draws[p] + 1))
    BY <1>1 DEF Bls12381Init
  <2>3. QED
    BY <2>1, <2>2, NewSessionStep
<1>2. CASE Bls12381Shares(p)
  <2>1. pc[p] = "polled" /\ snap[p].round > 0 /\ sess[p].step = 1 /\ Collected(p, 1)
    BY <1>2 DEF Bls12381Shares, Asked, Processing
  <2>2. /\ sess' = [sess EXCEPT ![p] = Session(2, sess[p].draw, Heard(p))]
        /\ UNCHANGED <<protocol, completed, store, draws>>
        /\ Submit(p, Message(2, sess[p].draw))
    BY <1>2 DEF Bls12381Shares
  <2>3. Heard(p) \in [Party -> Nat] /\ Heard(p)[p] = sess[p].draw
    BY <2>1, HeardType
  <2>4. sess[p].step > 0
    BY <2>1
  <2>5. QED
    BY <2>1, <2>2, <2>3, <2>4, AdvanceStep
<1>3. CASE Bls12381Combine(p)
  <2>1. Finish(p, Heard(p)) /\ sess[p].step = 2 /\ Collected(p, 2)
    BY <1>3 DEF Bls12381Combine
  <2>2. Heard(p) \in [Party -> Nat]
    BY <2>1, HeardType
  <2>3. \A q \in Party \ {p} : Heard(p)[q] = draws[q] /\ Settled(q)
    <3>1. \A q \in Party \ {p} : LateIsFinal(Contrib(p, q), q)
      BY DEF MessagesFinal, Contrib
    <3>2. QED
      BY <2>1, <3>1, HeardType DEF LateIsFinal
  <2>4. Heard(p)[p] = draws[p] /\ Settled(p)
    BY <2>1, HeardType DEF SessionsFinal
  <2>5. Heard(p) = draws /\ AllSettled
    BY <2>2, <2>3, <2>4 DEF AllSettled, TypeOK
  <2>6. QED
    BY <2>1, <2>2, <2>5, FinishStep
<1>4. CASE Bls12381Refuses(p)
  BY <1>4, RoundsStep DEF Bls12381Refuses, Refuse
<1>5. QED
  BY <1>1, <1>2, <1>3, <1>4 DEF Bls12381

LEMMA DrawInit == ASSUME Init PROVE DrawInv
<1>1. TypeOK
  BY InitTypes
<1>2. /\ round = 0 /\ inbox = [p \in Party |-> NoContribution]
      /\ contribs = [p \in Party |-> NoContribution]
      /\ out = [p \in Party |-> NoContribution]
      /\ snap = [p \in Party |-> NoTask]
      /\ sess = [p \in Party |-> NoSession]
      /\ completed = [p \in Party |-> NoKey] /\ store = [p \in Party |-> NoKey]
  BY DEF Init, InitRounds
<1>3. NoSession.step = 0 /\ NoContribution.kind # "message" /\ NoTask.round = 0
  BY DEF NoSession, Session, NoContribution, NoTask
<1>4. \A q \in Party : NoTask.contribs[q] = NoContribution
  BY DEF NoTask
<1>5. SnapsPast /\ MessagesFinal
  BY <1>2, <1>3, <1>4 DEF SnapsPast, MessagesFinal, LateIsFinal
<1>6. SessionsFinal /\ KeysFinal
  BY <1>2, <1>3 DEF SessionsFinal, KeysFinal, IsTheKey
<1>7. QED
  BY <1>1, <1>5, <1>6 DEF DrawInv

LEMMA DrawStep == ASSUME DrawInv, [Next]_vars PROVE DrawInv'
<1>1. ASSUME NEW p \in Party, Tick(p)
      PROVE  DrawInv'
  <2>1. CASE (ListTasks(p) \/ SkipSubmitted(p) \/ UpdateTask(p)) /\ UNCHANGED dkgVars
    BY <2>1, RoundsStep
  <2>2. CASE ReemitCompletion(p)
    BY <2>2, SubmitStep DEF ReemitCompletion
  <2>3. CASE Dkls(p) \/ Frost(p) \/ Bls12381(p)
    BY <2>3, DklsStep, FrostStep, Bls12381Step
  <2>4. CASE PersistShare(p)
    BY <2>4, PersistStep
  <2>5. QED
    BY <1>1, <2>1, <2>2, <2>3, <2>4 DEF Tick
<1>2. ASSUME NEW p \in Party, Fault(p)
      PROVE  DrawInv'
  <2>1. CASE UpdateTaskFails(p) /\ UNCHANGED dkgVars
    BY <2>1, RoundsStep
  <2>2. CASE PersistFails(p)
    BY <2>2, RoundsStep DEF PersistFails
  <2>3. CASE Restart(p)
    BY <2>3, RestartStep
  <2>4. QED
    BY <1>2, <2>1, <2>2, <2>3 DEF Fault
<1>3. CASE Server /\ UNCHANGED dkgVars
  <2>1. PICK p \in Party : TRUE
    BY RoundsAssumption
  <2>2. QED
    BY <1>3, <2>1, RoundsStep
<1>4. CASE UNCHANGED vars
  <2>1. /\ UNCHANGED <<round, inbox, contribs, done, pc, snap, out, submitted, faults,
                       restarts>>
        /\ UNCHANGED <<protocol, sess, completed, store, draws>>
    BY <1>4 DEF vars, roundsVars, serverVars, tickVars, dkgVars
  <2>2. TypeOK'
    BY <2>1 DEF DrawInv, TypeOK, RoundsTypeOK
  <2>3. SnapsPast' /\ MessagesFinal'
    BY <2>1 DEF DrawInv, SnapsPast, MessagesFinal, LateIsFinal, Settled
  <2>4. SessionsFinal' /\ KeysFinal'
    BY <2>1 DEF DrawInv, SessionsFinal, KeysFinal, IsTheKey, AllSettled, Settled
  <2>5. QED
    BY <2>2, <2>3, <2>4 DEF DrawInv
<1>5. QED
  BY <1>1, <1>2, <1>3, <1>4 DEF Next

-------------------------------------------------------------------------------
(* Preservation of StepInv.  A step of one party leaves the others as they *)
(* are, each before, at or past its contribution.                          *)
SameAt(q) ==
  /\ inbox'[q] = inbox[q] /\ submitted'[q] = submitted[q]
  /\ pc'[q] = pc[q] /\ snap'[q] = snap[q] /\ out'[q] = out[q]
  /\ sess'[q] = sess[q] /\ draws'[q] = draws[q]
  /\ completed'[q] = completed[q] /\ store'[q] = store[q]
OnlyStep(p) ==
  /\ UNCHANGED <<round, contribs, done, protocol>>
  /\ \A q \in Party \ {p} : SameAt(q)

LEMMA OtherInStep ==
  ASSUME NEW q \in Party, PartyInStep(q), SameAt(q), UNCHANGED <<round, contribs, protocol>>
  PROVE  PartyInStep(q)'
<1>1. Steps' = Steps /\ StepContribution' = StepContribution
  BY DEF Steps, StepContribution, Message, Complete
<1>2. StepDone(q)' = StepDone(q)
  BY <1>1 DEF StepDone, SameAt, TheKey
<1>3. Before(q)' = Before(q) /\ At(q)' = At(q) /\ Past(q)' = Past(q)
  BY <1>1, <1>2 DEF Before, At, Past, SameAt
<1>4. QED
  BY <1>3 DEF PartyInStep, HandedOut, SameAt, TheKey, NoKey

LEMMA OneSteps ==
  ASSUME TypeOK, StepInv, faults = 0, NEW p \in Party, OnlyStep(p), PartyInStep(p)',
         inbox'[p] = inbox[p] \/ ~done
  PROVE  StepInv'
<1>1. \A q \in Party : PartyInStep(q)'
  BY OtherInStep DEF StepInv, OnlyStep
<1>2. Steps' = Steps
  BY DEF Steps, OnlyStep
<1>3. done' => AllReported'
  BY DEF StepInv, OnlyStep, AllReported, SameAt
<1>4. QED
  BY <1>1, <1>2, <1>3 DEF StepInv, OnlyStep

(* A session is called only for the open round, before its contribution.   *)
LEMMA ProcessedBefore ==
  ASSUME TypeOK, NEW p \in Party, PartyInStep(p), Processing(p)
  PROVE  Before(p) /\ snap[p].round = round /\ snap[p].contribs = contribs
<1>1. round \in Nat /\ snap[p].round \in Nat
  BY DEF TypeOK, RoundsTypeOK
<1>2. snap[p].round \notin 0 .. round - 1
  BY DEF PartyInStep, Processing
<1>3. snap[p].round = round
  BY <1>1, <1>2 DEF PartyInStep
<1>4. Before(p)
  BY <1>3 DEF PartyInStep, Processing, At, Past
<1>5. QED
  BY <1>3, <1>4 DEF PartyInStep, Processing

LEMMA HeardInStep ==
  ASSUME TypeOK, NEW p \in Party, \A q \in Party : PartyInStep(q), Processing(p), round > 0
  PROVE  /\ sess[p].draw = 1 /\ Heard(p) = TheKey
         /\ \A q \in Party \ {p} : Contrib(p, q).draw = 1
<1>1. Before(p) /\ snap[p].contribs = contribs
  BY ProcessedBefore
<1>2. sess[p].draw = 1
  BY <1>1 DEF Before
<1>3. \A q \in Party : Contrib(p, q).draw = 1
  BY <1>1 DEF Contrib, PartyInStep, HandedOut
<1>4. QED
  BY <1>2, <1>3 DEF Heard, TheKey

(* The facts about a step that StepInv needs, from the operators of        *)
(* TaskRounds: who it is about, and what becomes of that party's tick.     *)
TickAt(p) ==
  /\ UNCHANGED <<round, contribs, done, protocol>>
  /\ \A q \in Party \ {p} :
       inbox'[q] = inbox[q] /\ submitted'[q] = submitted[q]
       /\ pc'[q] = pc[q] /\ snap'[q] = snap[q] /\ out'[q] = out[q]

LEMMA GoOnAt ==
  ASSUME TypeOK, NEW p \in Party, NEW at, NEW m,
         pc' = [pc EXCEPT ![p] = at], out' = [out EXCEPT ![p] = m] \/ out' = out,
         UNCHANGED <<serverVars, snap, submitted, protocol>>
  PROVE  /\ TickAt(p) /\ pc'[p] = at /\ UNCHANGED <<snap, inbox, submitted>>
         /\ out' = out \/ out'[p] = m
BY DEF TypeOK, RoundsTypeOK, TickAt, serverVars

LEMMA EndAt ==
  ASSUME TypeOK, NEW p \in Party, EndTick(p),
         UNCHANGED <<round, contribs, done, protocol>>,
         inbox' = inbox \/ inbox' = Recorded(p),
         \A q \in Party \ {p} : submitted'[q] = submitted[q]
  PROVE  /\ TickAt(p) /\ pc'[p] = "idle" /\ snap'[p].round = 0
         /\ inbox'[p] = inbox[p] \/ inbox'[p] = out[p]
BY DEF TypeOK, RoundsTypeOK, TickAt, EndTick, Recorded, NoTask

LEMMA QuietParty ==
  ASSUME NEW p \in Party, TickAt(p), UNCHANGED dkgVars
  PROVE  OnlyStep(p)
BY DEF TickAt, OnlyStep, SameAt, dkgVars

LEMMA ThrowInStep ==
  ASSUME TypeOK, StepInv, faults = 0, NEW p \in Party, UNCHANGED dkgVars,
         SkipSubmitted(p) \/ (Throw(p) /\ pc[p] = "polled")
  PROVE  StepInv'
<1>1. EndTick(p) /\ UNCHANGED <<round, inbox, contribs, done, submitted,
                                protocol>> /\ pc[p] = "polled"
  BY DEF SkipSubmitted, Throw, serverVars, dkgVars
<1>2. TickAt(p) /\ pc'[p] = "idle" /\ snap'[p].round = 0
  BY <1>1, EndAt
<1>3. OnlyStep(p)
  BY <1>2, QuietParty
<1>4. PartyInStep(p)
  BY DEF StepInv
<1>5. Before(p) \/ Past(p)
  BY <1>1, <1>4 DEF PartyInStep, At
<1>6. Steps' = Steps /\ StepContribution' = StepContribution /\ StepDone(p)' = StepDone(p)
  BY <1>1 DEF Steps, StepContribution, StepDone, Message, Complete, TheKey, dkgVars
<1>7. (Before(p) \/ Past(p))'
  BY <1>1, <1>2, <1>5, <1>6 DEF Before, Past, dkgVars
<1>8. PartyInStep(p)'
  BY <1>1, <1>2, <1>4, <1>7 DEF PartyInStep, HandedOut, dkgVars, TypeOK, RoundsTypeOK
<1>9. QED
  BY <1>1, <1>3, <1>8, OneSteps

LEMMA ListInStep ==
  ASSUME TypeOK, StepInv, faults = 0, NEW p \in Party, UNCHANGED dkgVars, ListTasks(p)
  PROVE  StepInv'
<1>1. /\ UNCHANGED <<round, inbox, contribs, done, submitted, out,
                     protocol>> /\ pc[p] = "idle"
      /\ pc' = [pc EXCEPT ![p] = "polled"]
      /\ snap' = [snap EXCEPT ![p] = [round |-> round, contribs |-> contribs]]
  BY DEF ListTasks, serverVars, dkgVars
<1>2. pc'[p] = "polled" /\ snap'[p].round = round /\ snap'[p].contribs = contribs
  BY <1>1 DEF TypeOK, RoundsTypeOK
<1>3. OnlyStep(p)
  BY <1>1 DEF OnlyStep, SameAt, dkgVars, TypeOK, RoundsTypeOK
<1>4. PartyInStep(p)
  BY DEF StepInv
<1>5. Before(p) \/ Past(p)
  BY <1>1, <1>4 DEF PartyInStep, At
<1>6. Steps' = Steps /\ StepContribution' = StepContribution /\ StepDone(p)' = StepDone(p)
  BY <1>1 DEF Steps, StepContribution, StepDone, Message, Complete, TheKey, dkgVars
<1>7. (Before(p) \/ Past(p))'
  BY <1>1, <1>2, <1>5, <1>6 DEF Before, Past, dkgVars
<1>8. PartyInStep(p)'
  BY <1>1, <1>2, <1>4, <1>7 DEF PartyInStep, HandedOut, dkgVars, TypeOK, RoundsTypeOK
<1>9. QED
  BY <1>1, <1>3, <1>8, OneSteps

(* The server takes the one contribution that a party makes to a round.    *)
LEMMA UpdateInStep ==
  ASSUME TypeOK, StepInv, faults = 0, NEW p \in Party, UNCHANGED dkgVars, UpdateTask(p)
  PROVE  StepInv'
<1>1. /\ EndTick(p) /\ UNCHANGED <<round, contribs, done, protocol>> /\ pc[p] = "submitting"
      /\ submitted' = [submitted EXCEPT ![p] = @ \cup {snap[p].round}]
      /\ inbox' \in {Recorded(p)} \cup (IF MayIgnore(p) THEN {inbox} ELSE {})
  BY DEF UpdateTask, dkgVars
<1>2. PartyInStep(p)
  BY DEF StepInv
<1>3. At(p)
  BY <1>1, <1>2 DEF PartyInStep, Before, Past
<1>4. ~done
  BY <1>3 DEF StepInv, AllReported, At, NoContribution
<1>5. inbox' = Recorded(p)
  BY <1>1, <1>3, <1>4 DEF MayIgnore, At, NoContribution
<1>6. inbox'[p] = out[p] /\ submitted'[p] = submitted[p] \cup {round}
  BY <1>1, <1>3, <1>5 DEF Recorded, TypeOK, RoundsTypeOK, At
<1>7. \A q \in Party \ {p} : submitted'[q] = submitted[q]
  BY <1>1 DEF TypeOK, RoundsTypeOK
<1>8. TickAt(p) /\ pc'[p] = "idle" /\ snap'[p].round = 0
  BY <1>1, <1>5, <1>7, EndAt
<1>9. OnlyStep(p)
  BY <1>8, QuietParty
<1>10. Steps' = Steps /\ StepContribution' = StepContribution /\ StepDone(p)' = StepDone(p)
  BY <1>1 DEF Steps, StepContribution, StepDone, Message, Complete, TheKey, dkgVars
<1>11. Past(p)'
  BY <1>1, <1>3, <1>6, <1>8, <1>10 DEF At, Past, dkgVars
<1>12. PartyInStep(p)'
  <2>1. round \in Nat
    BY DEF TypeOK, RoundsTypeOK
  <2>2. \A k \in 0 .. round - 1 : k \in submitted'[p]
    BY <1>2, <1>6 DEF PartyInStep
  <2>3. \A k \in submitted'[p] : k <= round
    BY <2>1, <1>2, <1>6 DEF PartyInStep
  <2>4. snap'[p].round <= round
    BY <2>1, <1>8
  <2>5. round > 0 => HandedOut(contribs[p])
    BY <1>2 DEF PartyInStep
  <2>6. store[p] \in {NoKey, TheKey}
    BY <1>2 DEF PartyInStep
  <2>7. QED
    BY <1>1, <1>8, <1>11, <2>2, <2>3, <2>4, <2>5, <2>6 DEF PartyInStep, HandedOut, dkgVars,
       TheKey, NoKey
<1>13. QED
  BY <1>4, <1>9, <1>12, OneSteps

(* A step within the open round that leaves its party at its contribution. *)
OwnStep(p) ==
  /\ UNCHANGED <<serverVars, snap, submitted, protocol>>
  /\ \A q \in Party \ {p} :
       /\ pc'[q] = pc[q] /\ out'[q] = out[q] /\ sess'[q] = sess[q] /\ draws'[q] = draws[q]
       /\ completed'[q] = completed[q] /\ store'[q] = store[q]

LEMMA ToContribution ==
  ASSUME TypeOK, StepInv, faults = 0, NEW p \in Party, OwnStep(p), At(p)',
         store'[p] \in {NoKey, TheKey}, pc[p] # "idle"
  PROVE  StepInv'
<1>1. UNCHANGED <<round, inbox, contribs, done, snap, submitted, protocol>>
  BY DEF OwnStep, serverVars
<1>2. PartyInStep(p)
  BY DEF StepInv
<1>3. PartyInStep(p)'
  <2>1. \A k \in 0 .. round - 1 : k \in submitted[p]
    BY <1>2 DEF PartyInStep
  <2>2. /\ \A k \in submitted[p] : k <= round
        /\ round > 0 => HandedOut(contribs[p])
        /\ snap[p].round <= round
        /\ snap[p].round = round => snap[p].contribs = contribs
    BY <1>2 DEF PartyInStep
  <2>3. QED
    BY <1>1, <2>1, <2>2 DEF PartyInStep, HandedOut, TheKey, NoKey
<1>4. OnlyStep(p)
  BY <1>1 DEF OwnStep, OnlyStep, SameAt
<1>5. QED
  BY <1>1, <1>3, <1>4, OneSteps

LEMMA NewSessionInStep ==
  ASSUME TypeOK, StepInv, faults = 0, NEW p \in Party, Processing(p), snap[p].round = 0,
         NewSession(p),
         Tell(p, Message(1, draws[p] + 1)) \/ Submit(p, Message(1, draws[p] + 1))
  PROVE  StepInv'
<1>1. Before(p) /\ round = 0
  BY ProcessedBefore DEF StepInv
<1>2. draws[p] = 0
  BY <1>1 DEF Before
<1>3. /\ draws' = [draws EXCEPT ![p] = 1] /\ sess' = [sess EXCEPT ![p] = Session(1, 1, NoKey)]
      /\ UNCHANGED <<protocol, completed, store>>
  BY <1>2 DEF NewSession
<1>4. draws'[p] = 1 /\ sess'[p].step = 1 /\ sess'[p].draw = 1
  BY <1>3 DEF TypeOK, Session
<1>5. /\ UNCHANGED <<serverVars, snap, submitted>>
      /\ \E at \in {"telling", "submitting"} : pc' = [pc EXCEPT ![p] = at]
      /\ out' = [out EXCEPT ![p] = Message(1, 1)]
  BY <1>2 DEF Tell, Submit
<1>6. out'[p] = Message(1, 1) /\ pc'[p] \in {"telling", "submitting"}
  BY <1>5 DEF TypeOK, RoundsTypeOK
<1>7. OwnStep(p)
  BY <1>3, <1>5 DEF OwnStep, TypeOK, RoundsTypeOK
<1>8. UNCHANGED <<round, inbox, submitted, snap, completed, protocol>>
  BY <1>3, <1>5 DEF serverVars
<1>9. 0 < Steps'
  BY DEF Steps
<1>10. StepContribution' = Message(1, 1) /\ StepDone(p)'
  BY <1>1, <1>4, <1>8, <1>9 DEF StepContribution, StepDone, Message, Before, NoKey
<1>11. At(p)'
  BY <1>1, <1>4, <1>6, <1>8, <1>10 DEF At, Before, NoContribution
<1>12. pc[p] # "idle" /\ store'[p] \in {NoKey, TheKey}
  BY <1>3 DEF Processing, StepInv, PartyInStep
<1>13. QED
  BY <1>7, <1>11, <1>12, ToContribution

LEMMA AdvanceInStep ==
  ASSUME TypeOK, StepInv, faults = 0, NEW p \in Party, Processing(p), snap[p].round > 0,
         sess[p].step < Steps, NEW h \in [Party -> Nat],
         sess' = [sess EXCEPT ![p] = Session(sess[p].step + 1, sess[p].draw, h)],
         UNCHANGED <<protocol, completed, store, draws>>,
         \/ Tell(p, Message(sess[p].step + 1, sess[p].draw))
         \/ Submit(p, Message(sess[p].step + 1, sess[p].draw))
  PROVE  StepInv'
<1>1. Before(p) /\ round > 0 /\ snap[p].round = round
  BY ProcessedBefore DEF StepInv
<1>2. sess[p].step = round /\ sess[p].draw = 1 /\ draws[p] = 1
  BY <1>1 DEF Before
<1>3. sess'[p].step = round + 1 /\ sess'[p].draw = 1
  BY <1>2 DEF TypeOK, Session
<1>4. /\ UNCHANGED <<serverVars, snap, submitted>>
      /\ \E at \in {"telling", "submitting"} : pc' = [pc EXCEPT ![p] = at]
      /\ out' = [out EXCEPT ![p] = Message(round + 1, 1)]
  BY <1>2 DEF Tell, Submit
<1>5. out'[p] = Message(round + 1, 1) /\ pc'[p] \in {"telling", "submitting"}
  BY <1>4 DEF TypeOK, RoundsTypeOK
<1>6. OwnStep(p)
  BY <1>4 DEF OwnStep, TypeOK, RoundsTypeOK
<1>7. UNCHANGED <<round, inbox, submitted, snap, completed, protocol, draws>>
  BY <1>4 DEF serverVars
<1>8. round' < Steps'
  BY <1>2, <1>7 DEF Steps
<1>9. StepContribution' = Message(round + 1, 1) /\ StepDone(p)'
  BY <1>1, <1>3, <1>7, <1>8 DEF StepContribution, StepDone, Message, Before, NoKey
<1>10. At(p)'
  BY <1>1, <1>2, <1>5, <1>7, <1>9 DEF At, Before, NoContribution
<1>11. pc[p] # "idle" /\ store'[p] \in {NoKey, TheKey}
  BY DEF Processing, StepInv, PartyInStep
<1>12. QED
  BY <1>6, <1>10, <1>11, ToContribution

LEMMA FinishInStep ==
  ASSUME TypeOK, StepInv, faults = 0, NEW p \in Party, Processing(p), snap[p].round > 0,
         sess[p].step = Steps, Finish(p, TheKey)
  PROVE  StepInv'
<1>1. Before(p) /\ round > 0 /\ snap[p].round = round
  BY ProcessedBefore DEF StepInv
<1>2. round = Steps /\ draws[p] = 1
  BY <1>1 DEF Before
<1>3. /\ completed' = [completed EXCEPT ![p] = TheKey] /\ sess' = [sess EXCEPT ![p] = NoSession]
      /\ pc' = [pc EXCEPT ![p] = "persisting"]
      /\ UNCHANGED <<protocol, store, draws>>
      /\ UNCHANGED <<serverVars, snap, out, submitted>>
  BY DEF Finish, Await
<1>4. OwnStep(p)
  BY <1>3 DEF OwnStep, TypeOK, RoundsTypeOK
<1>5. completed'[p] = TheKey /\ pc'[p] = "persisting"
  BY <1>3 DEF TypeOK, RoundsTypeOK
<1>6. UNCHANGED <<round, inbox, submitted, snap, protocol, draws>>
  BY <1>3 DEF serverVars
<1>7. round' = Steps' /\ ~(round' < Steps')
  BY <1>2, <1>6 DEF Steps
<1>8. StepDone(p)'
  BY <1>5, <1>7 DEF StepDone, TheKey
<1>9. At(p)'
  BY <1>1, <1>2, <1>5, <1>6, <1>7, <1>8 DEF At, Before, NoContribution
<1>10. pc[p] # "idle" /\ store'[p] \in {NoKey, TheKey}
  BY <1>3 DEF Processing, StepInv, PartyInStep
<1>11. QED
  BY <1>4, <1>9, <1>10, ToContribution

LEMMA PersistInStep ==
  ASSUME TypeOK, StepInv, faults = 0, NEW p \in Party, PersistShare(p)
  PROVE  StepInv'
<1>1. pc[p] = "persisting" /\ PartyInStep(p)
  BY DEF PersistShare, StepInv
<1>2. At(p) /\ round = Steps
  BY <1>1 DEF PartyInStep, Before, At, Past
<1>3. ~(round < Steps)
  BY <1>2 DEF TypeOK, RoundsTypeOK
<1>4. completed[p] = TheKey
  BY <1>2, <1>3 DEF At, StepDone
<1>5. /\ store' = [store EXCEPT ![p] = TheKey] /\ UNCHANGED <<protocol, sess, completed,
                                                              draws>>
      /\ pc' = [pc EXCEPT ![p] = "submitting"] /\ out' = [out EXCEPT ![p] = Complete]
      /\ UNCHANGED <<serverVars, snap, submitted>>
  BY <1>4 DEF PersistShare, Submit
<1>6. OwnStep(p)
  BY <1>5 DEF OwnStep, TypeOK, RoundsTypeOK
<1>7. store'[p] = TheKey /\ pc'[p] = "submitting" /\ out'[p] = Complete
  BY <1>5 DEF TypeOK, RoundsTypeOK
<1>8. UNCHANGED <<round, inbox, submitted, snap, protocol, draws, completed>>
  BY <1>5 DEF serverVars
<1>9. ~(round' < Steps')
  BY <1>3, <1>8 DEF Steps
<1>10. StepContribution' = Complete /\ StepDone(p)'
  BY <1>4, <1>8, <1>9 DEF StepContribution, StepDone, Complete, TheKey
<1>11. At(p)'
  BY <1>2, <1>7, <1>8, <1>10 DEF At, NoContribution
<1>12. store'[p] \in {NoKey, TheKey} /\ pc[p] # "idle"
  BY <1>1, <1>7
<1>13. QED
  BY <1>6, <1>11, <1>12, ToContribution

LEMMA PeersToldInStep ==
  ASSUME TypeOK, StepInv, faults = 0, NEW p \in Party, PeersTold(p)
  PROVE  StepInv'
<1>1. pc[p] = "telling" /\ PartyInStep(p)
  BY DEF PeersTold, StepInv
<1>2. At(p) /\ out[p] = StepContribution
  BY <1>1 DEF PartyInStep, Before, At, Past
<1>3. /\ pc' = [pc EXCEPT ![p] = "submitting"]
      /\ UNCHANGED <<serverVars, snap, out, submitted, protocol, sess, completed, store,
                     draws>>
  BY DEF PeersTold, dkgVars
<1>4. OwnStep(p) /\ pc'[p] = "submitting"
  BY <1>3 DEF OwnStep, TypeOK, RoundsTypeOK
<1>5. UNCHANGED <<round, inbox, submitted, snap, out, protocol, sess, draws, completed>>
  BY <1>3 DEF serverVars
<1>6. Steps' = Steps /\ StepContribution' = StepContribution /\ StepDone(p)' = StepDone(p)
  BY <1>5 DEF Steps, StepContribution, StepDone, Message, Complete, TheKey
<1>7. At(p)'
  BY <1>2, <1>4, <1>5, <1>6 DEF At, NoContribution
<1>8. store'[p] \in {NoKey, TheKey} /\ pc[p] # "idle"
  BY <1>1, <1>3 DEF PartyInStep
<1>9. QED
  BY <1>4, <1>7, <1>8, ToContribution

LEMMA RefuseInStep ==
  ASSUME TypeOK, StepInv, faults = 0, NEW p \in Party, Processing(p), Refuse(p)
  PROVE  StepInv'
BY ThrowInStep DEF Processing, Refuse

LEMMA DklsInStep ==
  ASSUME DrawInv, StepInv, faults = 0, NEW p \in Party, Dkls(p)
  PROVE  StepInv'
<1> USE DEF DrawInv
<1>1. CASE DklsInit(p)
  BY <1>1, NewSessionInStep DEF DklsInit, Asked
<1>2. CASE DklsAgain(p)
  <2>1. Processing(p) /\ snap[p].round = 0 /\ sess[p].step # 0
    BY <1>2 DEF DklsAgain, Asked
  <2>2. Before(p) /\ round = 0
    BY <2>1, ProcessedBefore DEF StepInv
  <2>3. QED
    BY <2>1, <2>2 DEF Before
<1>3. CASE DklsAdvance(p)
  <2> DEFINE h == IF sess[p].step = 1 THEN Heard(p) ELSE sess[p].heard
  <2>1. /\ Processing(p) /\ snap[p].round > 0 /\ sess[p].step \in {1, 2} /\ protocol = "dkls23"
        /\ Collected(p, sess[p].step)
    BY <1>3 DEF DklsAdvance, Asked, DklsReady
  <2>2. /\ sess' = [sess EXCEPT ![p] = Session(sess[p].step + 1, sess[p].draw, h)]
        /\ UNCHANGED <<protocol, completed, store, draws>>
        /\ Tell(p, Message(sess[p].step + 1, sess[p].draw))
    BY <1>3 DEF DklsAdvance
  <2>3. h \in [Party -> Nat]
    BY <2>1, HeardType DEF TypeOK, Sessions
  <2>4. sess[p].step < Steps
    BY <2>1 DEF Steps
  <2> HIDE DEF h
  <2>5. QED
    BY <2>1, <2>2, <2>3, <2>4, AdvanceInStep
<1>4. CASE DklsFinalize(p)
  <2>1. /\ Processing(p) /\ snap[p].round > 0 /\ sess[p].step = 3 /\ protocol = "dkls23"
        /\ Verified(p) /\ Finish(p, sess[p].heard)
    BY <1>4 DEF DklsFinalize, Asked, DklsReady
  <2>2. sess[p].step = Steps
    BY <2>1 DEF Steps
  <2>3. Before(p) /\ round > 0
    BY <2>1, ProcessedBefore DEF StepInv
  <2>4. sess[p].draw = 1 /\ \A q \in Party \ {p} : Contrib(p, q).draw = 1
    BY <2>1, <2>3, HeardInStep DEF StepInv
  <2>5. sess[p].heard[p] = 1
    BY <2>1, <2>4 DEF SessionsFinal
  <2>6. \A q \in Party \ {p} : sess[p].heard[q] = 1
    BY <2>1, <2>4 DEF Verified, Others
  <2>7. sess[p].heard \in [Party -> Nat]
    BY DEF TypeOK, Sessions
  <2>8. sess[p].heard = TheKey
    BY <2>5, <2>6, <2>7 DEF TheKey
  <2>9. QED
    BY <2>1, <2>2, <2>8, FinishInStep
<1>5. CASE DklsRefuses(p)
  BY <1>5, RefuseInStep DEF DklsRefuses, Asked
<1>6. CASE PeersTold(p)
  BY <1>6, PeersToldInStep
<1>7. QED
  BY <1>1, <1>2, <1>3, <1>4, <1>5, <1>6 DEF Dkls

LEMMA FrostInStep ==
  ASSUME TypeOK, StepInv, faults = 0, NEW p \in Party, Frost(p)
  PROVE  StepInv'
<1>1. CASE FrostInit(p)
  BY <1>1, NewSessionInStep DEF FrostInit, Asked
<1>2. CASE FrostRound(p)
  <2>1. /\ Processing(p) /\ snap[p].round > 0 /\ sess[p].step = 1 /\ protocol = "frost"
        /\ Finish(p, Heard(p))
    BY <1>2 DEF FrostRound, FrostReady, Asked
  <2>2. sess[p].step = Steps
    BY <2>1 DEF Steps
  <2>3. round > 0
    BY <2>1, ProcessedBefore DEF StepInv
  <2>4. Heard(p) = TheKey
    BY <2>1, <2>3, HeardInStep DEF StepInv
  <2>5. QED
    BY <2>1, <2>2, <2>4, FinishInStep
<1>3. CASE FrostRefuses(p)
  BY <1>3, RefuseInStep DEF FrostRefuses, Asked
<1>4. QED
  BY <1>1, <1>2, <1>3 DEF Frost

LEMMA Bls12381InStep ==
  ASSUME TypeOK, StepInv, faults = 0, NEW p \in Party, Bls12381(p)
  PROVE  StepInv'
<1>1. CASE Bls12381Init(p)
  BY <1>1, NewSessionInStep DEF Bls12381Init, Asked
<1>2. CASE Bls12381Shares(p)
  <2>1. /\ Processing(p) /\ snap[p].round > 0 /\ sess[p].step = 1 /\ Collected(p, 1)
        /\ protocol = "bls12381"
    BY <1>2 DEF Bls12381Shares, Asked
  <2>2. /\ sess' = [sess EXCEPT ![p] = Session(sess[p].step + 1, sess[p].draw, Heard(p))]
        /\ UNCHANGED <<protocol, completed, store, draws>>
        /\ Submit(p, Message(sess[p].step + 1, sess[p].draw))
    BY <1>2, <2>1 DEF Bls12381Shares
  <2>3. Heard(p) \in [Party -> Nat]
    BY <2>1, HeardType
  <2>4. sess[p].step < Steps
    BY <2>1 DEF Steps
  <2>5. QED
    BY <2>1, <2>2, <2>3, <2>4, AdvanceInStep
<1>3. CASE Bls12381Combine(p)
  <2>1. /\ Processing(p) /\ snap[p].round > 0 /\ sess[p].step = 2 /\ protocol = "bls12381"
        /\ Finish(p, Heard(p))
    BY <1>3 DEF Bls12381Combine, Asked
  <2>2. sess[p].step = Steps
    BY <2>1 DEF Steps
  <2>3. round > 0
    BY <2>1, ProcessedBefore DEF StepInv
  <2>4. Heard(p) = TheKey
    BY <2>1, <2>3, HeardInStep DEF StepInv
  <2>5. QED
    BY <2>1, <2>2, <2>4, FinishInStep
<1>4. CASE Bls12381Refuses(p)
  BY <1>4, RefuseInStep DEF Bls12381Refuses, Asked
<1>5. QED
  BY <1>1, <1>2, <1>3, <1>4 DEF Bls12381

(* The server opens a round when all are past the one before.              *)
LEMMA AdvanceRoundInStep ==
  ASSUME TypeOK, StepInv, faults = 0, AdvanceRound, UNCHANGED dkgVars
  PROVE  StepInv'
<1>1. /\ round' = round + 1 /\ contribs' = inbox /\ inbox' = [q \in Party |-> NoContribution]
      /\ UNCHANGED <<done, pc, snap, out, submitted, faults>>
      /\ UNCHANGED <<protocol, sess, completed, store, draws>>
      /\ ~done /\ ~AllReported /\ \A q \in Party : inbox[q].kind # "none"
  BY DEF AdvanceRound, tickVars, dkgVars
<1>2. round \in Nat /\ Steps' = Steps
  BY <1>1 DEF TypeOK, RoundsTypeOK, Steps
<1>3. \A q \in Party : PartyInStep(q) /\ Past(q)
  BY <1>1 DEF StepInv, PartyInStep, Before, At, NoContribution
<1>4. round < Steps
  <2>1. PICK q \in Party : inbox[q].kind # "complete"
    BY <1>1 DEF AllReported
  <2>2. inbox[q] = StepContribution
    BY <1>3 DEF Past
  <2>3. QED
    BY <2>1, <2>2 DEF StepContribution, Complete
<1>5. ASSUME NEW q \in Party
      PROVE  PartyInStep(q)'
  <2>1. inbox[q] = Message(round + 1, 1) /\ sess[q].step = round + 1 /\ sess[q].draw = 1
        /\ completed[q] = NoKey /\ draws[q] = 1 /\ pc[q] \in {"idle", "polled"}
        /\ round \in submitted[q]
    BY <1>3, <1>4 DEF Past, StepContribution, StepDone
  <2>2. /\ \A k \in 0 .. round - 1 : k \in submitted[q]
        /\ \A k \in submitted[q] : k <= round
        /\ snap[q].round <= round /\ store[q] \in {NoKey, TheKey}
    BY <1>3 DEF PartyInStep
  <2>3. snap[q].round \in Nat
    BY DEF TypeOK, RoundsTypeOK
  <2>4. round' \notin submitted[q] /\ round' # 0 /\ snap[q].round < round'
    BY <1>1, <1>2, <2>2, <2>3
  <2>5. inbox'[q] = NoContribution
    BY <1>1
  <2>6. Before(q)'
    BY <1>1, <2>1, <2>4, <2>5 DEF Before, NoKey, NoContribution
  <2>7. HandedOut(contribs[q])'
    BY <1>1, <2>1 DEF HandedOut, Message
  <2>8. \A k \in 0 .. round' - 1 : k \in submitted'[q]
    BY <1>1, <1>2, <2>1, <2>2
  <2>9. \A k \in submitted'[q] : k <= round'
    <3>1. submitted[q] \subseteq Nat
      BY DEF TypeOK, RoundsTypeOK
    <3>2. QED
      BY <1>1, <1>2, <2>2, <3>1
  <2>10. snap'[q].round <= round' /\ snap'[q].round # round' /\ store'[q] \in {NoKey, TheKey}
    BY <1>1, <1>2, <2>2, <2>3, <2>4
  <2>11. QED
    BY <2>6, <2>7, <2>8, <2>9, <2>10 DEF PartyInStep, TheKey, NoKey
<1>6. round' <= Steps'
  <2>1. Steps \in Nat
    BY DEF Steps
  <2>2. QED
    BY <1>1, <1>2, <1>4, <2>1
<1>7. QED
  BY <1>1, <1>5, <1>6 DEF StepInv

LEMMA FinishTaskInStep ==
  ASSUME TypeOK, StepInv, faults = 0, FinishTask, UNCHANGED dkgVars
  PROVE  StepInv'
<1>1. /\ UNCHANGED <<round, inbox, contribs, pc, snap, out, submitted, faults>>
      /\ UNCHANGED <<protocol, sess, completed, store, draws>>
      /\ AllReported
  BY DEF FinishTask, tickVars, dkgVars
<1>2. \A q \in Party : PartyInStep(q)'
  BY <1>1, OtherInStep DEF StepInv, SameAt
<1>3. Steps' = Steps /\ AllReported'
  BY <1>1 DEF Steps, AllReported
<1>4. QED
  BY <1>1, <1>2, <1>3 DEF StepInv

LEMMA StepInvInit == ASSUME Init PROVE StepInv
<1>1. /\ round = 0 /\ inbox = [p \in Party |-> NoContribution] /\ done = FALSE
      /\ pc = [p \in Party |-> "idle"] /\ snap = [p \in Party |-> NoTask]
      /\ submitted = [p \in Party |-> {}]
      /\ sess = [p \in Party |-> NoSession]
      /\ completed = [p \in Party |-> NoKey] /\ store = [p \in Party |-> NoKey]
      /\ draws = [p \in Party |-> 0]
  BY DEF Init, InitRounds
<1>2. NoSession.step = 0 /\ NoTask.round = 0
  BY DEF NoSession, Session, NoTask
<1>3. ASSUME NEW p \in Party PROVE PartyInStep(p)
  <2>1. Before(p)
    BY <1>1, <1>2 DEF Before
  <2>2. QED
    BY <1>1, <1>2, <2>1 DEF PartyInStep
<1>4. round <= Steps
  BY <1>1 DEF Steps
<1>5. QED
  BY <1>1, <1>3, <1>4 DEF StepInv

LEMMA StepInvStep ==
  ASSUME DrawInv, StepInv, [Next]_vars
  PROVE  StepInv'
<1> USE DEF DrawInv
<1>0. SUFFICES ASSUME faults' = 0
               PROVE  StepInv'
  BY DEF StepInv
<1>1. ASSUME NEW p \in Party, Fault(p)
      PROVE  FALSE
  <2>1. faults' = faults + 1 /\ faults \in Nat
    BY <1>1 DEF Fault, UpdateTaskFails, PersistFails, AwaitFails, Restart, LoseTick,
                TypeOK, RoundsTypeOK
  <2>2. QED
    BY <1>0, <2>1
<1>2. ASSUME NEW p \in Party, Tick(p)
      PROVE  StepInv'
  <2>1. faults = 0
    BY <1>0, <1>2 DEF Tick, ListTasks, SkipSubmitted, UpdateTask, ReemitCompletion, Dkls,
       DklsInit,
         DklsAgain, DklsAdvance, DklsFinalize, DklsRefuses, PeersTold, Frost, FrostInit,
         FrostRound,
         FrostRefuses, Bls12381, Bls12381Init, Bls12381Shares, Bls12381Combine,
         Bls12381Refuses,
         PersistShare, Finish, Refuse, Throw, Await, Submit, Tell
  <2>2. CASE ReemitCompletion(p)
    <3>1. Processing(p) /\ completed[p] # NoKey
      BY <2>2 DEF ReemitCompletion
    <3>2. Before(p)
      BY <2>1, <3>1, ProcessedBefore DEF StepInv
    <3>3. QED
      BY <3>1, <3>2 DEF Before
  <2>3. CASE Dkls(p) \/ Frost(p) \/ Bls12381(p)
    BY <2>1, <2>3, DklsInStep, FrostInStep, Bls12381InStep
  <2>4. CASE PersistShare(p)
    BY <2>1, <2>4, PersistInStep
  <2>5. CASE (ListTasks(p) \/ SkipSubmitted(p) \/ UpdateTask(p)) /\ UNCHANGED dkgVars
    <3>1. CASE ListTasks(p)
      BY <2>1, <2>5, <3>1, ListInStep
    <3>2. CASE SkipSubmitted(p)
      BY <2>1, <2>5, <3>2, ThrowInStep
    <3>3. CASE UpdateTask(p)
      BY <2>1, <2>5, <3>3, UpdateInStep
    <3>4. QED
      BY <2>5, <3>1, <3>2, <3>3
  <2>6. QED
    BY <1>2, <2>2, <2>3, <2>4, <2>5 DEF Tick
<1>3. CASE Server /\ UNCHANGED dkgVars
  <2>1. faults = 0
    BY <1>0, <1>3 DEF Server, AdvanceRound, FinishTask
  <2>2. QED
    BY <2>1, <1>3, AdvanceRoundInStep, FinishTaskInStep DEF Server
<1>4. CASE UNCHANGED vars
  <2>1. /\ UNCHANGED <<round, inbox, contribs, done, pc, snap, out, submitted, faults>>
        /\ UNCHANGED <<protocol, sess, completed, store, draws>>
    BY <1>4 DEF vars, roundsVars, serverVars, tickVars, dkgVars
  <2>2. \A q \in Party : PartyInStep(q)'
    BY <1>0, <2>1, OtherInStep DEF StepInv, SameAt
  <2>3. QED
    BY <1>0, <2>1, <2>2 DEF StepInv, Steps, AllReported
<1>5. QED
  BY <1>1, <1>2, <1>3, <1>4 DEF Next

-------------------------------------------------------------------------------
(* The task, the ticks and the sessions stay within their types, for every *)
(* set of parties, every last round and any number of faults.              *)
THEOREM TypeCorrect == Spec => []TypeOK
<1>1. Init => DrawInv
  BY DrawInit
<1>2. DrawInv /\ [Next]_vars => DrawInv'
  BY DrawStep
<1>3. DrawInv => TypeOK
  BY DEF DrawInv
<1>4. QED
  BY <1>1, <1>2, <1>3, PTL DEF Spec

(* The invariant behind the next two: DrawInv of the draws and StepInv of  *)
(* the steps, of which the second needs the first where DKLs23 finalizes.  *)
LEMMA Invariants == Spec => [](DrawInv /\ StepInv)
<1>1. Init => DrawInv /\ StepInv
  BY DrawInit, StepInvInit
<1>2. DrawInv /\ StepInv /\ [Next]_vars => (DrawInv /\ StepInv)'
  BY DrawStep, StepInvStep
<1>3. QED
  BY <1>1, <1>2, PTL DEF Spec

(* All key shares in storage are shares of one key.  For DKLs23 and        *)
(* BLS12-381 whatever is lost and whoever restarts (what a party has drawn *)
(* last is final once it is past round 0); for FROST as long as nothing    *)
(* fails.                                                                  *)
THEOREM OneKey == Spec => []AgreeOnKey
<1>1. ASSUME DrawInv, StepInv PROVE AgreeOnKey
  <2>1. CASE protocol # "frost"
    BY <1>1, <2>1 DEF DrawInv, KeysFinal, IsTheKey, AgreeOnKey, SameKey
  <2>2. CASE faults = 0
    BY <1>1, <2>2 DEF StepInv, PartyInStep, AgreeOnKey, SameKey
  <2>3. QED
    BY <2>1, <2>2 DEF AgreeOnKey
<1>2. QED
  BY <1>1, Invariants, PTL

(* Without failures the sessions move in step with the task: every message *)
(* the server hands out in a round is of that step.                        *)
THEOREM InStepWithTask == Spec => []InStep
<1>1. ASSUME StepInv PROVE InStep
  BY <1>1 DEF StepInv, PartyInStep, HandedOut, InStep
<1>2. QED
  BY <1>1, Invariants, PTL

(***************************************************************************)
(* RSA.  A poll folds the messages of a round in an order that a CHOOSE    *)
(* fixes and sums run over Party, so the proofs start with what folds over *)
(* finite sets give.                                                       *)
(***************************************************************************)


-------------------------------------------------------------------------------
(* Induction over the subsets of a finite set, in the form of a least      *)
(* counterexample: B is the set of those that a statement is false of.     *)
LEMMA LeastSubset ==
  ASSUME NEW S, IsFiniteSet(S), NEW B, B \subseteq SUBSET S, B # {}
  PROVE  \E T \in B : \A U \in B : ~(U \subseteq T /\ U # T)
<1>1. FiniteSubsetsOf(S) = SUBSET S
  BY FS_FiniteSubsetsOfFinite
<1>2. IsWellFoundedOn(StrictSubsetOrdering(S), SUBSET S)
  BY <1>1, FS_StrictSubsetOrderingWellFounded
<1>3. PICK T \in B : \A U \in B : ~(<<U, T>> \in StrictSubsetOrdering(S))
  BY <1>2, WFMin
<1>4. QED
  BY <1>3 DEF StrictSubsetOrdering

PollStart(p) == [s |-> rsaSess[p], last |-> Rsa!Empty, key |-> Rsa!NoKey, failed |-> FALSE]
Fed(p, q, before) ==
  {Rsa!Feed(p, r, q, rsaSnap[p].contribs[q], garbage) : r \in before, garbage \in Rsa!Wrong(p, q)}
PollTable(p, S, it) ==
  it = [T \in SUBSET S |->
          IF T = {} THEN {PollStart(p)} ELSE UNION {Fed(p, q, it[T \ {q}]) : q \in T}]

LEMMA PollsIsTable ==
  ASSUME NEW p
  PROVE  Rsa!Polls(p) = (CHOOSE it : PollTable(p, Rsa!Senders(p), it))[Rsa!Senders(p)]
BY DEF Rsa!Polls, PollTable, Fed, PollStart

LEMMA FedWithin ==
  ASSUME NEW p, NEW q, NEW before, NEW within, NEW J, before \subseteq within,
         \A r \in within, garbage \in Rsa!Wrong(p, q) :
           Rsa!Feed(p, r, q, rsaSnap[p].contribs[q], garbage) \in J
  PROVE  Fed(p, q, before) \subseteq J
BY DEF Fed

LEMMA PollTablesAgree ==
  ASSUME NEW p, NEW S, IsFiniteSet(S), NEW R \in SUBSET S, NEW g, NEW h,
         PollTable(p, S, g), PollTable(p, R, h)
  PROVE  \A T \in SUBSET R : g[T] = h[T]
<1> DEFINE B == {T \in SUBSET R : g[T] # h[T]}
<1>1. SUFFICES ASSUME B # {} PROVE FALSE
  OBVIOUS
<1>2. IsFiniteSet(R) /\ B \subseteq SUBSET R
  BY FS_Subset
<1> HIDE DEF B
<1>3. PICK T \in B : \A U \in B : ~(U \subseteq T /\ U # T)
  BY <1>1, <1>2, LeastSubset
<1>4. T \in SUBSET R /\ T \in SUBSET S /\ g[T] # h[T]
  BY <1>3 DEF B
<1>5. ASSUME NEW q \in T PROVE g[T \ {q}] = h[T \ {q}]
  <2>1. T \ {q} \in SUBSET R /\ T \ {q} \notin B
    BY <1>3, <1>4
  <2> QED
    BY <2>1 DEF B
<1>6. \A q \in T : Fed(p, q, g[T \ {q}]) = Fed(p, q, h[T \ {q}])
  BY <1>5
<1> DEFINE G == {Fed(p, q, g[T \ {q}]) : q \in T}
           H == {Fed(p, q, h[T \ {q}]) : q \in T}
<1>7. G = H
  BY <1>6
<1>8. /\ g[T] = IF T = {} THEN {PollStart(p)} ELSE UNION G
      /\ h[T] = IF T = {} THEN {PollStart(p)} ELSE UNION H
  BY <1>4 DEF PollTable
<1> QED
  BY <1>4, <1>7, <1>8

LEMMA PollTableExists ==
  ASSUME NEW p, NEW S, IsFiniteSet(S)
  PROVE  \E it : PollTable(p, S, it)
<1> DEFINE B == {R \in SUBSET S : ~ \E it : PollTable(p, R, it)}
<1>1. SUFFICES ASSUME B # {} PROVE FALSE
  OBVIOUS
<1>2. B \subseteq SUBSET S
  OBVIOUS
<1> HIDE DEF B
<1>3. PICK R \in B : \A U \in B : ~(U \subseteq R /\ U # R)
  BY <1>1, <1>2, LeastSubset
<1>4. R \in SUBSET S /\ IsFiniteSet(R) /\ ~ \E it : PollTable(p, R, it)
  BY <1>3, FS_Subset DEF B
<1>5. \A U \in SUBSET R : U # R => \E it : PollTable(p, U, it)
  BY <1>3, <1>4 DEF B
<1> DEFINE tab(U) == CHOOSE it : PollTable(p, U, it)
           val(U) == IF U = {} THEN {PollStart(p)}
                     ELSE UNION {Fed(p, q, tab(U \ {q})[U \ {q}]) : q \in U}
           all == [U \in SUBSET R |-> val(U)]
<1>6. \A U \in SUBSET R : U # R => PollTable(p, U, tab(U))
  BY <1>5
<1> HIDE DEF tab
<1>7. ASSUME NEW U \in SUBSET R, U # R PROVE val(U) = tab(U)[U]
  <2>1. PollTable(p, U, tab(U)) /\ IsFiniteSet(U)
    BY <1>4, <1>6, <1>7, FS_Subset
  <2>2. ASSUME NEW q \in U PROVE tab(U)[U \ {q}] = tab(U \ {q})[U \ {q}]
    <3>1. U \ {q} \in SUBSET U /\ U \ {q} \in SUBSET R /\ U \ {q} # R
      BY <1>7
    <3>2. PollTable(p, U \ {q}, tab(U \ {q}))
      BY <1>6, <3>1
    <3> QED
      BY <2>1, <3>1, <3>2, PollTablesAgree
  <2>3. \A q \in U : Fed(p, q, tab(U)[U \ {q}]) = Fed(p, q, tab(U \ {q})[U \ {q}])
    BY <2>2
  <2> DEFINE G == {Fed(p, q, tab(U)[U \ {q}]) : q \in U}
             H == {Fed(p, q, tab(U \ {q})[U \ {q}]) : q \in U}
  <2>4. G = H
    BY <2>3
  <2>5. tab(U)[U] = IF U = {} THEN {PollStart(p)} ELSE UNION G
    BY <2>1 DEF PollTable
  <2>6. val(U) = IF U = {} THEN {PollStart(p)} ELSE UNION H
    OBVIOUS
  <2> QED
    BY <2>4, <2>5, <2>6
<1>8. ASSUME NEW U \in SUBSET R
      PROVE  all[U] = IF U = {} THEN {PollStart(p)} ELSE UNION {Fed(p, q, all[U \ {q}]) : q \in U}
  <2>1. ASSUME NEW q \in U PROVE all[U \ {q}] = tab(U \ {q})[U \ {q}]
    <3>1. U \ {q} \in SUBSET R /\ U \ {q} # R
      BY <1>8
    <3>2. val(U \ {q}) = tab(U \ {q})[U \ {q}]
      BY <1>7, <3>1
    <3> QED
      BY <3>1, <3>2
  <2>2. \A q \in U : Fed(p, q, all[U \ {q}]) = Fed(p, q, tab(U \ {q})[U \ {q}])
    BY <2>1
  <2> DEFINE G == {Fed(p, q, all[U \ {q}]) : q \in U}
             H == {Fed(p, q, tab(U \ {q})[U \ {q}]) : q \in U}
  <2>3. all[U] = IF U = {} THEN {PollStart(p)} ELSE UNION H
    BY <1>8
  <2> HIDE DEF all
  <2>4. G = H
    BY <2>2
  <2> QED
    BY <2>3, <2>4
<1>9. PollTable(p, R, all)
  <2>1. all = [U \in SUBSET R |-> all[U]]
    OBVIOUS
  <2> HIDE DEF all
  <2> QED
    BY <1>8, <2>1 DEF PollTable
<1> QED
  BY <1>4, <1>9

(* The results of a poll are in I[Senders(p)], if I holds the poll's start *)
(* and every message leads from its sets to its sets.                      *)
LEMMA PollsWithin ==
  ASSUME NEW p, NEW I, PollStart(p) \in I[{}],
         \A T \in SUBSET Rsa!Senders(p) : \A q \in T :
           \A r \in I[T \ {q}], garbage \in Rsa!Wrong(p, q) :
             Rsa!Feed(p, r, q, rsaSnap[p].contribs[q], garbage) \in I[T]
  PROVE  Rsa!Polls(p) \subseteq I[Rsa!Senders(p)]
<1> DEFINE S == Rsa!Senders(p)
           after == CHOOSE it : PollTable(p, S, it)
           B == {T \in SUBSET S : ~(after[T] \subseteq I[T])}
<1>1. IsFiniteSet(S)
  BY RoundsAssumption, FS_Subset DEF Rsa!Senders
<1>2. PollTable(p, S, after) /\ Rsa!Polls(p) = after[S]
  BY <1>1, PollTableExists, PollsIsTable
<1>3. B \subseteq SUBSET S
  OBVIOUS
<1> HIDE DEF S, after, B
<1>4. SUFFICES ASSUME B # {} PROVE FALSE
  BY <1>2 DEF B, S
<1>5. PICK T \in B : \A U \in B : ~(U \subseteq T /\ U # T)
  BY <1>1, <1>3, <1>4, LeastSubset
<1>6. T \in SUBSET S /\ ~(after[T] \subseteq I[T])
  BY <1>5 DEF B
<1>7. T # {}
  BY <1>2, <1>6 DEF PollTable
<1>8. ASSUME NEW q \in T PROVE after[T \ {q}] \subseteq I[T \ {q}]
  <2>1. T \ {q} \in SUBSET S /\ T \ {q} \notin B
    BY <1>5, <1>6
  <2> QED
    BY <2>1 DEF B
<1>9. after[T] = UNION {Fed(p, q, after[T \ {q}]) : q \in T}
  BY <1>2, <1>6, <1>7 DEF PollTable
<1>10. ASSUME NEW q \in T PROVE Fed(p, q, after[T \ {q}]) \subseteq I[T]
  <2>1. \A r \in I[T \ {q}], garbage \in Rsa!Wrong(p, q) :
          Rsa!Feed(p, r, q, rsaSnap[p].contribs[q], garbage) \in I[T]
    BY <1>6 DEF S
  <2> QED
    BY <1>8, <2>1, FedWithin
<1> QED
  BY <1>6, <1>9, <1>10

-------------------------------------------------------------------------------
(* Sums.  The fold of a finite set, with the order that CHOOSE takes.      *)
Some(T) == CHOOSE x \in T : TRUE
Table(f, S, it) ==
  it = [T \in SUBSET S |-> IF T = {} THEN 0 ELSE f[Some(T)] + it[T \ {Some(T)}]]

Total(f, S) == Rsa!MapThenSumSet(LAMBDA q : f[q], S)

LEMMA TotalIsTable ==
  ASSUME NEW f, NEW S
  PROVE  Total(f, S) = (CHOOSE it : Table(f, S, it))[S]
BY DEF Total, Rsa!MapThenSumSet, Rsa!MapThenFoldSet, Table, Some

LEMMA SomeIn == ASSUME NEW T, T # {} PROVE Some(T) \in T
BY DEF Some

LEMMA TablesAgree ==
  ASSUME NEW f, NEW S, IsFiniteSet(S), NEW R \in SUBSET S, NEW g, NEW h,
         Table(f, S, g), Table(f, R, h)
  PROVE  \A T \in SUBSET R : g[T] = h[T]
<1> DEFINE B == {T \in SUBSET R : g[T] # h[T]}
<1>1. SUFFICES ASSUME B # {} PROVE FALSE
  OBVIOUS
<1>2. IsFiniteSet(R)
  BY FS_Subset
<1> HIDE DEF B
<1>3. PICK T \in B : \A U \in B : ~(U \subseteq T /\ U # T)
  <2>1. B \subseteq SUBSET R
    BY DEF B
  <2> QED
    BY <1>1, <1>2, <2>1, LeastSubset
<1> USE DEF B
<1>4. T \in SUBSET R /\ T \in SUBSET S /\ g[T] # h[T]
  BY <1>3
<1>5. T # {}
  BY <1>4 DEF Table
<1>6. Some(T) \in T
  BY <1>5, SomeIn
<1>7. T \ {Some(T)} \in SUBSET R /\ T \ {Some(T)} # T /\ T \ {Some(T)} \subseteq T
  BY <1>4, <1>6
<1>8. g[T \ {Some(T)}] = h[T \ {Some(T)}]
  BY <1>3, <1>7
<1>9. g[T] = f[Some(T)] + g[T \ {Some(T)}] /\ h[T] = f[Some(T)] + h[T \ {Some(T)}]
  BY <1>4, <1>5 DEF Table
<1> QED
  BY <1>4, <1>8, <1>9

LEMMA TableExists ==
  ASSUME NEW f, NEW S, IsFiniteSet(S)
  PROVE  \E it : Table(f, S, it)
<1> DEFINE B == {R \in SUBSET S : ~ \E it : Table(f, R, it)}
<1>1. SUFFICES ASSUME B # {} PROVE FALSE
  OBVIOUS
<1> HIDE DEF B
<1>2. PICK R \in B : \A U \in B : ~(U \subseteq R /\ U # R)
  <2>1. B \subseteq SUBSET S
    BY DEF B
  <2> QED
    BY <1>1, <2>1, LeastSubset
<1> USE DEF B
<1>3. R \in SUBSET S /\ ~ \E it : Table(f, R, it)
  BY <1>2
<1>4. \A U \in SUBSET R : U # R => \E it : Table(f, U, it)
  BY <1>2, <1>3
<1> DEFINE tab(U) == CHOOSE it : Table(f, U, it)
           val(U) == IF U = {} THEN 0 ELSE f[Some(U)] + tab(U \ {Some(U)})[U \ {Some(U)}]
           all == [U \in SUBSET R |-> val(U)]
<1>5. \A U \in SUBSET R : U # R => Table(f, U, tab(U))
  BY <1>4
<1>6. ASSUME NEW U \in SUBSET R, U # R PROVE all[U] = tab(U)[U]
  <2>1. Table(f, U, tab(U))
    BY <1>5, <1>6
  <2>2. CASE U = {}
    BY <2>1, <2>2 DEF Table
  <2>3. CASE U # {}
    <3>1. Some(U) \in U
      BY <2>3, SomeIn
    <3> DEFINE V == U \ {Some(U)}
    <3>2. V \in SUBSET U /\ V \in SUBSET R /\ V # R
      BY <1>6, <3>1
    <3>3. Table(f, V, tab(V))
      BY <1>5, <3>2
    <3>4. IsFiniteSet(U)
      BY <1>3, FS_Subset
    <3> HIDE DEF tab
    <3>5. tab(U)[V] = tab(V)[V]
      BY <2>1, <3>2, <3>3, <3>4, TablesAgree
    <3>6. tab(U)[U] = f[Some(U)] + tab(U)[V]
      BY <2>1, <2>3 DEF Table
    <3> QED
      BY <2>3, <3>5, <3>6
  <2> QED
    BY <2>2, <2>3
<1>7. ASSUME NEW U \in SUBSET R, U # {}
      PROVE  U \ {Some(U)} \in SUBSET R /\ U \ {Some(U)} # R
  BY <1>7, SomeIn
<1> HIDE DEF tab
<1>8. Table(f, R, all)
  <2>1. ASSUME NEW U \in SUBSET R
        PROVE  all[U] = IF U = {} THEN 0 ELSE f[Some(U)] + all[U \ {Some(U)}]
    BY <1>6, <1>7, <2>1
  <2> HIDE DEF val
  <2>2. all = [U \in SUBSET R |-> all[U]]
    OBVIOUS
  <2> HIDE DEF all
  <2> QED
    BY <2>1, <2>2 DEF Table
<1> QED
  BY <1>3, <1>8

LEMMA TotalEmpty == ASSUME NEW f PROVE Total(f, {}) = 0
<1>1. \E it : Table(f, {}, it)
  BY TableExists, FS_EmptySet
<1>2. Table(f, {}, CHOOSE it : Table(f, {}, it))
  BY <1>1
<1> QED
  BY <1>2, TotalIsTable DEF Table

LEMMA TotalUnfold ==
  ASSUME NEW f, NEW S, IsFiniteSet(S), S # {}
  PROVE  Total(f, S) = f[Some(S)] + Total(f, S \ {Some(S)})
<1> DEFINE R == S \ {Some(S)}
           g == CHOOSE it : Table(f, S, it)
           h == CHOOSE it : Table(f, R, it)
<1>1. R \in SUBSET S /\ IsFiniteSet(R)
  BY FS_Subset
<1>2. Table(f, S, g) /\ Table(f, R, h)
  BY <1>1, TableExists
<1>3. Total(f, S) = g[S] /\ Total(f, R) = h[R]
  BY TotalIsTable
<1> HIDE DEF g, h, R
<1>4. g[R] = h[R]
  BY <1>1, <1>2, TablesAgree
<1>5. g[S] = f[Some(S)] + g[R]
  BY <1>2 DEF Table, R
<1> QED
  BY <1>3, <1>4, <1>5 DEF R

LEMMA TotalInt ==
  ASSUME NEW S, IsFiniteSet(S), NEW f, \A x \in S : f[x] \in Int
  PROVE  Total(f, S) \in Int
<1> DEFINE B == {T \in SUBSET S : Total(f, T) \notin Int}
<1>1. SUFFICES ASSUME B # {} PROVE FALSE
  OBVIOUS
<1>2. B \subseteq SUBSET S
  OBVIOUS
<1> HIDE DEF B
<1>3. PICK T \in B : \A U \in B : ~(U \subseteq T /\ U # T)
  BY <1>1, <1>2, LeastSubset
<1>4. T \in SUBSET S /\ IsFiniteSet(T) /\ Total(f, T) \notin Int
  BY <1>3, FS_Subset DEF B
<1>5. T # {}
  BY <1>4, TotalEmpty
<1>6. Some(T) \in T /\ f[Some(T)] \in Int
  BY <1>4, <1>5, SomeIn
<1>7. T \ {Some(T)} \notin B
  BY <1>3, <1>6
<1>8. Total(f, T \ {Some(T)}) \in Int
  BY <1>4, <1>7 DEF B
<1> QED
  BY <1>4, <1>5, <1>6, <1>8, TotalUnfold

(* A sum with one term.                                                    *)
LEMMA TotalOfOne ==
  ASSUME NEW S, IsFiniteSet(S), NEW f, NEW d, f[d] \in Int, \A x \in S \ {d} : f[x] = 0
  PROVE  Total(f, S) = IF d \in S THEN f[d] ELSE 0
<1> DEFINE B == {T \in SUBSET S : Total(f, T) # IF d \in T THEN f[d] ELSE 0}
<1>1. SUFFICES ASSUME B # {} PROVE FALSE
  OBVIOUS
<1>2. B \subseteq SUBSET S
  OBVIOUS
<1> HIDE DEF B
<1>3. PICK T \in B : \A U \in B : ~(U \subseteq T /\ U # T)
  BY <1>1, <1>2, LeastSubset
<1>4. T \in SUBSET S /\ IsFiniteSet(T) /\ Total(f, T) # IF d \in T THEN f[d] ELSE 0
  BY <1>3, FS_Subset DEF B
<1>5. T # {}
  BY <1>4, TotalEmpty
<1> DEFINE x == Some(T)
           U == T \ {x}
<1>6. x \in T /\ U \in SUBSET S /\ U \notin B
  BY <1>3, <1>4, <1>5, SomeIn
<1>7. Total(f, U) = IF d \in U THEN f[d] ELSE 0
  BY <1>6 DEF B
<1>8. Total(f, T) = f[x] + Total(f, U)
  BY <1>4, <1>5, TotalUnfold
<1> HIDE DEF x
<1>9. CASE x = d
  BY <1>4, <1>6, <1>7, <1>8, <1>9
<1>10. CASE x # d
  <2>1. f[x] = 0
    BY <1>4, <1>6, <1>10
  <2> QED
    BY <1>4, <1>6, <1>7, <1>8, <1>10, <2>1
<1> QED
  BY <1>9, <1>10

LEMMA SumInt ==
  ASSUME NEW f, \A q \in Party : f[q] \in Int PROVE Rsa!Sum(f) \in Int
<1>1. Rsa!Sum(f) = Total(f, Party)
  BY DEF Rsa!Sum, Total
<1> QED
  BY <1>1, TotalInt, RoundsAssumption

LEMMA SumOfOne ==
  ASSUME NEW f, NEW d \in Party, f[d] \in Int, \A q \in Party \ {d} : f[q] = 0
  PROVE  Rsa!Sum(f) = f[d]
<1>1. Rsa!Sum(f) = Total(f, Party)
  BY DEF Rsa!Sum, Total
<1> QED
  BY <1>1, TotalOfOne, RoundsAssumption

-------------------------------------------------------------------------------
(* Shapes.                                                                 *)
DataMessages == [kind : {"data"}, phase : 1 .. 8, to : [Party -> Int]]
AnyContribution == {Rsa!NoContribution, Rsa!Empty, Rsa!Complete} \cup DataMessages
AnySession ==
  [phase : 0 .. 9, pk : [Party -> Int], cross : [Party -> Int], back : SUBSET Party,
   evals : [Party -> Int], n : Int, lambda : Int, heard : [Party -> [1 .. 8 -> Int]]]
AnyKey == [n : Int, lambda : Int]
AnyResult == [s : AnySession, last : AnyContribution, key : AnyKey, failed : BOOLEAN]

LEMMA NoSessionShape ==
  /\ Rsa!NoSession \in AnySession /\ Rsa!NoSession.phase = 0 /\ Rsa!NoSession.pk = Rsa!Zeros
  /\ Rsa!NoSession.cross = [q \in Party |-> -1] /\ Rsa!NoSession.evals = Rsa!Zeros
  /\ Rsa!NoSession.n = 0 /\ Rsa!NoSession.lambda = 0
  /\ \A q \in Party, k \in 1 .. 8 : Rsa!NoSession.heard[q][k] = -1
BY DEF Rsa!NoSession, AnySession, Rsa!None, Rsa!Zeros

LEMMA MessageShapes ==
  ASSUME NEW k \in 1 .. 8, NEW to \in [Party -> Int]
  PROVE  Rsa!Data(k, to) \in DataMessages /\ Rsa!Data(k, to).phase = k /\ Rsa!Data(k, to).to = to
         /\ Rsa!Data(k, to).kind = "data"
BY DEF Rsa!Data, DataMessages

(* A message is heard.                                                     *)
Hearing(s, from, k, v) == [s EXCEPT !.heard[from][k] = v]

HeardSays(s, from, k, v, h) ==
  \A q \in Party, j \in 1 .. 8 : h.heard[q][j] = IF q = from /\ j = k THEN v ELSE s.heard[q][j]

LEMMA HeardShape ==
  ASSUME NEW s \in AnySession, NEW from \in Party, NEW k \in 1 .. 8, NEW v \in Int
  PROVE  LET h == Hearing(s, from, k, v)
         IN  /\ h \in AnySession
             /\ h.phase = s.phase /\ h.pk = s.pk /\ h.cross = s.cross /\ h.back = s.back
             /\ h.evals = s.evals /\ h.n = s.n /\ h.lambda = s.lambda
             /\ HeardSays(s, from, k, v, h)
BY DEF AnySession, Hearing, HeardSays

(* A field of a session and its phase are changed.                         *)
WithPk(s, v, k) == [s EXCEPT !.pk = v, !.phase = k]
WithCross(s, v, k) == [s EXCEPT !.cross = v, !.phase = k]
WithBack(s, v, k) == [s EXCEPT !.back = v, !.phase = k]
WithEvals(s, v, k) == [s EXCEPT !.evals = v, !.phase = k]
WithN(s, v, k) == [s EXCEPT !.n = v, !.phase = k]

LEMMA UpdatedPk ==
  ASSUME NEW s \in AnySession, NEW v \in [Party -> Int], NEW k \in 0 .. 9
  PROVE  LET a == WithPk(s, v, k)
         IN  /\ a \in AnySession /\ a.pk = v /\ a.phase = k
             /\ a.cross = s.cross /\ a.back = s.back /\ a.evals = s.evals
             /\ a.n = s.n /\ a.lambda = s.lambda /\ a.heard = s.heard
BY DEF AnySession, WithPk

LEMMA UpdatedCross ==
  ASSUME NEW s \in AnySession, NEW v \in [Party -> Int], NEW k \in 0 .. 9
  PROVE  LET a == WithCross(s, v, k)
         IN  /\ a \in AnySession /\ a.cross = v /\ a.phase = k
             /\ a.pk = s.pk /\ a.back = s.back /\ a.evals = s.evals
             /\ a.n = s.n /\ a.lambda = s.lambda /\ a.heard = s.heard
BY DEF AnySession, WithCross

LEMMA UpdatedBack ==
  ASSUME NEW s \in AnySession, NEW v \in SUBSET Party, NEW k \in 0 .. 9
  PROVE  LET a == WithBack(s, v, k)
         IN  /\ a \in AnySession /\ a.back = v /\ a.phase = k
             /\ a.pk = s.pk /\ a.cross = s.cross /\ a.evals = s.evals
             /\ a.n = s.n /\ a.lambda = s.lambda /\ a.heard = s.heard
BY DEF AnySession, WithBack

LEMMA UpdatedEvals ==
  ASSUME NEW s \in AnySession, NEW v \in [Party -> Int], NEW k \in 0 .. 9
  PROVE  LET a == WithEvals(s, v, k)
         IN  /\ a \in AnySession /\ a.evals = v /\ a.phase = k
             /\ a.pk = s.pk /\ a.cross = s.cross /\ a.back = s.back
             /\ a.n = s.n /\ a.lambda = s.lambda /\ a.heard = s.heard
BY DEF AnySession, WithEvals

LEMMA UpdatedN ==
  ASSUME NEW s \in AnySession, NEW v \in Int, NEW k \in 0 .. 9
  PROVE  LET a == WithN(s, v, k)
         IN  /\ a \in AnySession /\ a.n = v /\ a.phase = k
             /\ a.pk = s.pk /\ a.cross = s.cross /\ a.back = s.back
             /\ a.evals = s.evals /\ a.lambda = s.lambda /\ a.heard = s.heard
BY DEF AnySession, WithN

LEMMA Phase1Shape ==
  ASSUME NEW p \in Party, NEW s \in AnySession, s.phase = 1, NEW from \in Party \ {p},
         NEW m \in DataMessages
  PROVE  LET a == Rsa!Phase1(p, s, from, m)
         IN  /\ a \in AnySession /\ a.phase \in {1, 2} /\ a.cross = s.cross /\ a.back = s.back
             /\ a.evals = s.evals /\ a.n = s.n /\ a.lambda = s.lambda /\ a.heard = s.heard
             /\ \A q \in Party :
                  a.pk[q] = IF q = from /\ m.phase = 1 /\ m.to[p] # 0 THEN m.to[p] ELSE s.pk[q]
             /\ a.phase = 1 <=> 0 \in Rsa!Range(a.pk)
<1> DEFINE pk == IF m.phase = 1 /\ m.to[p] # 0 THEN [s.pk EXCEPT ![from] = m.to[p]] ELSE s.pk
           k == IF 0 \in Rsa!Range(pk) THEN 1 ELSE 2
<1>1. /\ pk \in [Party -> Int] /\ k \in {1, 2} /\ (k = 1 <=> 0 \in Rsa!Range(pk))
      /\ \A q \in Party :
           pk[q] = IF q = from /\ m.phase = 1 /\ m.to[p] # 0 THEN m.to[p] ELSE s.pk[q]
  BY DEF AnySession, DataMessages
<1>2. Rsa!Phase1(p, s, from, m) = WithPk(s, pk, k)
  BY DEF Rsa!Phase1, WithPk
<1> HIDE DEF pk, k
<1>3. k \in 0 .. 9 /\ pk \in [Party -> Int]
  BY <1>1
<1>4. LET a == WithPk(s, pk, k)
      IN  /\ a \in AnySession /\ a.pk = pk /\ a.phase = k
          /\ a.cross = s.cross /\ a.back = s.back /\ a.evals = s.evals
          /\ a.n = s.n /\ a.lambda = s.lambda /\ a.heard = s.heard
  BY ONLY <1>3, UpdatedPk, s \in AnySession
<1> QED
  BY <1>1, <1>2, <1>4

LEMMA Phase2Shape ==
  ASSUME NEW p \in Party, NEW s \in AnySession, s.phase = 2, NEW from \in Party \ {p},
         NEW m \in DataMessages, NEW garbage \in Int
  PROVE  LET a == Rsa!Phase2(p, s, from, m, garbage)
         IN  /\ a \in AnySession /\ a.phase \in {2, 3} /\ a.pk = s.pk /\ a.back = s.back
             /\ a.evals = s.evals /\ a.n = s.n /\ a.lambda = s.lambda /\ a.heard = s.heard
             /\ \A q \in Party :
                  a.cross[q] = IF q = from /\ m.phase = 2 /\ m.to[p] # 0
                               THEN Rsa!Decrypts(p, s, m.to[p], garbage) ELSE s.cross[q]
             /\ a.phase = 3 <=> \A q \in Party \ {p} : a.cross[q] # -1
<1> DEFINE cross == IF m.phase = 2 /\ m.to[p] # 0
                    THEN [s.cross EXCEPT ![from] = Rsa!Decrypts(p, s, m.to[p], garbage)]
                    ELSE s.cross
           k == IF \E q \in Party \ {p} : cross[q] = -1 THEN 2 ELSE 3
<1>1. Rsa!Decrypts(p, s, m.to[p], garbage) \in Int
  BY DEF Rsa!Decrypts
<1>2. /\ cross \in [Party -> Int]
      /\ \A q \in Party :
           cross[q] = IF q = from /\ m.phase = 2 /\ m.to[p] # 0
                      THEN Rsa!Decrypts(p, s, m.to[p], garbage) ELSE s.cross[q]
  BY <1>1 DEF AnySession, DataMessages
<1>3. k \in {2, 3} /\ (k = 3 <=> \A q \in Party \ {p} : cross[q] # -1)
  OBVIOUS
<1>4. Rsa!Phase2(p, s, from, m, garbage) = WithCross(s, cross, k)
  BY DEF Rsa!Phase2, WithCross
<1> HIDE DEF cross, k
<1>5. k \in 0 .. 9 /\ cross \in [Party -> Int]
  BY <1>2, <1>3
<1>6. LET a == WithCross(s, cross, k)
      IN  /\ a \in AnySession /\ a.cross = cross /\ a.phase = k
          /\ a.pk = s.pk /\ a.back = s.back /\ a.evals = s.evals
          /\ a.n = s.n /\ a.lambda = s.lambda /\ a.heard = s.heard
  BY ONLY <1>5, UpdatedCross, s \in AnySession
<1> QED
  BY <1>2, <1>3, <1>4, <1>6

LEMMA Phase3Shape ==
  ASSUME NEW p \in Party, NEW s \in AnySession, s.phase = 3, NEW from \in Party \ {p},
         NEW m \in DataMessages
  PROVE  LET a == Rsa!Phase3(p, s, from, m)
         IN  /\ a \in AnySession /\ a.phase \in {3, 4} /\ a.pk = s.pk /\ a.cross = s.cross
             /\ a.evals = s.evals /\ a.n = s.n /\ a.lambda = s.lambda /\ a.heard = s.heard
<1> DEFINE back == s.back \cup {from} \cup {q \in Party : s.heard[q][3] >= 0}
           k == IF Party \ {p} \subseteq back THEN 4 ELSE 3
<1>1. back \in SUBSET Party /\ k \in {3, 4}
  BY DEF AnySession
<1>2. Rsa!Phase3(p, s, from, m) = WithBack(s, back, k)
  BY DEF Rsa!Phase3, WithBack
<1> HIDE DEF back, k
<1>3. k \in 0 .. 9
  BY <1>1
<1> QED
  BY <1>1, <1>2, <1>3, UpdatedBack

LEMMA Phase5Shape ==
  ASSUME NEW p \in Party, NEW s \in AnySession, s.phase = 5, NEW from \in Party \ {p},
         NEW m \in DataMessages
  PROVE  LET a == Rsa!Phase5(p, s, from, m)
         IN  /\ a \in AnySession /\ a.phase \in {5, 6} /\ a.pk = s.pk /\ a.cross = s.cross
             /\ a.evals = s.evals /\ a.n = s.n /\ a.lambda = s.lambda /\ a.heard = s.heard
<1>1. Rsa!Phase5(p, s, from, m) \in {s, [s EXCEPT !.phase = 6]}
  BY DEF Rsa!Phase5
<1> QED
  BY <1>1 DEF AnySession

LEMMA Phase7Shape ==
  ASSUME NEW p \in Party, NEW s \in AnySession, s.phase = 7, NEW from \in Party \ {p},
         NEW m \in DataMessages
  PROVE  LET a == Rsa!Phase7(p, s, from, m)
         IN  /\ a \in AnySession /\ a.phase \in {7, 8, 9} /\ a.pk = s.pk /\ a.cross = s.cross
             /\ a.n = s.n /\ a.lambda = s.lambda /\ a.heard = s.heard
             /\ a.evals = [q \in Party |-> IF s.heard[q][7] > 0 THEN s.heard[q][7]
                                           ELSE s.evals[q]]
             /\ a.phase = 7 <=> 0 \in Rsa!Range(a.evals)
             /\ a.phase = 8 => a.n # 0 
<1> DEFINE evals == [q \in Party |-> IF s.heard[q][7] > 0 THEN s.heard[q][7] ELSE s.evals[q]]
           k == IF 0 \in Rsa!Range(evals) THEN 7 ELSE IF s.n = 0 THEN 9 ELSE 8
<1>1. evals \in [Party -> Int]
  BY DEF AnySession
<1>2. k \in {7, 8, 9} /\ (k = 7 <=> 0 \in Rsa!Range(evals)) /\ (k = 8 => s.n # 0)
  OBVIOUS
<1>3. Rsa!Phase7(p, s, from, m) = WithEvals(s, evals, k)
  BY DEF Rsa!Phase7, WithEvals, Rsa!Crashed
<1> HIDE DEF evals, k
<1>4. k \in 0 .. 9
  BY <1>2
<1>5. LET a == WithEvals(s, evals, k)
      IN  /\ a \in AnySession /\ a.phase = k /\ a.pk = s.pk /\ a.cross = s.cross
          /\ a.n = s.n /\ a.lambda = s.lambda /\ a.heard = s.heard /\ a.evals = evals
  BY <1>1, <1>4, UpdatedEvals
<1> QED
  BY <1>2, <1>3, <1>5 DEF evals

(* Phases 4 and 6.                                                         *)
LEMMA TermsShape ==
  ASSUME NEW p \in Party, NEW s \in AnySession, s.phase \in 1 .. 8, NEW from \in Party,
         NEW own \in Int
  PROVE  /\ Rsa!Terms(p, s, from, own) \in [Party -> Int]
         /\ Rsa!Terms(p, s, from, own)[p] = own
         /\ \A q \in Party \ {p} :
              Rsa!Terms(p, s, from, own)[q] = IF q = from /\ s.heard[q][s.phase] < 0 THEN 0
                                          ELSE s.heard[q][s.phase]
         /\ Rsa!Sum(Rsa!Terms(p, s, from, own)) \in Int
<1>1. \A q \in Party : s.heard[q][s.phase] \in Int
  BY DEF AnySession
<1>2. Rsa!Terms(p, s, from, own) \in [Party -> Int]
  BY <1>1 DEF Rsa!Terms
<1>3. Rsa!Sum(Rsa!Terms(p, s, from, own)) \in Int
  BY <1>2, SumInt
<1> QED
  BY <1>2, <1>3 DEF Rsa!Terms

LEMMA TermsAt ==
  ASSUME NEW p \in Party, NEW s \in AnySession, NEW k \in 1 .. 8, s.phase = k,
         NEW from \in Party, NEW own \in Int
  PROVE  /\ Rsa!Terms(p, s, from, own) \in [Party -> Int]
         /\ Rsa!Terms(p, s, from, own)[p] = own
         /\ \A q \in Party \ {p} :
              Rsa!Terms(p, s, from, own)[q] = IF q = from /\ s.heard[q][k] < 0 THEN 0
                                          ELSE s.heard[q][k]
<1>1. s.phase \in 1 .. 8
  OBVIOUS
<1>2. /\ Rsa!Terms(p, s, from, own) \in [Party -> Int]
      /\ Rsa!Terms(p, s, from, own)[p] = own
      /\ \A q \in Party \ {p} :
           Rsa!Terms(p, s, from, own)[q] = IF q = from /\ s.heard[q][s.phase] < 0 THEN 0
                                       ELSE s.heard[q][s.phase]
  BY ONLY p \in Party, s \in AnySession, from \in Party, own \in Int, <1>1, TermsShape
<1> QED
  BY <1>2

LEMMA Contributing ==
  ASSUME Rsa!DealerAssumption, NEW p \in Party, NEW s \in AnySession
  PROVE  /\ Rsa!NContribution(p, s) \in Int /\ Rsa!LambdaContribution(p, s) \in Int
         /\ Rsa!Absolute(Rsa!LambdaContribution(p, s)) \in Int
         /\ p # Dealer => Rsa!LambdaContribution(p, s) = 0 /\ Rsa!Absolute(Rsa!LambdaContribution(p, s)) = 0
         /\ (\A q \in Party \ {p} : s.cross[q] = 0)
              => Rsa!NContribution(p, s) = IF p = Dealer THEN P * Q ELSE 0
<1>1. P \in Int /\ Q \in Int /\ P * Q \in Int /\ s.n \in Int
  BY DEF Rsa!DealerAssumption, AnySession
<1> DEFINE f == [s.cross EXCEPT ![p] = 0]
<1>2. f \in [Party -> Int] /\ f[p] = 0
  BY DEF AnySession
<1>3. Rsa!Sum(f) \in Int
  BY <1>2, SumInt
<1>4. ASSUME \A q \in Party \ {p} : s.cross[q] = 0 PROVE Rsa!Sum(f) = 0
  <2>1. \A q \in Party \ {p} : f[q] = 0
    BY <1>4 DEF AnySession
  <2> HIDE DEF f
  <2> QED
    BY <1>2, <2>1, SumOfOne
<1> HIDE DEF f
<1>5. Rsa!NContribution(p, s) = (IF p = Dealer THEN P * Q ELSE 0) + Rsa!Sum(f)
  BY DEF Rsa!NContribution, f
<1>6. Rsa!LambdaContribution(p, s) = IF p = Dealer THEN s.n + 1 - P - Q ELSE 0
  BY DEF Rsa!LambdaContribution
<1>7. Rsa!NContribution(p, s) \in Int
  BY <1>1, <1>3, <1>5
<1>8. Rsa!LambdaContribution(p, s) \in Int
  BY <1>1, <1>6
<1> QED
  BY <1>1, <1>4, <1>5, <1>6, <1>7, <1>8 DEF Rsa!Absolute

LEMMA Phase4Shape ==
  ASSUME Rsa!DealerAssumption, NEW p \in Party, NEW s \in AnySession, s.phase = 4,
         NEW from \in Party \ {p}, NEW m \in DataMessages
  PROVE  LET a == Rsa!Phase4(p, s, from, m)
             terms == Rsa!Terms(p, s, from, Rsa!NContribution(p, s))
         IN  /\ a \in AnySession /\ a.phase \in {4, 5} /\ a.pk = s.pk /\ a.cross = s.cross
             /\ a.evals = s.evals /\ a.lambda = s.lambda /\ a.heard = s.heard
             /\ a.phase = 4 => a = s
             /\ a.phase = 5 => Rsa!AllIn(p, terms) /\ a.n = Rsa!Sum(terms)
<1> DEFINE terms == Rsa!Terms(p, s, from, Rsa!NContribution(p, s))
<1>1. Rsa!Sum(terms) \in Int
  BY TermsShape, Contributing
<1>2. Rsa!Phase4(p, s, from, m) = IF Rsa!AllIn(p, terms) THEN [s EXCEPT !.n = Rsa!Sum(terms), !.phase = 5] ELSE s
  BY DEF Rsa!Phase4
<1> HIDE DEF terms
<1>3. CASE ~Rsa!AllIn(p, terms)
  BY <1>2, <1>3 DEF terms
<1>4. CASE Rsa!AllIn(p, terms)
  <2>1. Rsa!Phase4(p, s, from, m) = WithN(s, Rsa!Sum(terms), 5)
    BY <1>2, <1>4 DEF WithN
  <2> QED
    <3>1. 5 \in 0 .. 9
      OBVIOUS
    <3> DEFINE v == Rsa!Sum(terms)
    <3> HIDE DEF v
    <3>2. LET a == WithN(s, v, 5)
          IN  /\ a \in AnySession /\ a.n = v /\ a.phase = 5
              /\ a.pk = s.pk /\ a.cross = s.cross /\ a.back = s.back
              /\ a.evals = s.evals /\ a.lambda = s.lambda /\ a.heard = s.heard
      BY <1>1, <3>1, UpdatedN DEF v
    <3> QED
      BY <1>4, <2>1, <3>2 DEF terms, v
<1> QED
  BY <1>3, <1>4

LEMMA Phase6Shape ==
  ASSUME Rsa!DealerAssumption, NEW p \in Party, NEW s \in AnySession, s.phase = 6,
         NEW from \in Party \ {p}, NEW m \in DataMessages
  PROVE  LET a == Rsa!Phase6(p, s, from, m)
             terms == Rsa!Terms(p, s, from, Rsa!LambdaContribution(p, s))
             lambda == Rsa!Sum(terms)
         IN  /\ a \in AnySession /\ a.phase \in {6, 7, 9} /\ a.pk = s.pk /\ a.cross = s.cross
             /\ a.n = s.n /\ a.heard = s.heard
             /\ a.phase = 6 => a.evals = s.evals
             /\ \/ ~Rsa!AllIn(p, terms) /\ a = s
                \/ /\ Rsa!AllIn(p, terms) /\ p = Dealer /\ ~Rsa!HasInverse(E, Rsa!Absolute(lambda))
                   /\ a.phase = 6 /\ a.lambda = lambda
                \/ /\ Rsa!AllIn(p, terms) /\ a.lambda = lambda
                   /\ p = Dealer => Rsa!HasInverse(E, Rsa!Absolute(lambda))
                   /\ a.phase = IF lambda <= 0 THEN 9 ELSE 7
                   /\ a.evals = [s.evals EXCEPT ![p] = IF p = Dealer THEN lambda ELSE 1]
<1> DEFINE terms == Rsa!Terms(p, s, from, Rsa!LambdaContribution(p, s))
           lambda == Rsa!Sum(terms)
           k == IF lambda <= 0 THEN 9 ELSE 7
           e == IF p = Dealer THEN lambda ELSE 1
           a == Rsa!Phase6(p, s, from, m)
<1>1. lambda \in Int
  BY TermsShape, Contributing
<1>2. a = IF ~Rsa!AllIn(p, terms) THEN s
          ELSE IF p = Dealer /\ ~Rsa!HasInverse(E, Rsa!Absolute(lambda)) THEN [s EXCEPT !.lambda = lambda]
          ELSE [s EXCEPT !.lambda = lambda, !.phase = k, !.evals[p] = e]
  BY DEF Rsa!Phase6, Rsa!Crashed
<1>3. k \in {7, 9} /\ k \in 0 .. 9 /\ e \in Int
  BY <1>1
<1> HIDE DEF terms, lambda, k, e, a
<1>4. CASE ~Rsa!AllIn(p, terms)
  BY <1>2, <1>4 DEF terms, lambda, a
<1>5. CASE Rsa!AllIn(p, terms) /\ p = Dealer /\ ~Rsa!HasInverse(E, Rsa!Absolute(lambda))
  <2>1. a = [s EXCEPT !.lambda = lambda]
    BY <1>2, <1>5
  <2>2. /\ a \in AnySession /\ a.phase = 6 /\ a.pk = s.pk /\ a.cross = s.cross
        /\ a.n = s.n /\ a.heard = s.heard /\ a.evals = s.evals /\ a.lambda = lambda
    BY <1>1, <2>1 DEF AnySession
  <2> QED
    BY <1>5, <2>2 DEF terms, lambda, a
<1>6. CASE Rsa!AllIn(p, terms) /\ ~(p = Dealer /\ ~Rsa!HasInverse(E, Rsa!Absolute(lambda)))
  <2>1. a = [s EXCEPT !.lambda = lambda, !.phase = k, !.evals[p] = e]
    BY <1>2, <1>6
  <2>2. /\ a \in AnySession /\ a.phase = k /\ a.pk = s.pk /\ a.cross = s.cross
        /\ a.n = s.n /\ a.heard = s.heard /\ a.lambda = lambda
        /\ a.evals = [s.evals EXCEPT ![p] = e]
    BY ONLY <1>1, <1>3, <2>1, s \in AnySession, p \in Party DEF AnySession
  <2> QED
    BY <1>3, <1>6, <2>2 DEF terms, lambda, a, k, e
<1> QED
  BY <1>4, <1>5, <1>6

-------------------------------------------------------------------------------
(* One key.  x is what the dealer contributes to the modulus, or zero, and *)
(* l the dealer's lambda, or zero; nobody else contributes to either.      *)
MsgFits(again, m, q, x, l) ==
  m.kind = "data" =>
    /\ q # Dealer /\ m.phase \in {4, 6} => \A p \in Party : m.to[p] = 0
    /\ q = Dealer /\ m.phase = 4 => \A p \in Party : m.to[p] \in {0, x}
    /\ q = Dealer /\ m.phase = 7 => \A p \in Party : m.to[p] \in {0, l}
    /\ again = 0 /\ m.phase \in {1, 2} => \A p \in Party : m.to[p] \in {0, 1}

HeardFits(s, p, x, l) ==
  /\ \A k \in 1 .. 8 : s.heard[p][k] = -1
  /\ \A q \in Party \ {Dealer} : s.heard[q][4] \in {-1, 0} /\ s.heard[q][6] \in {-1, 0}
  /\ s.heard[Dealer][4] \in {-1, 0, x} /\ s.heard[Dealer][7] \in {-1, 0, l}
CrossFits(again, s, p) ==
  p # Dealer \/ again = 0 =>
    /\ \A q \in Party : s.cross[q] \in {-1, 0}
    /\ s.phase \in 3 .. 8 => \A q \in Party \ {p} : s.cross[q] = 0
KeysFit(again, s, p) ==
  again = 0 =>
    /\ \A q \in Party : s.pk[q] \in {0, 1}
    /\ s.phase \in 1 .. 8 => s.pk[p] = 1
ValuesFit(s, p, x, l) ==
  /\ s.n \in {0, x}
  /\ p # Dealer => s.evals[Dealer] \in {0, l}
  /\ p = Dealer =>
       /\ s.phase \in 3 .. 8 => x = Rsa!NContribution(p, s)
       /\ s.phase \in 5 .. 8 => s.n = x
       /\ s.phase \in 7 .. 8 => s.evals[p] = l
  /\ s.phase = 8 => s.n # 0 /\ s.evals[Dealer] # 0
SessFits(again, s, p, x, l) ==
  HeardFits(s, p, x, l) /\ CrossFits(again, s, p) /\ KeysFit(again, s, p) /\ ValuesFit(s, p, x, l)
KeyFits(key, x, l) == key = Rsa!NoKey \/ (x # 0 /\ l # 0 /\ key = [n |-> x, lambda |-> l])
Works(again, x, l) == again = 0 => x \in {0, P * Q} /\ l \in {0, (P - 1) * (Q - 1)}

LEMMA ContributionSame ==
  ASSUME NEW p, NEW s, NEW a, a.cross = s.cross PROVE Rsa!NContribution(p, a) = Rsa!NContribution(p, s)
BY DEF Rsa!NContribution

LEMMA NoSessionFits ==
  ASSUME Rsa!DealerAssumption, NEW again, NEW p \in Party, NEW x, NEW l
  PROVE  SessFits(again, Rsa!NoSession, p, x, l)
<1>1. Dealer \in Party
  BY DEF Rsa!DealerAssumption
<1>2. \A q \in Party : Rsa!Zeros[q] = 0
  BY DEF Rsa!Zeros
<1> QED
  BY <1>1, <1>2, NoSessionShape DEF SessFits, HeardFits, CrossFits, KeysFit, ValuesFit

(* Hearing a message that fits.                                            *)
LEMMA HearingFits ==
  ASSUME Rsa!DealerAssumption, NEW again, NEW p \in Party, NEW x, NEW l,
         NEW s \in AnySession,
         SessFits(again, s, p, x, l), NEW from \in Party \ {p}, NEW m \in DataMessages,
         MsgFits(again, m, from, x, l)
  PROVE  LET h == Hearing(s, from, m.phase, m.to[p])
         IN  h \in AnySession /\ h.phase = s.phase /\ SessFits(again, h, p, x, l)
<1> DEFINE h == Hearing(s, from, m.phase, m.to[p])
<1>1. m.phase \in 1 .. 8 /\ m.to[p] \in Int /\ m.kind = "data"
  BY DEF DataMessages
<1>2. /\ h \in AnySession
      /\ h.phase = s.phase /\ h.pk = s.pk /\ h.cross = s.cross /\ h.back = s.back
      /\ h.evals = s.evals /\ h.n = s.n /\ h.lambda = s.lambda
      /\ \A q \in Party, j \in 1 .. 8 :
           h.heard[q][j] = IF q = from /\ j = m.phase THEN m.to[p] ELSE s.heard[q][j]
  <2> DEFINE k == m.phase
             v == m.to[p]
  <2> HIDE DEF k, v
  <2>1. k \in 1 .. 8 /\ v \in Int /\ from \in Party
    BY <1>1 DEF k, v
  <2>2. LET g == Hearing(s, from, k, v)
        IN  /\ g \in AnySession
            /\ g.phase = s.phase /\ g.pk = s.pk /\ g.cross = s.cross /\ g.back = s.back
            /\ g.evals = s.evals /\ g.n = s.n /\ g.lambda = s.lambda
            /\ HeardSays(s, from, k, v, g)
    BY ONLY <2>1, HeardShape, s \in AnySession
  <2> QED
    BY <2>2 DEF k, v, HeardSays
<1> HIDE DEF h
<1>3. Rsa!NContribution(p, h) = Rsa!NContribution(p, s)
  BY <1>2, ContributionSame
<1>4. CrossFits(again, h, p) /\ KeysFit(again, h, p) /\ ValuesFit(h, p, x, l)
  BY <1>2, <1>3 DEF SessFits, CrossFits, KeysFit, ValuesFit
<1>5. HeardFits(h, p, x, l)
  <2>1. Dealer \in Party
    BY DEF Rsa!DealerAssumption
  <2>2. \A k \in 1 .. 8 : h.heard[p][k] = -1
    BY <1>2 DEF SessFits, HeardFits
  <2>3. ASSUME NEW q \in Party \ {Dealer}
        PROVE  h.heard[q][4] \in {-1, 0} /\ h.heard[q][6] \in {-1, 0}
    BY <1>1, <1>2 DEF SessFits, HeardFits, MsgFits
  <2>4. h.heard[Dealer][4] \in {-1, 0, x} /\ h.heard[Dealer][7] \in {-1, 0, l}
    BY <1>1, <1>2, <2>1 DEF SessFits, HeardFits, MsgFits
  <2> QED
    BY <2>2, <2>3, <2>4 DEF HeardFits
<1> QED
  BY <1>2, <1>4, <1>5 DEF SessFits, h

LEMMA Phase1Fits ==
  ASSUME NEW again, NEW p \in Party, NEW x, NEW l, NEW s \in AnySession, s.phase = 1,
         SessFits(again, s, p, x, l),
         NEW from \in Party \ {p}, NEW m \in DataMessages, MsgFits(again, m, from, x, l)
  PROVE  LET a == Rsa!Phase1(p, s, from, m)
         IN  a \in AnySession /\ a.phase \in {1, 2} /\ SessFits(again, a, p, x, l)
<1> DEFINE a == Rsa!Phase1(p, s, from, m)
<1>1. /\ a \in AnySession /\ a.phase \in {1, 2} /\ a.cross = s.cross /\ a.back = s.back
      /\ a.evals = s.evals /\ a.n = s.n /\ a.lambda = s.lambda /\ a.heard = s.heard
      /\ \A q \in Party :
           a.pk[q] = IF q = from /\ m.phase = 1 /\ m.to[p] # 0 THEN m.to[p] ELSE s.pk[q]
  BY Phase1Shape
<1> HIDE DEF a
<1>2. HeardFits(a, p, x, l) /\ CrossFits(again, a, p)
  BY <1>1 DEF SessFits, HeardFits, CrossFits
<1>3. ValuesFit(a, p, x, l)
  BY <1>1 DEF SessFits, ValuesFit
<1>4. KeysFit(again, a, p)
  BY <1>1 DEF SessFits, KeysFit, MsgFits, DataMessages
<1> QED
  BY <1>1, <1>2, <1>3, <1>4 DEF SessFits, a

(* The dealer finds its contribution to the modulus.                       *)
LEMMA Phase2Fits ==
  ASSUME Rsa!DealerAssumption, NEW again, NEW p \in Party, NEW x, NEW l,
         NEW s \in AnySession, s.phase = 2,
         SessFits(again, s, p, x, l), Works(again, x, l),
         NEW from \in Party \ {p}, NEW m \in DataMessages, MsgFits(again, m, from, x, l),
         NEW garbage \in Int, ~Rsa!Undecryptable(p, s, m, garbage),
         p = Dealer => x = 0
  PROVE  LET a == Rsa!Phase2(p, s, from, m, garbage)
         IN  /\ a \in AnySession /\ a.phase \in {2, 3}
             /\ \E y : /\ SessFits(again, a, p, y, l) /\ Works(again, y, l)
                       /\ p # Dealer \/ a.phase = 2 => y = x
<1> DEFINE a == Rsa!Phase2(p, s, from, m, garbage)
<1>1. /\ a \in AnySession /\ a.phase \in {2, 3} /\ a.pk = s.pk /\ a.back = s.back
      /\ a.evals = s.evals /\ a.n = s.n /\ a.lambda = s.lambda /\ a.heard = s.heard
      /\ \A q \in Party :
           a.cross[q] = IF q = from /\ m.phase = 2 /\ m.to[p] # 0
                        THEN Rsa!Decrypts(p, s, m.to[p], garbage) ELSE s.cross[q]
      /\ a.phase = 3 <=> \A q \in Party \ {p} : a.cross[q] # -1
  BY Phase2Shape
<1> HIDE DEF a
<1>2. KeysFit(again, a, p)
  BY <1>1 DEF SessFits, KeysFit
<1>3. CrossFits(again, a, p)
  <2>1. SUFFICES ASSUME p # Dealer \/ again = 0
                 PROVE  /\ \A q \in Party : a.cross[q] \in {-1, 0}
                        /\ a.phase \in 3 .. 8 => \A q \in Party \ {p} : a.cross[q] = 0
    BY DEF CrossFits
  <2>2. ASSUME m.phase = 2, m.to[p] # 0 PROVE Rsa!Decrypts(p, s, m.to[p], garbage) \in {-1, 0}
    <3>1. CASE p # Dealer
      BY <3>1 DEF Rsa!Decrypts
    <3>2. CASE again = 0
      <4>1. s.pk[p] = 1 /\ m.to[p] \in {0, 1}
        BY <2>2, <3>2 DEF SessFits, KeysFit, MsgFits, DataMessages
      <4> QED
        BY <2>2, <4>1 DEF Rsa!Decrypts
    <3> QED
      BY <2>1, <3>1, <3>2
  <2>3. \A q \in Party : a.cross[q] \in {-1, 0}
    BY <1>1, <2>1, <2>2 DEF SessFits, CrossFits
  <2> QED
    BY <1>1, <2>3
<1>4. CASE p # Dealer
  <2>1. HeardFits(a, p, x, l) /\ ValuesFit(a, p, x, l)
    BY <1>1, <1>4 DEF SessFits, HeardFits, ValuesFit
  <2> QED
    BY <1>1, <1>2, <1>3, <1>4, <2>1 DEF SessFits, a
<1>5. CASE p = Dealer
  <2> DEFINE y == IF a.phase = 2 THEN x ELSE Rsa!NContribution(p, a)
  <2>1. HeardFits(a, p, y, l)
    BY <1>1, <1>5 DEF SessFits, HeardFits
  <2>2. ValuesFit(a, p, y, l)
    BY <1>1, <1>5 DEF SessFits, ValuesFit
  <2>3. Works(again, y, l)
    <3>1. CASE a.phase = 2
      BY <3>1
    <3>2. ASSUME a.phase = 3, again = 0 PROVE Rsa!NContribution(p, a) = P * Q
      <4>1. \A q \in Party \ {p} : a.cross[q] = 0
        BY <1>3, <3>2 DEF CrossFits
      <4> QED
        BY <1>1, <1>5, <4>1, Contributing
    <3> QED
      BY <1>1, <3>1, <3>2 DEF Works
  <2>4. a.phase = 2 => y = x
    OBVIOUS
  <2> HIDE DEF y
  <2> QED
    BY <1>1, <1>2, <1>3, <1>5, <2>1, <2>2, <2>3, <2>4 DEF SessFits, a
<1> QED
  BY <1>4, <1>5

LEMMA Phase35Fits ==
  ASSUME NEW again, NEW p \in Party, NEW x, NEW l, NEW s \in AnySession, SessFits(again, s, p, x, l),
         NEW a \in AnySession,
         \/ s.phase = 3 /\ a.phase \in {3, 4}
         \/ s.phase = 5 /\ a.phase \in {5, 6},
         a.pk = s.pk, a.cross = s.cross, a.evals = s.evals, a.n = s.n, a.heard = s.heard
  PROVE  SessFits(again, a, p, x, l)
<1>1. Rsa!NContribution(p, a) = Rsa!NContribution(p, s)
  BY ContributionSame
<1>2. HeardFits(a, p, x, l) /\ KeysFit(again, a, p)
  BY DEF SessFits, HeardFits, KeysFit
<1>3. CrossFits(again, a, p)
  BY DEF SessFits, CrossFits
<1>4. ValuesFit(a, p, x, l)
  BY <1>1 DEF SessFits, ValuesFit
<1> QED
  BY <1>2, <1>3, <1>4 DEF SessFits

LEMMA Phase4Fits ==
  ASSUME Rsa!DealerAssumption, NEW again, NEW p \in Party, NEW x, NEW l,
         NEW s \in AnySession, s.phase = 4,
         SessFits(again, s, p, x, l), NEW from \in Party \ {p}, NEW m \in DataMessages
  PROVE  LET a == Rsa!Phase4(p, s, from, m)
         IN  a \in AnySession /\ a.phase \in {4, 5} /\ SessFits(again, a, p, x, l)
<1> DEFINE a == Rsa!Phase4(p, s, from, m)
           terms == Rsa!Terms(p, s, from, Rsa!NContribution(p, s))
<1>1. /\ a \in AnySession /\ a.phase \in {4, 5} /\ a.pk = s.pk /\ a.cross = s.cross
      /\ a.evals = s.evals /\ a.lambda = s.lambda /\ a.heard = s.heard
      /\ a.phase = 4 => a = s
      /\ a.phase = 5 => Rsa!AllIn(p, terms) /\ a.n = Rsa!Sum(terms)
  BY Phase4Shape
<1>2. Rsa!NContribution(p, s) \in Int /\ Dealer \in Party
  BY Contributing DEF Rsa!DealerAssumption
<1>3. /\ terms \in [Party -> Int] /\ terms[p] = Rsa!NContribution(p, s)
      /\ \A q \in Party \ {p} : terms[q] = IF q = from /\ s.heard[q][4] < 0 THEN 0
                                          ELSE s.heard[q][4]
  <2> DEFINE own == Rsa!NContribution(p, s)
  <2>1. own \in Int /\ 4 \in 1 .. 8 /\ from \in Party /\ s.phase = 4
    BY <1>2
  <2> HIDE DEF own
  <2>2. /\ Rsa!Terms(p, s, from, own) \in [Party -> Int]
        /\ Rsa!Terms(p, s, from, own)[p] = own
        /\ \A q \in Party \ {p} :
             Rsa!Terms(p, s, from, own)[q] = IF q = from /\ s.heard[q][4] < 0 THEN 0
                                         ELSE s.heard[q][4]
    BY ONLY p \in Party, s \in AnySession, <2>1, TermsAt
  <2>3. terms = Rsa!Terms(p, s, from, own)
    BY DEF own
  <2> HIDE DEF terms
  <2> QED
    BY <2>2, <2>3 DEF own
<1> HIDE DEF a, terms
<1>4. ASSUME a.phase = 5 PROVE a.n \in {0, x} /\ (p = Dealer => a.n = x)
  <2>1. Rsa!AllIn(p, terms) /\ a.n = Rsa!Sum(terms)
    BY <1>1, <1>4
  <2>2. p # Dealer => terms[p] = 0
    BY <1>3, Contributing DEF SessFits, CrossFits
  <2>3. \A q \in Party \ {Dealer} : terms[q] = 0
    BY <1>3, <2>1, <2>2 DEF Rsa!AllIn, SessFits, HeardFits
  <2>4. a.n = terms[Dealer]
    BY <1>2, <1>3, <2>1, <2>3, SumOfOne
  <2>5. CASE p = Dealer
    BY <1>3, <2>4, <2>5 DEF SessFits, ValuesFit
  <2>6. CASE p # Dealer
    BY <1>2, <1>3, <2>1, <2>4, <2>6 DEF Rsa!AllIn, SessFits, HeardFits
  <2> QED
    BY <2>5, <2>6
<1>5. CASE a.phase = 4
  BY <1>1, <1>5 DEF a
<1>6. CASE a.phase = 5
  <2>1. Rsa!NContribution(p, a) = Rsa!NContribution(p, s)
    BY <1>1, ContributionSame
  <2>2. HeardFits(a, p, x, l) /\ KeysFit(again, a, p)
    BY <1>1 DEF SessFits, HeardFits, KeysFit
  <2>3. CrossFits(again, a, p)
    BY <1>1 DEF SessFits, CrossFits
  <2>4. ValuesFit(a, p, x, l)
    BY <1>1, <1>4, <1>6, <2>1 DEF SessFits, ValuesFit
  <2> QED
    BY <1>1, <2>2, <2>3, <2>4 DEF SessFits, a
<1> QED
  BY <1>1, <1>5, <1>6

(* The dealer finds lambda.                                                *)
LEMMA Phase6Fits ==
  ASSUME Rsa!DealerAssumption, NEW again, NEW p \in Party, NEW x, NEW l,
         NEW s \in AnySession, s.phase = 6,
         SessFits(again, s, p, x, l), Works(again, x, l), NEW from \in Party \ {p},
         NEW m \in DataMessages,
         p = Dealer => l = 0
  PROVE  LET a == Rsa!Phase6(p, s, from, m)
         IN  /\ a \in AnySession /\ a.phase \in {6, 7, 9}
             /\ \E y : /\ SessFits(again, a, p, x, y) /\ Works(again, x, y)
                       /\ p # Dealer \/ a.phase = 6 => y = l
<1> DEFINE a == Rsa!Phase6(p, s, from, m)
           terms == Rsa!Terms(p, s, from, Rsa!LambdaContribution(p, s))
           lambda == Rsa!Sum(terms)
<1>1. /\ a \in AnySession /\ a.phase \in {6, 7, 9} /\ a.pk = s.pk /\ a.cross = s.cross
      /\ a.n = s.n /\ a.heard = s.heard
      /\ a.phase = 6 => a.evals = s.evals
      /\ \/ ~Rsa!AllIn(p, terms) /\ a = s
         \/ a.phase = 6
         \/ /\ Rsa!AllIn(p, terms)
            /\ a.phase \in {7, 9}
            /\ a.evals = [s.evals EXCEPT ![p] = IF p = Dealer THEN lambda ELSE 1]
  BY Phase6Shape
<1>2. Rsa!LambdaContribution(p, s) \in Int /\ Dealer \in Party
  BY Contributing DEF Rsa!DealerAssumption
<1>3. /\ terms \in [Party -> Int] /\ terms[p] = Rsa!LambdaContribution(p, s)
      /\ \A q \in Party \ {p} : terms[q] = IF q = from /\ s.heard[q][6] < 0 THEN 0
                                          ELSE s.heard[q][6]
  <2> DEFINE own == Rsa!LambdaContribution(p, s)
  <2>1. own \in Int /\ 6 \in 1 .. 8 /\ from \in Party /\ s.phase = 6
    BY <1>2
  <2> HIDE DEF own
  <2>2. /\ Rsa!Terms(p, s, from, own) \in [Party -> Int]
        /\ Rsa!Terms(p, s, from, own)[p] = own
        /\ \A q \in Party \ {p} :
             Rsa!Terms(p, s, from, own)[q] = IF q = from /\ s.heard[q][6] < 0 THEN 0
                                         ELSE s.heard[q][6]
    BY ONLY p \in Party, s \in AnySession, <2>1, TermsAt
  <2>3. terms = Rsa!Terms(p, s, from, own)
    BY DEF own
  <2> HIDE DEF terms
  <2> QED
    BY <2>2, <2>3 DEF own
<1> HIDE DEF a, terms, lambda
<1>4. HeardFits(a, p, x, l) /\ KeysFit(again, a, p) /\ CrossFits(again, a, p)
  BY <1>1 DEF SessFits, HeardFits, KeysFit, CrossFits
<1>5. Rsa!NContribution(p, a) = Rsa!NContribution(p, s)
  BY <1>1, ContributionSame
<1>6. CASE a.phase = 6
  <2>1. ValuesFit(a, p, x, l)
    BY <1>1, <1>5, <1>6 DEF SessFits, ValuesFit
  <2> QED
    BY <1>1, <1>4, <2>1 DEF SessFits, a
<1>7. CASE a.phase \in {7, 9} /\ p # Dealer
  <2>1. a.evals = [s.evals EXCEPT ![p] = 1]
    BY <1>1, <1>7
  <2>2. a.evals[Dealer] = s.evals[Dealer]
    BY <1>2, <1>7, <2>1 DEF AnySession
  <2>3. ValuesFit(a, p, x, l)
    BY <1>1, <1>7, <2>2 DEF SessFits, ValuesFit
  <2> QED
    BY <1>1, <1>4, <1>7, <2>3 DEF SessFits, a
<1>8. CASE a.phase \in {7, 9} /\ p = Dealer
  <2>1. Rsa!AllIn(p, terms) /\ a.evals = [s.evals EXCEPT ![p] = lambda]
    BY <1>1, <1>8
  <2>2. a.evals[p] = lambda
    BY <2>1 DEF AnySession
  <2>3. \A q \in Party \ {Dealer} : terms[q] = 0
    BY <1>3, <1>8, <2>1 DEF Rsa!AllIn, SessFits, HeardFits
  <2>4. lambda = terms[Dealer]
    BY <1>2, <1>3, <2>3, SumOfOne DEF lambda
  <2>5. lambda = s.n + 1 - P - Q /\ s.n = x
    BY <1>3, <1>8, <2>4 DEF Rsa!LambdaContribution, SessFits, ValuesFit
  <2>6. Works(again, x, lambda)
    <3>1. SUFFICES ASSUME again = 0 PROVE x = P * Q /\ lambda = (P - 1) * (Q - 1)
      BY DEF Works
    <3>2. x = P * Q
      BY <1>8, <3>1, Contributing DEF SessFits, ValuesFit, CrossFits
    <3>3. P \in Int /\ Q \in Int
      BY DEF Rsa!DealerAssumption
    <3>4. (P - 1) * (Q - 1) = P * Q + 1 - P - Q
      BY <3>3
    <3> QED
      BY <2>5, <3>2, <3>4
  <2>7. HeardFits(a, p, x, lambda)
    BY <1>1, <1>8 DEF SessFits, HeardFits
  <2>8. ValuesFit(a, p, x, lambda)
    BY <1>1, <1>5, <1>8, <2>2, <2>5 DEF SessFits, ValuesFit
  <2> QED
    BY <1>1, <1>4, <1>8, <2>6, <2>7, <2>8 DEF SessFits, a
<1> QED
  BY <1>1, <1>6, <1>7, <1>8

LEMMA Phase7Fits ==
  ASSUME Rsa!DealerAssumption, NEW again, NEW p \in Party, NEW x, NEW l,
         NEW s \in AnySession, s.phase = 7,
         SessFits(again, s, p, x, l), NEW from \in Party \ {p}, NEW m \in DataMessages
  PROVE  LET a == Rsa!Phase7(p, s, from, m)
         IN  a \in AnySession /\ a.phase \in {7, 8, 9} /\ SessFits(again, a, p, x, l)
<1> DEFINE a == Rsa!Phase7(p, s, from, m)
<1>1. /\ a \in AnySession /\ a.phase \in {7, 8, 9} /\ a.pk = s.pk /\ a.cross = s.cross
      /\ a.n = s.n /\ a.lambda = s.lambda /\ a.heard = s.heard
      /\ a.evals = [q \in Party |-> IF s.heard[q][7] > 0 THEN s.heard[q][7] ELSE s.evals[q]]
      /\ a.phase = 7 <=> 0 \in Rsa!Range(a.evals)
      /\ a.phase = 8 => a.n # 0
  BY Phase7Shape
<1> HIDE DEF a
<1>2. Dealer \in Party
  BY DEF Rsa!DealerAssumption
<1>3. a.evals[Dealer] = IF s.heard[Dealer][7] > 0 THEN s.heard[Dealer][7] ELSE s.evals[Dealer]
  BY <1>1, <1>2
<1>4. a.phase = 8 => a.evals[Dealer] # 0
  BY <1>1, <1>2 DEF Rsa!Range, AnySession
<1>5. Rsa!NContribution(p, a) = Rsa!NContribution(p, s)
  BY <1>1, ContributionSame
<1>6. HeardFits(a, p, x, l) /\ KeysFit(again, a, p) /\ CrossFits(again, a, p)
  BY <1>1 DEF SessFits, HeardFits, KeysFit, CrossFits
<1>7. p # Dealer => a.evals[Dealer] \in {0, l}
  BY <1>3 DEF SessFits, HeardFits, ValuesFit
<1>8. p = Dealer => a.evals[p] = l
  BY <1>3 DEF SessFits, HeardFits, ValuesFit
<1>9. ValuesFit(a, p, x, l)
  BY <1>1, <1>4, <1>5, <1>7, <1>8 DEF SessFits, ValuesFit
<1> QED
  BY <1>1, <1>6, <1>9 DEF SessFits, a

(* A larger x or l, where there was none: nothing else changes.            *)
Grows(x, l, y, k) == (x = 0 \/ y = x) /\ (l = 0 \/ k = l)

LEMMA MsgGrows ==
  ASSUME NEW again, NEW m, NEW q, NEW x, NEW l, NEW y, NEW k, MsgFits(again, m, q, x, l),
         Grows(x, l, y, k) \/ q # Dealer
  PROVE  MsgFits(again, m, q, y, k)
BY DEF MsgFits, Grows

LEMMA SessGrows ==
  ASSUME NEW again, NEW s, NEW p, p # Dealer, NEW x, NEW l, NEW y, NEW k,
         SessFits(again, s, p, x, l), Grows(x, l, y, k)
  PROVE  SessFits(again, s, p, y, k)
<1>1. HeardFits(s, p, y, k)
  BY DEF SessFits, HeardFits, Grows
<1>2. ValuesFit(s, p, y, k)
  BY DEF SessFits, ValuesFit, Grows
<1> QED
  BY <1>1, <1>2 DEF SessFits

LEMMA KeyGrows ==
  ASSUME NEW key, NEW x, NEW l, NEW y, NEW k, KeyFits(key, x, l), Grows(x, l, y, k)
  PROVE  KeyFits(key, y, k)
BY DEF KeyFits, Grows

(* What a session sends on entering a phase, and while it waits.           *)
LEMMA WaitsFits ==
  ASSUME NEW again, NEW p \in Party, NEW x, NEW l, NEW s, s.phase \in 1 .. 8
  PROVE  Rsa!Waits(s) \in AnyContribution /\ MsgFits(again, Rsa!Waits(s), p, x, l)
<1> DEFINE zero == [q \in Party |-> 0]
           k == s.phase
<1>1. Rsa!Waits(s) = Rsa!Data(k, zero) /\ zero \in [Party -> Int] /\ k \in 1 .. 8
  BY DEF Rsa!Waits, Rsa!ToAll
<1>2. \A q \in Party : zero[q] = 0
  OBVIOUS
<1> HIDE DEF zero, k
<1>3. /\ Rsa!Data(k, zero) \in DataMessages /\ Rsa!Data(k, zero).to = zero
  BY <1>1, MessageShapes
<1> QED
  BY <1>1, <1>2, <1>3 DEF MsgFits, AnyContribution

LEMMA EntersFits ==
  ASSUME Rsa!DealerAssumption, NEW again, NEW p \in Party, NEW x, NEW l,
         NEW s \in AnySession,
         s.phase \in 2 .. 8, SessFits(again, s, p, x, l)
  PROVE  Rsa!Enters(p, s) \in AnyContribution /\ MsgFits(again, Rsa!Enters(p, s), p, x, l)
<1>1. Rsa!NContribution(p, s) \in Int /\ Rsa!Absolute(Rsa!LambdaContribution(p, s)) \in Int
  BY Contributing
<1>2. ASSUME NEW k \in 2 .. 8, NEW to \in [Party -> Int], Rsa!Enters(p, s) = Rsa!Data(k, to),
             again = 0 /\ k = 2 => \A q \in Party : to[q] \in {0, 1},
             p # Dealer /\ k \in {4, 6} => \A q \in Party : to[q] = 0,
             p = Dealer /\ k = 4 => \A q \in Party : to[q] = x,
             p = Dealer /\ k = 7 => \A q \in Party : to[q] = l
      PROVE  Rsa!Enters(p, s) \in AnyContribution /\ MsgFits(again, Rsa!Enters(p, s), p, x, l)
  <2>1. k \in 1 .. 8
    OBVIOUS
  <2>2. Rsa!Data(k, to) \in DataMessages /\ Rsa!Data(k, to).phase = k /\ Rsa!Data(k, to).to = to
    BY ONLY <2>1, to \in [Party -> Int], MessageShapes
  <2> QED
    BY <1>2, <2>2 DEF MsgFits, AnyContribution
<1>3. CASE s.phase = 2
  <2> DEFINE to == [s.pk EXCEPT ![p] = 0]
  <2>1. Rsa!Enters(p, s) = Rsa!Data(2, to)
    BY <1>3 DEF Rsa!Enters, Rsa!EncryptedShares
  <2>2. to \in [Party -> Int] /\ (again = 0 => \A q \in Party : to[q] \in {0, 1})
    BY DEF SessFits, KeysFit, AnySession
  <2> HIDE DEF to
  <2> QED
    BY <1>2, <2>1, <2>2
<1>4. CASE s.phase = 3
  <2> DEFINE to == [s.cross EXCEPT ![p] = 0]
  <2>1. Rsa!Enters(p, s) = Rsa!Data(3, to)
    BY <1>4 DEF Rsa!Enters, Rsa!CrossProducts
  <2>2. to \in [Party -> Int]
    BY DEF AnySession
  <2> HIDE DEF to
  <2> QED
    BY <1>2, <2>1, <2>2
<1>5. CASE s.phase = 4
  <2> DEFINE v == Rsa!NContribution(p, s)
             to == [q \in Party |-> v]
  <2>1. Rsa!Enters(p, s) = Rsa!Data(4, to)
    BY <1>5 DEF Rsa!Enters, Rsa!ToAll
  <2>2. p # Dealer => v = 0
    BY <1>5, Contributing DEF SessFits, CrossFits
  <2>3. p = Dealer => v = x
    BY <1>5 DEF SessFits, ValuesFit
  <2>4. v \in Int
    BY <1>1
  <2> HIDE DEF v
  <2>5. to \in [Party -> Int] /\ \A q \in Party : to[q] = v
    BY <2>4
  <2> HIDE DEF to
  <2> QED
    BY <1>2, <2>1, <2>2, <2>3, <2>5
<1>6. CASE s.phase = 6
  <2> DEFINE v == Rsa!Absolute(Rsa!LambdaContribution(p, s))
             to == [q \in Party |-> v]
  <2>1. Rsa!Enters(p, s) = Rsa!Data(6, to)
    BY <1>6 DEF Rsa!Enters, Rsa!ToAll
  <2>2. p # Dealer => v = 0
    BY Contributing
  <2>3. v \in Int
    BY <1>1
  <2> HIDE DEF v
  <2>4. to \in [Party -> Int] /\ \A q \in Party : to[q] = v
    BY <2>3
  <2> HIDE DEF to
  <2> QED
    BY <1>2, <2>1, <2>2, <2>4
<1>7. CASE s.phase = 7
  <2> DEFINE v == s.evals[p]
             to == [q \in Party |-> v]
  <2>1. Rsa!Enters(p, s) = Rsa!Data(7, to)
    BY <1>7 DEF Rsa!Enters, Rsa!Evaluations, Rsa!ToAll
  <2>2. p = Dealer => v = l
    BY <1>7 DEF SessFits, ValuesFit
  <2>3. v \in Int
    BY DEF AnySession
  <2> HIDE DEF v
  <2>4. to \in [Party -> Int] /\ \A q \in Party : to[q] = v
    BY <2>3
  <2> HIDE DEF to
  <2> QED
    BY <1>2, <2>1, <2>2, <2>4
<1>8. CASE s.phase \in {5, 8}
  <2> DEFINE to == [q \in Party |-> 1]
             k == s.phase
  <2>1. Rsa!Enters(p, s) = Rsa!Data(k, to) /\ k \in {5, 8}
    BY <1>8 DEF Rsa!Enters, Rsa!Biprimality, Rsa!Verification, Rsa!ToAll
  <2>2. to \in [Party -> Int]
    OBVIOUS
  <2> HIDE DEF to, k
  <2> QED
    BY <1>2, <2>1, <2>2
<1> QED
  BY <1>3, <1>4, <1>5, <1>6, <1>7, <1>8

Early(s, x, l) == (s.phase \in {1, 2} => x = 0) /\ (s.phase \in 1 .. 6 => l = 0)
ResultFits(again, p, r, x, l) ==
  /\ SessFits(again, r.s, p, x, l)
  /\ MsgFits(again, r.last, p, x, l)
  /\ KeyFits(r.key, x, l)
  /\ Works(again, x, l)
  /\ p = Dealer => Early(r.s, x, l)
Reached(p, x, l, y, k) == Grows(x, l, y, k) /\ (p # Dealer => y = x /\ k = l)

(* A session handles a message.                                            *)
LEMMA HandleFits ==
  ASSUME Rsa!DealerAssumption, NEW again, NEW p \in Party, NEW x, NEW l,
         NEW s \in AnySession,
         s.phase \in 1 .. 8, SessFits(again, s, p, x, l), Works(again, x, l),
         p = Dealer => Early(s, x, l),
         NEW from \in Party \ {p}, NEW m \in DataMessages, MsgFits(again, m, from, x, l),
         NEW garbage \in Int, ~Rsa!Undecryptable(p, s, m, garbage)
  PROVE  LET a == Rsa!Handle(p, s, from, m, garbage)
         IN  /\ a \in AnySession /\ a.phase \in 1 .. 9
             /\ a.phase # s.phase => a.phase \in 2 .. 9
             /\ \E y, k : /\ SessFits(again, a, p, y, k) /\ Works(again, y, k)
                          /\ p = Dealer => Early(a, y, k)
                          /\ Reached(p, x, l, y, k)
<1> DEFINE a == Rsa!Handle(p, s, from, m, garbage)
<1> SUFFICES /\ a \in AnySession /\ a.phase \in 1 .. 9
             /\ a.phase # s.phase => a.phase \in 2 .. 9
             /\ \E y, k : /\ SessFits(again, a, p, y, k) /\ Works(again, y, k)
                          /\ p = Dealer => Early(a, y, k)
                          /\ Reached(p, x, l, y, k)
  OBVIOUS
<1>0. Reached(p, x, l, x, l)
  BY DEF Reached, Grows
<1>1. CASE s.phase = 1
  <2>1. a = Rsa!Phase1(p, s, from, m)
    BY <1>1 DEF Rsa!Handle
  <2> HIDE DEF a
  <2>2. a \in AnySession /\ a.phase \in {1, 2} /\ SessFits(again, a, p, x, l)
    BY <1>1, <2>1, Phase1Fits
  <2> QED
    BY <1>0, <1>1, <2>2 DEF Early
<1>2. CASE s.phase = 2
  <2>1. a = Rsa!Phase2(p, s, from, m, garbage)
    BY <1>2 DEF Rsa!Handle
  <2>2. p = Dealer => x = 0 /\ l = 0
    BY <1>2 DEF Early
  <2> HIDE DEF a
  <2>3. /\ a \in AnySession /\ a.phase \in {2, 3}
        /\ \E y : /\ SessFits(again, a, p, y, l) /\ Works(again, y, l)
                  /\ p # Dealer \/ a.phase = 2 => y = x
    BY <1>2, <2>1, <2>2, Phase2Fits
  <2>4. PICK y : /\ SessFits(again, a, p, y, l) /\ Works(again, y, l)
                 /\ p # Dealer \/ a.phase = 2 => y = x
    BY <2>3
  <2>5. Reached(p, x, l, y, l) /\ (p = Dealer => Early(a, y, l))
    BY <2>2, <2>3, <2>4 DEF Reached, Grows, Early
  <2> QED
    BY <1>2, <2>3, <2>4, <2>5
<1>3. CASE s.phase = 3
  <2>1. a = Rsa!Phase3(p, s, from, m)
    BY <1>3 DEF Rsa!Handle
  <2> HIDE DEF a
  <2>2. /\ a \in AnySession /\ a.phase \in {3, 4} /\ a.pk = s.pk /\ a.cross = s.cross
        /\ a.evals = s.evals /\ a.n = s.n /\ a.lambda = s.lambda /\ a.heard = s.heard
    BY <1>3, <2>1, Phase3Shape
  <2>3. SessFits(again, a, p, x, l)
    BY <1>3, <2>2, Phase35Fits
  <2> QED
    BY <1>0, <1>3, <2>2, <2>3 DEF Early
<1>4. CASE s.phase = 4
  <2>1. a = Rsa!Phase4(p, s, from, m)
    BY <1>4 DEF Rsa!Handle
  <2> HIDE DEF a
  <2>2. a \in AnySession /\ a.phase \in {4, 5} /\ SessFits(again, a, p, x, l)
    BY <1>4, <2>1, Phase4Fits
  <2> QED
    BY <1>0, <1>4, <2>2 DEF Early
<1>5. CASE s.phase = 5
  <2>1. a = Rsa!Phase5(p, s, from, m)
    BY <1>5 DEF Rsa!Handle
  <2> HIDE DEF a
  <2>2. /\ a \in AnySession /\ a.phase \in {5, 6} /\ a.pk = s.pk /\ a.cross = s.cross
        /\ a.evals = s.evals /\ a.n = s.n /\ a.lambda = s.lambda /\ a.heard = s.heard
    BY <1>5, <2>1, Phase5Shape
  <2>3. SessFits(again, a, p, x, l)
    BY <1>5, <2>2, Phase35Fits
  <2> QED
    BY <1>0, <1>5, <2>2, <2>3 DEF Early
<1>6. CASE s.phase = 6
  <2>1. a = Rsa!Phase6(p, s, from, m)
    BY <1>6 DEF Rsa!Handle
  <2>2. p = Dealer => l = 0
    BY <1>6 DEF Early
  <2> HIDE DEF a
  <2>3. /\ a \in AnySession /\ a.phase \in {6, 7, 9}
        /\ \E y : /\ SessFits(again, a, p, x, y) /\ Works(again, x, y)
                  /\ p # Dealer \/ a.phase = 6 => y = l
    BY <1>6, <2>1, <2>2, Phase6Fits
  <2>4. PICK y : /\ SessFits(again, a, p, x, y) /\ Works(again, x, y)
                 /\ p # Dealer \/ a.phase = 6 => y = l
    BY <2>3
  <2>5. Reached(p, x, l, x, y) /\ (p = Dealer => Early(a, x, y))
    BY <2>2, <2>3, <2>4 DEF Reached, Grows, Early
  <2> QED
    BY <1>6, <2>3, <2>4, <2>5
<1>7. CASE s.phase = 7
  <2>1. a = Rsa!Phase7(p, s, from, m)
    BY <1>7 DEF Rsa!Handle
  <2> HIDE DEF a
  <2>2. a \in AnySession /\ a.phase \in {7, 8, 9} /\ SessFits(again, a, p, x, l)
    BY <1>7, <2>1, Phase7Fits
  <2> QED
    BY <1>0, <1>7, <2>2 DEF Early
<1>8. CASE s.phase = 8
  <2>1. a = s
    BY <1>8 DEF Rsa!Handle
  <2> QED
    BY <1>0, <1>8, <2>1
<1> QED
  BY <1>1, <1>2, <1>3, <1>4, <1>5, <1>6, <1>7, <1>8

(* One message of a poll.                                                  *)
LEMMA FeedFits ==
  ASSUME Rsa!DealerAssumption, NEW again, NEW p \in Party, NEW x, NEW l,
         NEW r \in AnyResult,
         ResultFits(again, p, r, x, l),
         NEW from \in Party \ {p}, NEW m \in DataMessages, MsgFits(again, m, from, x, l),
         NEW garbage \in Int
  PROVE  LET f == Rsa!Feed(p, r, from, m, garbage)
         IN  /\ f \in AnyResult
             /\ \E y, k : ResultFits(again, p, f, y, k) /\ Reached(p, x, l, y, k)
<1> DEFINE f == Rsa!Feed(p, r, from, m, garbage)
           heard == Hearing(r.s, from, m.phase, m.to[p])
           after == Rsa!Handle(p, heard, from, m, garbage)
<1> SUFFICES /\ f \in AnyResult
             /\ \E y, k : ResultFits(again, p, f, y, k) /\ Reached(p, x, l, y, k)
  OBVIOUS
<1>0. Reached(p, x, l, x, l)
  BY DEF Reached, Grows
<1>1. /\ r.s \in AnySession /\ r.last \in AnyContribution /\ r.key \in AnyKey
      /\ r.failed \in BOOLEAN
      /\ r = [s |-> r.s, last |-> r.last, key |-> r.key, failed |-> r.failed]
  BY DEF AnyResult
<1>2. /\ SessFits(again, r.s, p, x, l) /\ MsgFits(again, r.last, p, x, l)
      /\ KeyFits(r.key, x, l) /\ Works(again, x, l) /\ (p = Dealer => Early(r.s, x, l))
  BY DEF ResultFits
<1>3. heard \in AnySession /\ heard.phase = r.s.phase /\ SessFits(again, heard, p, x, l)
  BY <1>1, <1>2, HearingFits
<1>4. p = Dealer => Early(heard, x, l)
  BY <1>2, <1>3 DEF Early
<1>5. f = IF r.failed THEN r
          ELSE IF r.s.phase \in {Rsa!None, Rsa!Crashed} \/ Rsa!Undecryptable(p, heard, m, garbage)
          THEN [r EXCEPT !.s = heard, !.failed = TRUE]
          ELSE IF heard.phase = 8 /\ Rsa!Verified(p, heard)
          THEN [r EXCEPT !.s = Rsa!NoSession, !.key = [n |-> heard.n, lambda |-> heard.evals[Dealer]]]
          ELSE [r EXCEPT !.s = after,
                         !.failed = after.phase = Rsa!Crashed \/ Rsa!NotInvertible(p, after),
                         !.last = IF after.phase = heard.phase THEN Rsa!Waits(after)
                                  ELSE Rsa!Enters(p, after)]
  BY DEF Rsa!Feed, Hearing
<1> HIDE DEF f, heard
<1>6. CASE r.failed
  BY <1>0, <1>5, <1>6
<1>7. CASE ~r.failed /\ (r.s.phase \in {Rsa!None, Rsa!Crashed} \/ Rsa!Undecryptable(p, heard, m, garbage))
  <2>1. f = [r EXCEPT !.s = heard, !.failed = TRUE]
    BY <1>5, <1>7
  <2>2. f \in AnyResult /\ f.s = heard /\ f.last = r.last /\ f.key = r.key
    BY <1>1, <1>3, <2>1 DEF AnyResult
  <2>3. ResultFits(again, p, f, x, l)
    BY <1>2, <1>3, <1>4, <2>2 DEF ResultFits
  <2> QED
    BY <1>0, <2>2, <2>3
<1>8. CASE /\ ~r.failed /\ r.s.phase \notin {Rsa!None, Rsa!Crashed} /\ ~Rsa!Undecryptable(p, heard, m, garbage)
           /\ heard.phase = 8 /\ Rsa!Verified(p, heard)
  <2> DEFINE key == [n |-> heard.n, lambda |-> heard.evals[Dealer]]
  <2>1. f = [r EXCEPT !.s = Rsa!NoSession, !.key = key]
    BY <1>5, <1>8
  <2>2. Dealer \in Party
    BY DEF Rsa!DealerAssumption
  <2>3. key \in AnyKey
    BY <1>3, <2>2 DEF AnyKey, AnySession
  <2>4. heard.n = x /\ heard.evals[Dealer] = l /\ x # 0 /\ l # 0
    BY <1>3, <1>8 DEF SessFits, ValuesFit
  <2>5. KeyFits(key, x, l)
    BY <2>4 DEF KeyFits
  <2> HIDE DEF key
  <2>6. f \in AnyResult /\ f.s = Rsa!NoSession /\ f.last = r.last /\ f.key = key
    BY <1>1, <2>1, <2>3, NoSessionShape DEF AnyResult
  <2>7. ResultFits(again, p, f, x, l)
    BY <1>2, <2>5, <2>6, NoSessionFits, NoSessionShape DEF ResultFits, Early
  <2> QED
    BY <1>0, <2>6, <2>7
<1>9. CASE /\ ~r.failed /\ r.s.phase \notin {Rsa!None, Rsa!Crashed} /\ ~Rsa!Undecryptable(p, heard, m, garbage)
           /\ ~(heard.phase = 8 /\ Rsa!Verified(p, heard))
  <2> DEFINE failed == after.phase = Rsa!Crashed \/ Rsa!NotInvertible(p, after)
             last == IF after.phase = heard.phase THEN Rsa!Waits(after) ELSE Rsa!Enters(p, after)
  <2>1. heard.phase \in 1 .. 8
    BY <1>3, <1>9 DEF AnySession, Rsa!None, Rsa!Crashed
  <2>2. /\ after \in AnySession /\ after.phase \in 1 .. 9
        /\ after.phase # heard.phase => after.phase \in 2 .. 9
        /\ \E y, k : /\ SessFits(again, after, p, y, k) /\ Works(again, y, k)
                     /\ p = Dealer => Early(after, y, k)
                     /\ Reached(p, x, l, y, k)
    BY <1>2, <1>3, <1>4, <1>9, <2>1, HandleFits
  <2>3. PICK y, k : /\ SessFits(again, after, p, y, k) /\ Works(again, y, k)
                    /\ p = Dealer => Early(after, y, k)
                    /\ Reached(p, x, l, y, k)
    BY <2>2
  <2> HIDE DEF after
  <2>4. last \in AnyContribution /\ MsgFits(again, last, p, y, k)
    <3>1. CASE after.phase = heard.phase
      BY <2>1, <3>1, WaitsFits
    <3>2. CASE after.phase # heard.phase /\ after.phase \in 2 .. 8
      BY <2>2, <2>3, <3>2, EntersFits
    <3>3. CASE after.phase = 9
      <4>1. last = Rsa!Data(8, [q \in Party |-> 1])
        BY <2>1, <3>3 DEF Rsa!Enters, Rsa!Verification, Rsa!ToAll
      <4> DEFINE to == [q \in Party |-> 1]
      <4>2. to \in [Party -> Int]
        OBVIOUS
      <4> HIDE DEF to
      <4>3. Rsa!Data(8, to) \in DataMessages /\ Rsa!Data(8, to).phase = 8
        BY <4>2, MessageShapes
      <4> QED
        BY <4>1, <4>3 DEF MsgFits, AnyContribution, to
    <3> QED
      BY <2>2, <3>1, <3>2, <3>3
  <2>5. failed \in BOOLEAN
    BY DEF Rsa!NotInvertible
  <2>6. f = [r EXCEPT !.s = after, !.failed = failed, !.last = last]
    BY <1>5, <1>9
  <2> HIDE DEF failed, last
  <2>7. f \in AnyResult /\ f.s = after /\ f.last = last /\ f.key = r.key
    BY <1>1, <2>2, <2>4, <2>5, <2>6 DEF AnyResult
  <2>8. KeyFits(r.key, y, k)
    BY <1>2, <2>3, KeyGrows DEF Reached
  <2>9. ResultFits(again, p, f, y, k)
    BY <2>3, <2>4, <2>7, <2>8 DEF ResultFits
  <2> QED
    BY <2>3, <2>7, <2>9
<1> QED
  BY <1>6, <1>7, <1>8, <1>9

(* A poll.                                                                 *)
LEMMA PollFits ==
  ASSUME Rsa!DealerAssumption, NEW again, NEW p \in Party, NEW x, NEW l,
         rsaSess[p] \in AnySession, SessFits(again, rsaSess[p], p, x, l), Works(again, x, l),
         p = Dealer => Early(rsaSess[p], x, l),
         \A q \in Party : /\ rsaSnap[p].contribs[q] \in AnyContribution
                          /\ MsgFits(again, rsaSnap[p].contribs[q], q, x, l)
  PROVE  \A r \in Rsa!Polls(p) :
           /\ r \in AnyResult
           /\ \E y, k : ResultFits(again, p, r, y, k) /\ Reached(p, x, l, y, k)
<1> DEFINE J == {r \in AnyResult :
                   \E y, k : ResultFits(again, p, r, y, k) /\ Reached(p, x, l, y, k)}
           I == [T \in SUBSET Rsa!Senders(p) |-> J]
<1>1. \A T \in SUBSET Rsa!Senders(p) : I[T] = J
  OBVIOUS
<1>2. PollStart(p) \in I[{}]
  <2>1. Rsa!NoKey \in AnyKey /\ Rsa!Empty \in AnyContribution /\ Rsa!Empty.kind # "data"
    BY DEF Rsa!NoKey, AnyKey, Rsa!Empty, AnyContribution
  <2>2. PollStart(p) \in AnyResult
    BY <2>1 DEF PollStart, AnyResult
  <2>3. ResultFits(again, p, PollStart(p), x, l)
    BY <2>1 DEF ResultFits, PollStart, KeyFits, MsgFits
  <2>4. Reached(p, x, l, x, l)
    BY DEF Reached, Grows
  <2> HIDE DEF I
  <2> QED
    BY <1>1, <2>2, <2>3, <2>4
<1>3. ASSUME NEW T \in SUBSET Rsa!Senders(p), NEW q \in T, NEW r \in I[T \ {q}],
             NEW garbage \in Rsa!Wrong(p, q)
      PROVE  Rsa!Feed(p, r, q, rsaSnap[p].contribs[q], garbage) \in I[T]
  <2> DEFINE m == rsaSnap[p].contribs[q]
  <2>1. r \in J
    BY <1>1
  <2>2. r \in AnyResult
    BY <2>1
  <2>3. PICK y, k : ResultFits(again, p, r, y, k) /\ Reached(p, x, l, y, k)
    BY <2>1
  <2>4. q \in Party \ {p} /\ m \in AnyContribution /\ m.kind = "data" /\ MsgFits(again, m, q, x, l)
    BY DEF Rsa!Senders
  <2>5. m \in DataMessages
    BY <2>4 DEF AnyContribution, Rsa!NoContribution, Rsa!Empty, Rsa!Complete
  <2>6. garbage \in Int
    BY DEF Rsa!Wrong, Rsa!DealerAssumption
  <2> HIDE DEF m
  <2>7. MsgFits(again, m, q, y, k)
    BY <2>3, <2>4, MsgGrows DEF Reached
  <2> DEFINE f == Rsa!Feed(p, r, q, m, garbage)
  <2>8. /\ f \in AnyResult
        /\ \E z, j : ResultFits(again, p, f, z, j) /\ Reached(p, y, k, z, j)
    BY <2>2, <2>3, <2>4, <2>5, <2>6, <2>7, FeedFits
  <2> HIDE DEF f
  <2>9. PICK z, j : ResultFits(again, p, f, z, j) /\ Reached(p, y, k, z, j)
    BY <2>8
  <2>10. Reached(p, x, l, z, j)
    BY <2>3, <2>9 DEF Reached, Grows
  <2>11. f \in J
    BY <2>8, <2>9, <2>10
  <2> HIDE DEF I, J
  <2> QED
    BY <1>1, <2>11 DEF f, m
<1> HIDE DEF I, J
<1>4. Rsa!Polls(p) \subseteq I[Rsa!Senders(p)]
  BY <1>2, <1>3, PollsWithin
<1> QED
  BY <1>1, <1>4 DEF J

-------------------------------------------------------------------------------
(* The inductive invariant.                                                *)
AnyTask == [round : Nat, contribs : [Party -> AnyContribution]]
Shape ==
  /\ rsaRound \in Nat
  /\ {rsaInbox, rsaContribs, rsaOut} \subseteq [Party -> AnyContribution]
  /\ rsaPc \in [Party -> {"idle", "polled", "submitting", "persisting"}]
  /\ rsaSnap \in [Party -> AnyTask]
  /\ rsaRestarts \in Nat
  /\ rsaSess \in [Party -> AnySession]
  /\ rsaInited \subseteq Party
  /\ {rsaCompleted, rsaStore} \subseteq [Party -> AnyKey]
  /\ rsaDraws \in [Party -> Nat]

RsaSnapsPast == \A p \in Party : rsaSnap[p].round <= rsaRound
FirstDraws ==
  rsaRestarts = 0 =>
    \A p \in Party : /\ rsaDraws[p] \in {0, 1}
                     /\ rsaDraws[p] = 0 \/ p \in rsaInited \/ rsaCompleted[p] # Rsa!NoKey

(* The dealer may still begin a session, in which it has no key yet.       *)
MayBegin == rsaRound = 0 \/ (rsaPc[Dealer] = "polled" /\ rsaSnap[Dealer].round = 0)

(* Everything is of one modulus and one lambda.                            *)
AllFit(again, x, l) ==
  /\ \A p \in Party : SessFits(again, rsaSess[p], p, x, l)
  /\ \A p \in Party : MsgFits(again, rsaInbox[p], p, x, l)
  /\ \A p \in Party : MsgFits(again, rsaContribs[p], p, x, l)
  /\ \A p \in Party : MsgFits(again, rsaOut[p], p, x, l)
  /\ \A p, q \in Party : MsgFits(again, rsaSnap[p].contribs[q], q, x, l)
  /\ \A p \in Party : KeyFits(rsaCompleted[p], x, l) /\ KeyFits(rsaStore[p], x, l)
  /\ Works(again, x, l)
  /\ Early(rsaSess[Dealer], x, l)
  /\ MayBegin => x = 0 /\ l = 0
OneRsaKey == \E x, l : AllFit(rsaRestarts, x, l)

Inv == Shape /\ RsaSnapsPast /\ FirstDraws /\ OneRsaKey

LEMMA InvKeys == ASSUME Inv PROVE Rsa!AgreeOnKey /\ Rsa!StoredKeysWork
<1>1. PICK x, l : AllFit(rsaRestarts, x, l)
  BY DEF Inv, OneRsaKey
<1>2. \A p \in Party : KeyFits(rsaStore[p], x, l)
  BY <1>1 DEF AllFit
<1>3. Rsa!AgreeOnKey
  BY <1>2 DEF Rsa!AgreeOnKey, KeyFits
<1>4. Rsa!StoredKeysWork
  BY <1>1, <1>2 DEF Rsa!StoredKeysWork, KeyFits, AllFit, Works
<1> QED
  BY <1>3, <1>4

LEMMA InitInv == Rsa!DealerAssumption /\ Rsa!Init => Inv
<1> SUFFICES ASSUME Rsa!DealerAssumption, Rsa!Init PROVE Inv
  OBVIOUS
<1>1. Rsa!NoSession \in AnySession /\ Rsa!NoKey \in AnyKey /\ Rsa!NoContribution \in AnyContribution
  BY NoSessionShape DEF Rsa!NoKey, AnyKey, AnyContribution
<1>2. Shape
  BY <1>1 DEF Shape, AnyTask, Rsa!Init, Rsa!InitRounds, Rsa!NoTask
<1>3. RsaSnapsPast /\ FirstDraws
  BY DEF RsaSnapsPast, FirstDraws, Rsa!Init, Rsa!InitRounds, Rsa!NoTask
<1>4. AllFit(0, 0, 0)
  <2>1. \A p \in Party : SessFits(0, rsaSess[p], p, 0, 0)
    BY NoSessionFits DEF Rsa!Init
  <2>2. \A q \in Party : MsgFits(0, Rsa!NoContribution, q, 0, 0)
    BY DEF MsgFits, Rsa!NoContribution
  <2>3. Early(rsaSess[Dealer], 0, 0) /\ Works(0, 0, 0)
    BY DEF Early, Works
  <2>4. KeyFits(Rsa!NoKey, 0, 0)
    BY DEF KeyFits
  <2> QED
    BY <2>1, <2>2, <2>3, <2>4 DEF AllFit, Rsa!Init, Rsa!InitRounds, Rsa!NoTask
<1> QED
  BY <1>2, <1>3, <1>4 DEF Inv, OneRsaKey, Rsa!Init, Rsa!InitRounds

(* The claims about a calm task lapse when a sidecar restarts.             *)
LEMMA Lapse ==
  ASSUME NEW a, NEW b, b = a \/ b # 0, NEW x, NEW l
  PROVE  /\ \A m, q : MsgFits(a, m, q, x, l) => MsgFits(b, m, q, x, l)
         /\ \A s, p : SessFits(a, s, p, x, l) => SessFits(b, s, p, x, l)
         /\ Works(a, x, l) => Works(b, x, l)
<1>1. \A m, q : MsgFits(a, m, q, x, l) => MsgFits(b, m, q, x, l)
  BY DEF MsgFits
<1>2. ASSUME NEW s, NEW p, SessFits(a, s, p, x, l) PROVE SessFits(b, s, p, x, l)
  BY <1>2 DEF SessFits, CrossFits, KeysFit
<1>3. Works(a, x, l) => Works(b, x, l)
  BY DEF Works
<1> QED
  BY <1>1, <1>2, <1>3

(* A step that moves what there is, and makes nothing of its own.          *)
Plain == {Rsa!NoContribution, Rsa!Empty, Rsa!Complete}
Carry ==
  /\ rsaRestarts' = rsaRestarts \/ rsaRestarts' # 0
  /\ \A p \in Party : rsaSess'[p] = rsaSess[p] \/ rsaSess'[p] = Rsa!NoSession
  /\ \A p \in Party : \/ rsaInbox'[p] = rsaInbox[p] \/ rsaInbox'[p] = rsaOut[p]
                      \/ rsaInbox'[p] = Rsa!NoContribution
  /\ \A p \in Party : rsaContribs'[p] = rsaContribs[p] \/ rsaContribs'[p] = rsaInbox[p]
  /\ \A p \in Party : rsaOut'[p] = rsaOut[p] \/ rsaOut'[p] \in Plain
  /\ \A p \in Party : \/ rsaSnap'[p].contribs = rsaSnap[p].contribs
                      \/ rsaSnap'[p].contribs = rsaContribs
                      \/ \A q \in Party : rsaSnap'[p].contribs[q] = Rsa!NoContribution
  /\ \A p \in Party : rsaCompleted'[p] = rsaCompleted[p] \/ rsaCompleted'[p] = Rsa!NoKey
  /\ \A p \in Party : rsaStore'[p] = rsaStore[p] \/ rsaStore'[p] = rsaCompleted[p]
  /\ MayBegin' => MayBegin

LEMMA CarryFits ==
  ASSUME Rsa!DealerAssumption, OneRsaKey, Carry
  PROVE  OneRsaKey'
<1>1. PICK x, l : AllFit(rsaRestarts, x, l)
  BY DEF OneRsaKey
<1> DEFINE b == rsaRestarts'
<1>2. b = rsaRestarts \/ b # 0
  BY DEF Carry
<1> HIDE DEF b
<1>3. /\ \A m, q : MsgFits(rsaRestarts, m, q, x, l) => MsgFits(b, m, q, x, l)
      /\ \A s, p : SessFits(rsaRestarts, s, p, x, l) => SessFits(b, s, p, x, l)
      /\ Works(rsaRestarts, x, l) => Works(b, x, l)
  BY <1>2, Lapse
<1>4. \A q : \A m \in Plain : MsgFits(b, m, q, x, l)
  BY DEF MsgFits, Plain, Rsa!NoContribution, Rsa!Empty, Rsa!Complete
<1>5. \A p \in Party : SessFits(b, Rsa!NoSession, p, x, l)
  BY NoSessionFits
<1>6. KeyFits(Rsa!NoKey, x, l)
  BY DEF KeyFits
<1>7. \A p \in Party : SessFits(b, rsaSess'[p], p, x, l)
  BY <1>1, <1>3, <1>5 DEF AllFit, Carry
<1>8. \A p \in Party : MsgFits(b, rsaInbox'[p], p, x, l)
  <2>1. Rsa!NoContribution \in Plain
    BY DEF Plain
  <2> QED
    BY <1>1, <1>3, <1>4, <2>1 DEF AllFit, Carry
<1>9. \A p \in Party : MsgFits(b, rsaContribs'[p], p, x, l)
  BY <1>1, <1>3, <1>4 DEF AllFit, Carry
<1>10. \A p \in Party : MsgFits(b, rsaOut'[p], p, x, l)
  BY <1>1, <1>3, <1>4 DEF AllFit, Carry
<1>11. \A p, q \in Party : MsgFits(b, rsaSnap'[p].contribs[q], q, x, l)
  <2>1. Rsa!NoContribution \in Plain
    BY DEF Plain
  <2> QED
    BY <1>1, <1>3, <1>4, <2>1 DEF AllFit, Carry
<1>12. \A p \in Party : KeyFits(rsaCompleted'[p], x, l) /\ KeyFits(rsaStore'[p], x, l)
  BY <1>1, <1>6 DEF AllFit, Carry
<1>13. Early(rsaSess'[Dealer], x, l)
  <2>1. rsaSess'[Dealer] = rsaSess[Dealer] \/ rsaSess'[Dealer] = Rsa!NoSession
    BY DEF Carry, Rsa!DealerAssumption
  <2>2. Early(Rsa!NoSession, x, l)
    BY NoSessionShape DEF Early
  <2> QED
    BY <1>1, <2>1, <2>2 DEF AllFit
<1>14. MayBegin' => x = 0 /\ l = 0
  BY <1>1 DEF AllFit, Carry
<1>15. Works(b, x, l)
  BY <1>1, <1>3 DEF AllFit
<1>16. AllFit(rsaRestarts, x, l)'
  BY <1>7, <1>8, <1>9, <1>10, <1>11, <1>12, <1>13, <1>14, <1>15 DEF AllFit, b
<1> QED
  BY <1>16 DEF OneRsaKey

(* A sidecar begins a session.                                             *)
LEMMA BeginFits ==
  ASSUME Rsa!DealerAssumption, Shape, FirstDraws, OneRsaKey, NEW p \in Party,
         Rsa!InitRound0(p)
  PROVE  /\ rsaSess' \in [Party -> AnySession] /\ rsaOut' \in [Party -> AnyContribution]
         /\ OneRsaKey'
<1>1. PICK x, l : AllFit(rsaRestarts, x, l)
  BY DEF OneRsaKey
<1> DEFINE d == rsaDraws[p] + 1
           fresh == [Rsa!NoSession EXCEPT !.phase = 1, !.pk[p] = d]
           to == [q \in Party |-> d]
           m == Rsa!Data(1, to)
<1>2. d \in Int /\ d # 0 /\ (rsaRestarts = 0 => d = 1)
  BY DEF Shape, FirstDraws, Rsa!InitRound0, Rsa!Processing
<1>3. /\ rsaSess' = [rsaSess EXCEPT ![p] = fresh] /\ rsaOut' = [rsaOut EXCEPT ![p] = m]
      /\ rsaPc[p] = "polled" /\ rsaSnap[p].round = 0 /\ rsaPc' = [rsaPc EXCEPT ![p] = "submitting"]
      /\ UNCHANGED <<rsaRound, rsaInbox, rsaContribs, rsaSnap, rsaRestarts, rsaCompleted,
                     rsaStore>>
  BY DEF Rsa!InitRound0, Rsa!StartSession, Rsa!Processing, Rsa!Submit, Rsa!ToAll,
         Rsa!serverVars
<1> HIDE DEF d
<1>4. /\ fresh \in AnySession /\ fresh.phase = 1 /\ fresh.cross = Rsa!NoSession.cross
      /\ fresh.evals = Rsa!NoSession.evals /\ fresh.n = 0 /\ fresh.lambda = 0
      /\ fresh.heard = Rsa!NoSession.heard
      /\ \A q \in Party : fresh.pk[q] = IF q = p THEN d ELSE 0
  <2> DEFINE pk == [Rsa!Zeros EXCEPT ![p] = d]
  <2>1. fresh = WithPk(Rsa!NoSession, pk, 1)
    BY NoSessionShape DEF WithPk, Rsa!NoSession
  <2>2. pk \in [Party -> Int] /\ (\A q \in Party : pk[q] = IF q = p THEN d ELSE 0) /\ 1 \in 0 .. 9
    BY <1>2 DEF Rsa!Zeros
  <2> HIDE DEF pk, fresh
  <2>3. Rsa!NoSession \in AnySession
    BY NoSessionShape
  <2>4. LET a == WithPk(Rsa!NoSession, pk, 1)
        IN  /\ a \in AnySession /\ a.pk = pk /\ a.phase = 1
            /\ a.cross = Rsa!NoSession.cross /\ a.back = Rsa!NoSession.back
            /\ a.evals = Rsa!NoSession.evals /\ a.n = Rsa!NoSession.n
            /\ a.lambda = Rsa!NoSession.lambda /\ a.heard = Rsa!NoSession.heard
    BY ONLY <2>2, <2>3, UpdatedPk
  <2> QED
    BY <2>1, <2>2, <2>4, NoSessionShape
<1>5. to \in [Party -> Int] /\ \A q \in Party : to[q] = d
  BY <1>2
<1> HIDE DEF fresh, to
<1>6. m \in DataMessages /\ m.phase = 1 /\ m.to = to
  BY <1>5, MessageShapes
<1> HIDE DEF m
<1>7. rsaSess' \in [Party -> AnySession] /\ rsaOut' \in [Party -> AnyContribution]
  BY <1>3, <1>4, <1>6 DEF Shape, AnyContribution
<1>8. SessFits(rsaRestarts, fresh, p, x, l)
  <2>1. Dealer \in Party
    BY DEF Rsa!DealerAssumption
  <2>2. /\ \A q \in Party : fresh.cross[q] = -1 /\ fresh.evals[q] = 0
        /\ \A q \in Party, k \in 1 .. 8 : fresh.heard[q][k] = -1
    BY <1>4, NoSessionShape DEF Rsa!Zeros
  <2>3. HeardFits(fresh, p, x, l)
    BY <2>1, <2>2 DEF HeardFits
  <2>4. CrossFits(rsaRestarts, fresh, p)
    BY <1>4, <2>2 DEF CrossFits
  <2>5. KeysFit(rsaRestarts, fresh, p)
    BY <1>2, <1>4 DEF KeysFit
  <2>6. ValuesFit(fresh, p, x, l)
    BY <1>4, <2>1, <2>2 DEF ValuesFit
  <2> QED
    BY <2>3, <2>4, <2>5, <2>6 DEF SessFits
<1>9. MsgFits(rsaRestarts, m, p, x, l)
  BY <1>2, <1>5, <1>6 DEF MsgFits
<1>10. p = Dealer => x = 0 /\ l = 0
  BY <1>1, <1>3 DEF AllFit, MayBegin
<1>11. \A q \in Party : rsaSess'[q] = IF q = p THEN fresh ELSE rsaSess[q]
  BY <1>3 DEF Shape
<1>12. \A q \in Party : rsaOut'[q] = IF q = p THEN m ELSE rsaOut[q]
  BY <1>3 DEF Shape
<1>13. Early(rsaSess'[Dealer], x, l)
  BY <1>1, <1>10, <1>11 DEF AllFit, Early, Rsa!DealerAssumption
<1>14. MayBegin' => MayBegin
  BY <1>3 DEF MayBegin, Shape, Rsa!DealerAssumption
<1>15. AllFit(rsaRestarts, x, l)'
  <2>1. \A q \in Party : SessFits(rsaRestarts, rsaSess'[q], q, x, l)
    BY <1>1, <1>8, <1>11 DEF AllFit
  <2>2. \A q \in Party : MsgFits(rsaRestarts, rsaOut'[q], q, x, l)
    BY <1>1, <1>9, <1>12 DEF AllFit
  <2> QED
    BY <1>1, <1>3, <1>13, <1>14, <2>1, <2>2 DEF AllFit
<1> QED
  BY <1>3, <1>7, <1>15 DEF OneRsaKey

(* A sidecar polls.                                                        *)
LEMMA DriveFits ==
  ASSUME Rsa!DealerAssumption, Shape, RsaSnapsPast, OneRsaKey, NEW p \in Party, Rsa!Drive(p)
  PROVE  /\ rsaSess' \in [Party -> AnySession] /\ rsaOut' \in [Party -> AnyContribution]
         /\ rsaCompleted' \in [Party -> AnyKey]
         /\ OneRsaKey'
<1>1. PICK x, l : AllFit(rsaRestarts, x, l)
  BY DEF OneRsaKey
<1>2. PICK r \in Rsa!Polls(p) :
        /\ rsaSess' = [rsaSess EXCEPT ![p] = r.s]
        /\ IF r.failed THEN Rsa!Throw(p) /\ UNCHANGED <<rsaInited, rsaCompleted>>
           ELSE IF r.key = Rsa!NoKey THEN Rsa!Submit(p, r.last) /\ UNCHANGED <<rsaInited,
                                                                               rsaCompleted>>
           ELSE /\ rsaCompleted' = [rsaCompleted EXCEPT ![p] = r.key]
                /\ rsaInited' = rsaInited \ {p}
                /\ Rsa!Await(p, "persisting")
  BY DEF Rsa!Drive
<1>3. rsaPc[p] = "polled" /\ rsaSnap[p].round > 0 /\ UNCHANGED <<rsaStore, rsaDraws>>
  BY DEF Rsa!Drive, Rsa!Processing
<1>4. /\ rsaSess[p] \in AnySession /\ SessFits(rsaRestarts, rsaSess[p], p, x, l) /\ Works(rsaRestarts, x, l)
      /\ p = Dealer => Early(rsaSess[p], x, l)
      /\ \A q \in Party : /\ rsaSnap[p].contribs[q] \in AnyContribution
                          /\ MsgFits(rsaRestarts, rsaSnap[p].contribs[q], q, x, l)
  BY <1>1 DEF AllFit, Shape, AnyTask
<1>5. /\ r \in AnyResult
      /\ \E y, k : ResultFits(rsaRestarts, p, r, y, k) /\ Reached(p, x, l, y, k)
  BY <1>4, PollFits
<1>6. PICK y, k : ResultFits(rsaRestarts, p, r, y, k) /\ Reached(p, x, l, y, k)
  BY <1>5
<1>7. r.s \in AnySession /\ r.last \in AnyContribution /\ r.key \in AnyKey
  BY <1>5 DEF AnyResult
<1>8. /\ SessFits(rsaRestarts, r.s, p, y, k) /\ MsgFits(rsaRestarts, r.last, p, y, k)
      /\ KeyFits(r.key, y, k) /\ Works(rsaRestarts, y, k)
      /\ p = Dealer => Early(r.s, y, k)
  BY <1>6 DEF ResultFits
<1>9. Grows(x, l, y, k) /\ (p # Dealer => y = x /\ k = l)
  BY <1>6 DEF Reached
<1>10. /\ UNCHANGED <<rsaRound, rsaInbox, rsaContribs, rsaRestarts>>
       /\ rsaPc' = [rsaPc EXCEPT ![p] = "idle"] \/ rsaPc' = [rsaPc EXCEPT ![p] = "submitting"]
            \/ rsaPc' = [rsaPc EXCEPT ![p] = "persisting"]
       /\ rsaSnap' = rsaSnap \/ rsaSnap' = [rsaSnap EXCEPT ![p] = Rsa!NoTask]
       /\ rsaOut' = rsaOut \/ rsaOut' = [rsaOut EXCEPT ![p] = Rsa!NoContribution] \/ rsaOut' = [rsaOut EXCEPT ![p] = r.last]
       /\ rsaCompleted' = rsaCompleted \/ rsaCompleted' = [rsaCompleted EXCEPT ![p] = r.key]
  BY <1>2 DEF Rsa!Throw, Rsa!EndTick, Rsa!Submit, Rsa!Await, Rsa!serverVars
<1>11. \A q \in Party : rsaSess'[q] = IF q = p THEN r.s ELSE rsaSess[q]
  BY <1>2 DEF Shape
<1>12. \A q \in Party : \/ rsaOut'[q] = rsaOut[q] \/ rsaOut'[q] = Rsa!NoContribution
                        \/ q = p /\ rsaOut'[q] = r.last
  BY <1>10 DEF Shape
<1>13. \A q \in Party : rsaCompleted'[q] = rsaCompleted[q] \/ rsaCompleted'[q] = r.key
  BY <1>10 DEF Shape
<1>14. \A q \in Party : \/ rsaSnap'[q] = rsaSnap[q]
                        \/ \A o \in Party : rsaSnap'[q].contribs[o] = Rsa!NoContribution
  BY <1>10 DEF Shape, Rsa!NoTask
<1>15. rsaSess' \in [Party -> AnySession] /\ rsaCompleted' \in [Party -> AnyKey]
  BY <1>2, <1>7, <1>10 DEF Shape
<1>16. rsaOut' \in [Party -> AnyContribution]
  BY <1>7, <1>10 DEF Shape, AnyContribution
<1>17. \A q : MsgFits(rsaRestarts, Rsa!NoContribution, q, y, k)
  BY DEF MsgFits, Rsa!NoContribution
<1>18. \A q \in Party : SessFits(rsaRestarts, rsaSess'[q], q, y, k)
  <2>1. ASSUME NEW q \in Party, q # p PROVE SessFits(rsaRestarts, rsaSess[q], q, y, k)
    <3>1. SessFits(rsaRestarts, rsaSess[q], q, x, l)
      BY <1>1 DEF AllFit
    <3>2. CASE p # Dealer
      BY <1>9, <3>1, <3>2
    <3>3. CASE p = Dealer
      BY <1>9, <2>1, <3>1, <3>3, SessGrows
    <3> QED
      BY <3>2, <3>3
  <2> QED
    BY <1>8, <1>11, <2>1
<1>19. /\ \A q \in Party : MsgFits(rsaRestarts, rsaInbox[q], q, y, k)
       /\ \A q \in Party : MsgFits(rsaRestarts, rsaContribs[q], q, y, k)
       /\ \A q \in Party : MsgFits(rsaRestarts, rsaOut[q], q, y, k)
       /\ \A q, o \in Party : MsgFits(rsaRestarts, rsaSnap[q].contribs[o], o, y, k)
  <2>1. \A m, q : MsgFits(rsaRestarts, m, q, x, l) => MsgFits(rsaRestarts, m, q, y, k)
    BY <1>9, MsgGrows
  <2> QED
    BY <1>1, <2>1 DEF AllFit
<1>20. \A q \in Party : MsgFits(rsaRestarts, rsaOut'[q], q, y, k)
  BY <1>8, <1>12, <1>17, <1>19
<1>21. \A q, o \in Party : MsgFits(rsaRestarts, rsaSnap'[q].contribs[o], o, y, k)
  BY <1>14, <1>17, <1>19
<1>22. \A q \in Party : KeyFits(rsaCompleted'[q], y, k) /\ KeyFits(rsaStore'[q], y, k)
  <2>1. \A q \in Party : KeyFits(rsaCompleted[q], y, k) /\ KeyFits(rsaStore[q], y, k)
    BY <1>1, <1>9, KeyGrows DEF AllFit
  <2> QED
    BY <1>3, <1>8, <1>13, <2>1
<1>23. Early(rsaSess'[Dealer], y, k)
  BY <1>1, <1>8, <1>9, <1>11 DEF AllFit, Rsa!DealerAssumption
<1>24. MayBegin' => y = 0 /\ k = 0
  <2>1. rsaRound > 0
    BY <1>3 DEF RsaSnapsPast, Shape, AnyTask
  <2>2. MayBegin' => rsaPc'[Dealer] = "polled" /\ rsaSnap'[Dealer].round = 0
    BY <1>10, <2>1 DEF MayBegin
  <2>3. rsaPc'[p] # "polled"
    BY <1>10 DEF Shape
  <2>4. MayBegin' => p # Dealer /\ rsaPc[Dealer] = "polled" /\ rsaSnap[Dealer].round = 0
    BY <1>10, <2>2, <2>3 DEF Shape, Rsa!DealerAssumption
  <2> QED
    BY <1>1, <1>9, <2>4 DEF AllFit, MayBegin
<1>25. AllFit(rsaRestarts, y, k)'
  BY <1>8, <1>10, <1>18, <1>19, <1>20, <1>21, <1>22, <1>23, <1>24 DEF AllFit
<1> QED
  BY <1>10, <1>15, <1>16, <1>25 DEF OneRsaKey

LEMMA PlainShape ==
  /\ Plain \subseteq AnyContribution
  /\ Rsa!NoSession \in AnySession
  /\ Rsa!NoKey \in AnyKey
  /\ Rsa!NoTask \in AnyTask
  /\ Rsa!NoTask.round = 0 /\ \A q \in Party : Rsa!NoTask.contribs[q] = Rsa!NoContribution
BY NoSessionShape DEF Plain, AnyContribution, Rsa!NoKey, AnyKey, Rsa!NoTask, AnyTask

(* The steps of a tick that leave the session, the keys and the draws.     *)
TickOnly(p) ==
  /\ rsaPc' \in {[rsaPc EXCEPT ![p] = "idle"], [rsaPc EXCEPT ![p] = "submitting"]}
  /\ rsaSnap' = rsaSnap \/ rsaSnap' = [rsaSnap EXCEPT ![p] = Rsa!NoTask]
  /\ \E c \in Plain : rsaOut' = rsaOut \/ rsaOut' = [rsaOut EXCEPT ![p] = c]
  /\ rsaInbox' = rsaInbox \/ rsaInbox' = [rsaInbox EXCEPT ![p] = rsaOut[p]]
  /\ UNCHANGED <<rsaRound, rsaContribs, rsaDraws>>
  /\ \/ UNCHANGED <<rsaRestarts, rsaSess, rsaInited, rsaCompleted, rsaStore>>
     \/ UNCHANGED <<rsaRestarts, rsaSess, rsaInited,
                    rsaCompleted>> /\ rsaStore' = [rsaStore EXCEPT ![p] = rsaCompleted[p]]
     \/ /\ rsaRestarts' = rsaRestarts + 1
        /\ rsaSess' = [rsaSess EXCEPT ![p] = Rsa!NoSession]
        /\ rsaInited' = rsaInited \ {p}
        /\ rsaCompleted' = [rsaCompleted EXCEPT ![p] = Rsa!NoKey]
        /\ rsaStore' = rsaStore \/ rsaStore' = [rsaStore EXCEPT ![p] = rsaCompleted[p]]

LEMMA TickOnlyInv ==
  ASSUME Rsa!DealerAssumption, Inv, NEW p \in Party, TickOnly(p)
  PROVE  Inv'
<1>1. Shape /\ RsaSnapsPast /\ FirstDraws /\ OneRsaKey /\ Dealer \in Party
  BY DEF Inv, Rsa!DealerAssumption
<1>2. PICK c \in Plain : rsaOut' = rsaOut \/ rsaOut' = [rsaOut EXCEPT ![p] = c]
  BY DEF TickOnly
<1>3. /\ rsaInbox' \in [Party -> AnyContribution] /\ rsaOut' \in [Party -> AnyContribution]
      /\ rsaContribs' \in [Party -> AnyContribution] /\ rsaRound' \in Nat
      /\ rsaPc' \in [Party -> {"idle", "polled", "submitting", "persisting"}]
      /\ rsaSnap' \in [Party -> AnyTask]
  <2>1. rsaInbox' \in [Party -> AnyContribution] /\ rsaContribs' \in [Party -> AnyContribution]
    BY <1>1 DEF Shape, TickOnly
  <2>2. rsaOut' \in [Party -> AnyContribution]
    BY <1>1, <1>2, PlainShape DEF Shape
  <2>3. rsaPc' \in [Party -> {"idle", "polled", "submitting", "persisting"}] /\ rsaRound' \in Nat
    BY <1>1 DEF Shape, TickOnly
  <2>4. rsaSnap' \in [Party -> AnyTask]
    BY <1>1, PlainShape DEF Shape, TickOnly
  <2> QED
    BY <2>1, <2>2, <2>3, <2>4
<1>4. /\ rsaRestarts' \in Nat /\ rsaSess' \in [Party -> AnySession] /\ rsaInited' \subseteq Party
      /\ rsaCompleted' \in [Party -> AnyKey] /\ rsaStore' \in [Party -> AnyKey]
      /\ rsaDraws' \in [Party -> Nat]
  <2>1. rsaRestarts' \in Nat /\ rsaInited' \subseteq Party /\ rsaDraws' \in [Party -> Nat]
    BY <1>1 DEF Shape, TickOnly
  <2>2. rsaSess' \in [Party -> AnySession]
    BY <1>1, PlainShape DEF Shape, TickOnly
  <2>3. rsaCompleted' \in [Party -> AnyKey]
    BY <1>1, PlainShape DEF Shape, TickOnly
  <2>4. rsaStore' \in [Party -> AnyKey]
    BY <1>1 DEF Shape, TickOnly
  <2> QED
    BY <2>1, <2>2, <2>3, <2>4
<1>5. Shape'
  BY <1>3, <1>4 DEF Shape
<1>6. RsaSnapsPast'
  <2>1. \A q \in Party : rsaSnap'[q] = rsaSnap[q] \/ rsaSnap'[q] = Rsa!NoTask
    BY <1>1 DEF Shape, TickOnly
  <2>2. rsaRound' = rsaRound /\ rsaRound >= 0
    BY <1>1 DEF Shape, TickOnly
  <2> QED
    BY <1>1, <2>1, <2>2, PlainShape DEF RsaSnapsPast
<1>7. FirstDraws'
  BY <1>1 DEF Shape, FirstDraws, TickOnly
<1>8. Carry
  <2>1. rsaRestarts' = rsaRestarts \/ rsaRestarts' # 0
    BY <1>1 DEF TickOnly, Shape
  <2>2. \A q \in Party : rsaSess'[q] = rsaSess[q] \/ rsaSess'[q] = Rsa!NoSession
    BY <1>1 DEF TickOnly, Shape
  <2>3. \A q \in Party : rsaInbox'[q] = rsaInbox[q] \/ rsaInbox'[q] = rsaOut[q]
    BY <1>1 DEF TickOnly, Shape
  <2>4. \A q \in Party : rsaOut'[q] = rsaOut[q] \/ rsaOut'[q] \in Plain
    BY <1>1, <1>2 DEF Shape
  <2>5. \A q \in Party : \/ rsaSnap'[q].contribs = rsaSnap[q].contribs
                         \/ \A o \in Party : rsaSnap'[q].contribs[o] = Rsa!NoContribution
    BY <1>1, PlainShape DEF TickOnly, Shape
  <2>6. \A q \in Party : /\ rsaCompleted'[q] = rsaCompleted[q] \/ rsaCompleted'[q] = Rsa!NoKey
                         /\ rsaStore'[q] = rsaStore[q] \/ rsaStore'[q] = rsaCompleted[q]
    BY <1>1 DEF TickOnly, Shape
  <2>7. MayBegin' => MayBegin
    <3>1. rsaRound' = rsaRound /\ rsaSnap' \in {rsaSnap, [rsaSnap EXCEPT ![p] = Rsa!NoTask]}
      BY DEF TickOnly
    <3>2. rsaPc'[Dealer] = "polled" => Dealer # p /\ rsaPc[Dealer] = "polled"
      BY <1>1 DEF TickOnly, Shape
    <3>3. Dealer # p => rsaSnap'[Dealer] = rsaSnap[Dealer]
      BY <1>1, <3>1 DEF Shape
    <3> QED
      BY <3>1, <3>2, <3>3 DEF MayBegin
  <2> QED
    BY <2>1, <2>2, <2>3, <2>4, <2>5, <2>6, <2>7 DEF Carry, TickOnly
<1> QED
  BY <1>1, <1>5, <1>6, <1>7, <1>8, CarryFits DEF Inv

LEMMA ListTasksInv ==
  ASSUME Rsa!DealerAssumption, Inv, NEW p \in Party, Rsa!ListTasks(p),
         UNCHANGED <<Rsa!goVars, rsaStore>>
  PROVE  Inv'
<1>1. Shape /\ RsaSnapsPast /\ FirstDraws /\ OneRsaKey /\ Dealer \in Party
  BY DEF Inv, Rsa!DealerAssumption
<1> DEFINE t == [round |-> rsaRound, contribs |-> rsaContribs]
<1>2. /\ rsaPc' = [rsaPc EXCEPT ![p] = "polled"] /\ rsaSnap' = [rsaSnap EXCEPT ![p] = t]
      /\ UNCHANGED <<rsaRound, rsaInbox, rsaContribs, rsaOut, rsaRestarts, rsaSess,
                     rsaInited, rsaCompleted, rsaDraws, rsaStore>>
  BY DEF Rsa!ListTasks, Rsa!serverVars, Rsa!goVars
<1>3. t \in AnyTask /\ t.round = rsaRound /\ t.contribs = rsaContribs
  BY <1>1 DEF Shape, AnyTask
<1> HIDE DEF t
<1>4. Shape'
  BY <1>1, <1>2, <1>3 DEF Shape
<1>5. RsaSnapsPast'
  BY <1>1, <1>2, <1>3 DEF Shape, RsaSnapsPast
<1>6. FirstDraws'
  BY <1>1, <1>2 DEF FirstDraws
<1>7. \A q \in Party : rsaSnap'[q] = IF q = p THEN t ELSE rsaSnap[q]
  BY <1>1, <1>2 DEF Shape
<1>8. MayBegin' => MayBegin
  BY <1>1, <1>2, <1>3, <1>7 DEF MayBegin, Shape
<1>9. Carry
  BY <1>2, <1>3, <1>7, <1>8 DEF Carry
<1> QED
  BY <1>1, <1>4, <1>5, <1>6, <1>9, CarryFits DEF Inv

LEMMA ExpiresInv ==
  ASSUME Rsa!DealerAssumption, Inv, NEW p \in Party, Rsa!SessionExpires(p)
  PROVE  Inv'
<1>1. Shape /\ RsaSnapsPast /\ FirstDraws /\ OneRsaKey
  BY DEF Inv
<1>2. /\ rsaSess' = [rsaSess EXCEPT ![p] = Rsa!NoSession]
      /\ UNCHANGED <<rsaRound, rsaInbox, rsaContribs, rsaPc, rsaSnap, rsaOut, rsaRestarts,
                     rsaInited, rsaCompleted, rsaDraws, rsaStore>>
  BY DEF Rsa!SessionExpires, Rsa!serverVars, Rsa!tickVars
<1>3. Shape' /\ RsaSnapsPast' /\ FirstDraws'
  BY <1>1, <1>2, PlainShape DEF Shape, RsaSnapsPast, FirstDraws
<1>4. \A q \in Party : rsaSess'[q] = rsaSess[q] \/ rsaSess'[q] = Rsa!NoSession
  BY <1>1, <1>2 DEF Shape
<1>5. MayBegin' => MayBegin
  BY <1>2 DEF MayBegin
<1>6. Carry
  BY <1>2, <1>4, <1>5 DEF Carry
<1> QED
  BY <1>1, <1>3, <1>6, CarryFits DEF Inv

LEMMA ServerInv ==
  ASSUME Rsa!DealerAssumption, Inv, Rsa!Server, UNCHANGED <<Rsa!goVars, rsaStore>>
  PROVE  Inv'
<1>1. Shape /\ RsaSnapsPast /\ FirstDraws /\ OneRsaKey
  BY DEF Inv
<1>2. /\ UNCHANGED <<rsaPc, rsaSnap, rsaOut, rsaRestarts, rsaSess, rsaInited, rsaCompleted,
                     rsaDraws, rsaStore>>
      /\ \/ UNCHANGED <<rsaRound, rsaInbox, rsaContribs>>
         \/ /\ rsaRound' = rsaRound + 1 /\ rsaContribs' = rsaInbox
            /\ rsaInbox' = [q \in Party |-> Rsa!NoContribution]
  BY DEF Rsa!Server, Rsa!AdvanceRound, Rsa!FinishTask, Rsa!tickVars, Rsa!goVars
<1>3. Rsa!NoContribution \in AnyContribution
  BY DEF AnyContribution
<1>4. Shape'
  BY <1>1, <1>2, <1>3 DEF Shape
<1>5. RsaSnapsPast' /\ FirstDraws'
  <2>1. \A q \in Party : rsaSnap[q].round \in Nat
    BY <1>1 DEF Shape, AnyTask
  <2>2. RsaSnapsPast'
    BY <1>1, <1>2, <2>1 DEF Shape, RsaSnapsPast
  <2>3. FirstDraws'
    BY <1>1, <1>2 DEF FirstDraws
  <2> QED
    BY <2>2, <2>3
<1>6. MayBegin' => MayBegin
  BY <1>1, <1>2 DEF MayBegin, Shape
<1>7. Carry
  BY <1>2, <1>6 DEF Carry
<1> QED
  BY <1>1, <1>4, <1>5, <1>7, CarryFits DEF Inv

LEMMA BeginInv ==
  ASSUME Rsa!DealerAssumption, Inv, NEW p \in Party, Rsa!InitRound0(p)
  PROVE  Inv'
<1>1. Shape /\ RsaSnapsPast /\ FirstDraws /\ OneRsaKey
  BY DEF Inv
<1>2. rsaSess' \in [Party -> AnySession] /\ rsaOut' \in [Party -> AnyContribution] /\ OneRsaKey'
  BY <1>1, BeginFits
<1>3. /\ rsaDraws' = [rsaDraws EXCEPT ![p] = @ + 1] /\ rsaInited' = rsaInited \cup {p} /\ p \notin rsaInited
      /\ rsaCompleted[p] = Rsa!NoKey /\ rsaPc' = [rsaPc EXCEPT ![p] = "submitting"]
      /\ UNCHANGED <<rsaRound, rsaInbox, rsaContribs, rsaSnap, rsaRestarts, rsaCompleted,
                     rsaStore>>
  BY DEF Rsa!InitRound0, Rsa!StartSession, Rsa!Submit, Rsa!serverVars
<1>4. Shape'
  BY <1>1, <1>2, <1>3 DEF Shape
<1>5. RsaSnapsPast'
  BY <1>1, <1>3 DEF RsaSnapsPast
<1>6. FirstDraws'
  BY <1>1, <1>3 DEF FirstDraws, Shape
<1> QED
  BY <1>2, <1>4, <1>5, <1>6 DEF Inv

LEMMA DriveInv ==
  ASSUME Rsa!DealerAssumption, Inv, NEW p \in Party, Rsa!Drive(p)
  PROVE  Inv'
<1>1. Shape /\ RsaSnapsPast /\ FirstDraws /\ OneRsaKey
  BY DEF Inv
<1>2. /\ rsaSess' \in [Party -> AnySession] /\ rsaOut' \in [Party -> AnyContribution]
      /\ rsaCompleted' \in [Party -> AnyKey] /\ OneRsaKey'
  BY <1>1, DriveFits
<1>3. /\ UNCHANGED <<rsaRound, rsaInbox, rsaContribs, rsaRestarts, rsaStore, rsaDraws>>
      /\ rsaPc' \in {[rsaPc EXCEPT ![p] = "idle"], [rsaPc EXCEPT ![p] = "submitting"],
                  [rsaPc EXCEPT ![p] = "persisting"]}
      /\ rsaSnap' \in {rsaSnap, [rsaSnap EXCEPT ![p] = Rsa!NoTask]}
      /\ \/ UNCHANGED <<rsaInited, rsaCompleted>>
         \/ \E key : /\ key # Rsa!NoKey /\ rsaCompleted' = [rsaCompleted EXCEPT ![p] = key]
                     /\ rsaInited' = rsaInited \ {p}
  BY DEF Rsa!Drive, Rsa!Throw, Rsa!EndTick, Rsa!Submit, Rsa!Await, Rsa!serverVars
<1>4. Shape'
  <2>1. rsaSnap' \in [Party -> AnyTask]
    BY <1>1, <1>3, PlainShape DEF Shape
  <2>2. rsaPc' \in [Party -> {"idle", "polled", "submitting", "persisting"}] /\ rsaInited' \subseteq Party
    BY <1>1, <1>3 DEF Shape
  <2> QED
    BY <1>1, <1>2, <1>3, <2>1, <2>2 DEF Shape
<1>5. RsaSnapsPast'
  <2>1. \A q \in Party : rsaSnap'[q] = rsaSnap[q] \/ rsaSnap'[q] = Rsa!NoTask
    BY <1>1, <1>3 DEF Shape
  <2>2. rsaRound' = rsaRound /\ rsaRound >= 0
    BY <1>1, <1>3 DEF Shape
  <2> QED
    BY <1>1, <2>1, <2>2, PlainShape DEF RsaSnapsPast
<1>6. FirstDraws'
  <2>1. \A q \in Party : q \in rsaInited \/ rsaCompleted[q] # Rsa!NoKey
                         => q \in rsaInited' \/ rsaCompleted'[q] # Rsa!NoKey
    BY <1>1, <1>3 DEF Shape
  <2> QED
    BY <1>1, <1>3, <2>1 DEF FirstDraws
<1> QED
  BY <1>2, <1>4, <1>5, <1>6 DEF Inv

LEMMA NextInv == Rsa!DealerAssumption /\ Inv /\ [Rsa!Next]_(Rsa!vars) => Inv'
<1> SUFFICES ASSUME Rsa!DealerAssumption, Inv, [Rsa!Next]_(Rsa!vars) PROVE Inv'
  OBVIOUS
<1>1. Rsa!NoContribution \in Plain /\ Rsa!Empty \in Plain /\ Rsa!Complete \in Plain
  BY DEF Plain
<1>2. CASE UNCHANGED Rsa!vars
  <2>1. UNCHANGED <<rsaRound, rsaInbox, rsaContribs, rsaPc, rsaSnap, rsaOut, rsaRestarts,
                    rsaSess, rsaInited, rsaCompleted,
                    rsaDraws, rsaStore>>
    BY <1>2 DEF Rsa!vars, Rsa!roundsVars, Rsa!serverVars, Rsa!tickVars, Rsa!goVars
  <2>2. Shape' /\ RsaSnapsPast' /\ FirstDraws' 
    BY <2>1 DEF Inv, Shape, RsaSnapsPast, FirstDraws
  <2>3. (MayBegin' => MayBegin)
    BY <2>1 DEF MayBegin
  <2>4. Carry
    BY <2>1, <2>3 DEF Carry
  <2> QED
    BY <2>2, <2>4, CarryFits DEF Inv
<1>3. ASSUME NEW p \in Party, Rsa!Tick(p) PROVE Inv'
  <2>1. CASE Rsa!ListTasks(p) /\ UNCHANGED <<Rsa!goVars, rsaStore>>
    BY <2>1, ListTasksInv
  <2>2. CASE Rsa!SkipSubmitted(p) /\ UNCHANGED <<Rsa!goVars, rsaStore>>
    <3>1. TickOnly(p)
      BY <1>1, <2>2 DEF Rsa!SkipSubmitted, Rsa!EndTick, TickOnly, Rsa!goVars, Rsa!serverVars
    <3> QED
      BY <3>1, TickOnlyInv
  <2>3. CASE Rsa!UpdateTask(p) /\ UNCHANGED <<Rsa!goVars, rsaStore>>
    <3>1. TickOnly(p)
      BY <1>1, <2>3 DEF Rsa!UpdateTask, Rsa!Recorded, Rsa!EndTick, TickOnly, Rsa!goVars,
         Rsa!serverVars
    <3> QED
      BY <3>1, TickOnlyInv
  <2>4. CASE Rsa!ReemitCompletion(p)
    <3>1. TickOnly(p)
      BY <1>1, <2>4 DEF Rsa!ReemitCompletion, Rsa!Submit, TickOnly, Rsa!goVars,
         Rsa!serverVars
    <3> QED
      BY <3>1, TickOnlyInv
  <2>5. CASE Rsa!ResubmitRound0(p)
    <3>1. TickOnly(p)
      BY <1>1, <2>5 DEF Rsa!ResubmitRound0, Rsa!Submit, TickOnly, Rsa!goVars, Rsa!serverVars
    <3> QED
      BY <3>1, TickOnlyInv
  <2>6. CASE Rsa!InitRound0(p)
    BY <2>6, BeginInv
  <2>7. CASE Rsa!Drive(p)
    BY <2>7, DriveInv
  <2>8. CASE Rsa!PersistShare(p)
    <3>1. TickOnly(p)
      BY <1>1, <2>8 DEF Rsa!PersistShare, Rsa!Submit, TickOnly, Rsa!goVars, Rsa!serverVars
    <3> QED
      BY <3>1, TickOnlyInv
  <2> QED
    BY <1>3, <2>1, <2>2, <2>3, <2>4, <2>5, <2>6, <2>7, <2>8 DEF Rsa!Tick
<1>4. ASSUME NEW p \in Party, Rsa!Fault(p) PROVE Inv'
  <2>1. CASE Rsa!UpdateTaskFails(p) /\ UNCHANGED <<Rsa!goVars, rsaStore>>
    <3>1. TickOnly(p)
      BY <1>1, <2>1 DEF Rsa!UpdateTaskFails, Rsa!Recorded, Rsa!EndTick, TickOnly,
         Rsa!goVars, Rsa!serverVars
    <3> QED
      BY <3>1, TickOnlyInv
  <2>2. CASE Rsa!PersistFails(p)
    <3>1. TickOnly(p)
      BY <1>1, <2>2 DEF Rsa!PersistFails, Rsa!AwaitFails, Rsa!EndTick, TickOnly,
         Rsa!goVars, Rsa!serverVars
    <3> QED
      BY <3>1, TickOnlyInv
  <2>3. CASE Rsa!SessionExpires(p)
    BY <2>3, ExpiresInv
  <2>4. CASE Rsa!Restart(p)
    <3>1. TickOnly(p)
      BY <1>1, <2>4 DEF Rsa!Restart, Rsa!LoseTick, Rsa!Recorded, Rsa!EndTick, TickOnly,
         Rsa!serverVars
    <3> QED
      BY <3>1, TickOnlyInv
  <2> QED
    BY <1>4, <2>1, <2>2, <2>3, <2>4 DEF Rsa!Fault
<1>5. CASE Rsa!Server /\ UNCHANGED <<Rsa!goVars, rsaStore>>
  BY <1>5, ServerInv
<1> QED
  BY <1>2, <1>3, <1>4, <1>5 DEF Rsa!Next

-------------------------------------------------------------------------------
(* In step.                                                                *)
Lambda == (P - 1) * (Q - 1)
Says(q, k) ==
  IF k = 3 \/ (k \in {4, 6} /\ q # Dealer) THEN 0
  ELSE IF k = 4 THEN P * Q
  ELSE IF k \in {6, 7} /\ q = Dealer THEN Lambda
  ELSE 1

(* What a session in phase k has heard in it, and what it has made of that *)
(* in phase k, when it has handled the messages of T.                      *)
Ears(s, k, T) ==
  \A q \in Party, j \in k .. 8 :
    s.heard[q][j] = IF j = k /\ q \in T THEN Says(q, k) ELSE -1
Mind(p, s, k, T) ==
  /\ k = 1 => \A q \in Party : s.pk[q] = IF q = p \/ q \in T THEN 1 ELSE 0
  /\ k = 2 => \A q \in Party : s.pk[q] = 1
  /\ k = 1 => \A q \in Party : s.cross[q] = -1
  /\ k = 2 => \A q \in Party : s.cross[q] = IF q \in T THEN 0 ELSE -1
  /\ k >= 3 => \A q \in Party \ {p} : s.cross[q] = 0
  /\ k < 3 => s.back = {}
  /\ k = 3 => s.back = T
  /\ k <= 6 => \A q \in Party : s.evals[q] = 0
  /\ k = 7 => \A q \in Party : s.evals[q] = IF q = p \/ q \in T THEN Says(q, 7) ELSE 0
  /\ k >= 5 => s.n = P * Q
  /\ k <= 6 => s.lambda = 0
(* The dealer has no inverse of the public exponent.                       *)
Stuck(p, s) ==
  /\ p = Dealer /\ ~Rsa!HasInverse(E, Lambda)
  /\ s.phase = 6 /\ s.n = P * Q
  /\ \A q \in Party \ {p} : s.heard[q][6] = 0

LEMMA Products ==
  ASSUME Rsa!DealerAssumption
  PROVE  /\ P \in Int /\ Q \in Int /\ P * Q \in Int /\ P * Q > 0
         /\ Lambda \in Int /\ Lambda > 0 /\ Lambda = P * Q + 1 - P - Q
<1>1. P \in Int /\ Q \in Int /\ P >= 2 /\ Q >= 2
  BY DEF Rsa!DealerAssumption
<1>2. P * Q > 0 /\ P * Q \in Int
  BY <1>1
<1>3. (P - 1) * (Q - 1) \in Int /\ (P - 1) * (Q - 1) > 0
  <2>1. \A a, b \in Nat \ {0} : a * b \in Int /\ a * b > 0
    OBVIOUS
  <2>2. P - 1 \in Nat \ {0} /\ Q - 1 \in Nat \ {0}
    BY <1>1
  <2> QED
    BY <2>1, <2>2
<1>4. (P - 1) * (Q - 1) = P * Q + 1 - P - Q
  BY <1>1
<1> QED
  BY <1>1, <1>2, <1>3, <1>4 DEF Lambda

LEMMA SaysNat ==
  ASSUME Rsa!DealerAssumption, NEW q, NEW k
  PROVE  /\ Says(q, k) \in Int /\ Says(q, k) >= 0
         /\ k \in {1, 2, 5, 7, 8} => Says(q, k) > 0
         /\ k \in {1, 2, 5, 8} => Says(q, k) = 1
BY Products DEF Says

Step(p, h, a, k, T) ==
  /\ a \in AnySession /\ a.heard = h.heard
  /\ T # Party \ {p} => a.phase = k /\ Mind(p, a, k, T)
  /\ T = Party \ {p} => a.phase = k + 1 /\ Mind(p, a, k + 1, {})

LEMMA Phase1Step ==
  ASSUME Rsa!DealerAssumption, NEW p \in Party, NEW T \in SUBSET (Party \ {p}), NEW q \in T,
         NEW h \in AnySession, h.phase = 1, Ears(h, 1, T), Mind(p, h, 1, T \ {q}),
         NEW m \in DataMessages, m.phase = 1, m.to[p] = Says(q, 1)
  PROVE  Step(p, h, Rsa!Phase1(p, h, q, m), 1, T)
<1> DEFINE a == Rsa!Phase1(p, h, q, m)
<1>1. /\ a \in AnySession /\ a.phase \in {1, 2} /\ a.cross = h.cross /\ a.back = h.back
      /\ a.evals = h.evals /\ a.n = h.n /\ a.lambda = h.lambda /\ a.heard = h.heard
      /\ \A o \in Party :
           a.pk[o] = IF o = q /\ m.phase = 1 /\ m.to[p] # 0 THEN m.to[p] ELSE h.pk[o]
      /\ a.phase = 1 <=> 0 \in Rsa!Range(a.pk)
  BY Phase1Shape
<1> HIDE DEF a
<1>2. Says(q, 1) = 1
  BY SaysNat
<1>3. \A o \in Party : a.pk[o] = IF o = p \/ o \in T THEN 1 ELSE 0
  BY <1>1, <1>2 DEF Mind
<1>4. 0 \in Rsa!Range(a.pk) <=> \E o \in Party : a.pk[o] = 0
  BY <1>1 DEF Rsa!Range, AnySession
<1>5. a.phase = 2 <=> T = Party \ {p}
  BY <1>1, <1>3, <1>4
<1>6. T # Party \ {p} => Mind(p, a, 1, T)
  BY <1>1, <1>3 DEF Mind
<1>7. T = Party \ {p} => Mind(p, a, 2, {})
  BY <1>1, <1>3 DEF Mind
<1> QED
  BY <1>1, <1>5, <1>6, <1>7 DEF Step, a

LEMMA Phase2Step ==
  ASSUME Rsa!DealerAssumption, NEW p \in Party, NEW T \in SUBSET (Party \ {p}), NEW q \in T,
         NEW h \in AnySession, h.phase = 2, Ears(h, 2, T), Mind(p, h, 2, T \ {q}),
         NEW m \in DataMessages, m.phase = 2, m.to[p] = Says(q, 2), NEW garbage \in Int
  PROVE  Step(p, h, Rsa!Phase2(p, h, q, m, garbage), 2, T) /\ ~Rsa!Undecryptable(p, h, m, garbage)
<1> DEFINE a == Rsa!Phase2(p, h, q, m, garbage)
<1>1. /\ a \in AnySession /\ a.phase \in {2, 3} /\ a.pk = h.pk /\ a.back = h.back
      /\ a.evals = h.evals /\ a.n = h.n /\ a.lambda = h.lambda /\ a.heard = h.heard
      /\ \A o \in Party :
           a.cross[o] = IF o = q /\ m.phase = 2 /\ m.to[p] # 0
                        THEN Rsa!Decrypts(p, h, m.to[p], garbage) ELSE h.cross[o]
      /\ a.phase = 3 <=> \A o \in Party \ {p} : a.cross[o] # -1
  BY Phase2Shape
<1> HIDE DEF a
<1>2. Says(q, 2) = 1 /\ h.pk[p] = 1
  BY SaysNat DEF Mind
<1>3. Rsa!Decrypts(p, h, m.to[p], garbage) = 0
  BY <1>2 DEF Rsa!Decrypts
<1>4. \A o \in Party : a.cross[o] = IF o \in T THEN 0 ELSE -1
  BY <1>1, <1>2, <1>3 DEF Mind
<1>5. a.phase = 3 <=> T = Party \ {p}
  BY <1>1, <1>4
<1>6. T # Party \ {p} => Mind(p, a, 2, T)
  BY <1>1, <1>4 DEF Mind
<1>7. T = Party \ {p} => Mind(p, a, 3, {})
  BY <1>1, <1>4 DEF Mind
<1> QED
  BY <1>1, <1>3, <1>5, <1>6, <1>7 DEF Step, a, Rsa!Undecryptable

LEMMA Phase3Step ==
  ASSUME Rsa!DealerAssumption, NEW p \in Party, NEW T \in SUBSET (Party \ {p}), NEW q \in T,
         NEW h \in AnySession, h.phase = 3, Ears(h, 3, T), Mind(p, h, 3, T \ {q}),
         NEW m \in DataMessages
  PROVE  Step(p, h, Rsa!Phase3(p, h, q, m), 3, T)
<1> DEFINE a == Rsa!Phase3(p, h, q, m)
           k == IF T = Party \ {p} THEN 4 ELSE 3
<1>1. Says(q, 3) = 0
  BY DEF Says
<1>2. \A o \in Party : h.heard[o][3] >= 0 <=> o \in T
  BY SaysNat DEF Ears
<1>3. h.back \cup {q} \cup {o \in Party : h.heard[o][3] >= 0} = T
  BY <1>2 DEF Mind
<1>4. a = [h EXCEPT !.back = T, !.phase = IF Party \ {p} \subseteq T THEN 4 ELSE 3]
  BY <1>3 DEF Rsa!Phase3
<1>5. a = WithBack(h, T, k)
  BY <1>4 DEF WithBack
<1>6. k \in 0 .. 9 /\ T \in SUBSET Party
  OBVIOUS
<1> HIDE DEF a, k
<1>7. LET b == WithBack(h, T, k)
      IN  /\ b \in AnySession /\ b.back = T /\ b.phase = k
          /\ b.pk = h.pk /\ b.cross = h.cross /\ b.evals = h.evals
          /\ b.n = h.n /\ b.lambda = h.lambda /\ b.heard = h.heard
  BY ONLY <1>6, h \in AnySession, UpdatedBack
<1>8. T # Party \ {p} => Mind(p, a, 3, T)
  BY <1>5, <1>7 DEF Mind
<1>9. T = Party \ {p} => Mind(p, a, 4, {})
  BY <1>5, <1>7 DEF Mind
<1> QED
  BY <1>5, <1>7, <1>8, <1>9 DEF Step, a, k

LEMMA TermsKnown ==
  ASSUME Rsa!DealerAssumption, NEW p \in Party, NEW T \in SUBSET (Party \ {p}), NEW q \in T,
         NEW h \in AnySession, NEW k \in 1 .. 8, k \in {4, 6}, h.phase = k, Ears(h, k, T),
         NEW own \in Int, own >= 0, own = Says(p, k)
  PROVE  LET terms == Rsa!Terms(p, h, q, own)
         IN  /\ Rsa!AllIn(p, terms) <=> T = Party \ {p}
             /\ T = Party \ {p} => Rsa!Sum(terms) = Says(Dealer, k)
<1> DEFINE terms == Rsa!Terms(p, h, q, own)
<1>1. k \in 1 .. 8 /\ q \in Party
  OBVIOUS
<1>2. /\ terms \in [Party -> Int] /\ terms[p] = own
      /\ \A o \in Party \ {p} : terms[o] = IF o = q /\ h.heard[o][k] < 0 THEN 0
                                           ELSE h.heard[o][k]
  <2>1. h.phase = k
    OBVIOUS
  <2>2. /\ Rsa!Terms(p, h, q, own) \in [Party -> Int]
        /\ Rsa!Terms(p, h, q, own)[p] = own
        /\ \A o \in Party \ {p} :
             Rsa!Terms(p, h, q, own)[o] = IF o = q /\ h.heard[o][k] < 0 THEN 0 ELSE h.heard[o][k]
    <3>1. \A o \in Party : h.heard[o][k] \in Int
      BY DEF AnySession
    <3> QED
      BY <2>1, <3>1 DEF Rsa!Terms
  <2> QED
    BY <2>2
<1> HIDE DEF terms
<1>3. \A o \in Party : h.heard[o][k] = IF o \in T THEN Says(o, k) ELSE -1
  BY <1>1 DEF Ears
<1>4. \A o \in Party : Says(o, k) >= 0 /\ Says(o, k) \in Int
  BY SaysNat
<1>5. \A o \in Party : terms[o] = IF o = p \/ o \in T THEN Says(o, k) ELSE -1
  BY <1>2, <1>3, <1>4
<1>6. Rsa!AllIn(p, terms) <=> T = Party \ {p}
  BY <1>4, <1>5 DEF Rsa!AllIn
<1>7. ASSUME T = Party \ {p} PROVE Rsa!Sum(terms) = Says(Dealer, k)
  <2>1. Dealer \in Party
    BY DEF Rsa!DealerAssumption
  <2>2. \A o \in Party \ {Dealer} : terms[o] = 0
    BY <1>5, <1>7 DEF Says
  <2>3. terms[Dealer] = Says(Dealer, k)
    BY <1>5, <1>7, <2>1
  <2> QED
    BY <1>2, <2>1, <2>2, <2>3, SumOfOne
<1> QED
  BY <1>6, <1>7 DEF terms

LEMMA Phase4Step ==
  ASSUME Rsa!DealerAssumption, NEW p \in Party, NEW T \in SUBSET (Party \ {p}), NEW q \in T,
         NEW h \in AnySession, h.phase = 4, Ears(h, 4, T), Mind(p, h, 4, T \ {q}),
         NEW m \in DataMessages
  PROVE  Step(p, h, Rsa!Phase4(p, h, q, m), 4, T)
<1> DEFINE a == Rsa!Phase4(p, h, q, m)
           own == Rsa!NContribution(p, h)
           terms == Rsa!Terms(p, h, q, own)
<1>1. q \in Party \ {p}
  OBVIOUS
<1>2. /\ a \in AnySession /\ a.phase \in {4, 5} /\ a.pk = h.pk /\ a.cross = h.cross
      /\ a.evals = h.evals /\ a.lambda = h.lambda /\ a.heard = h.heard
      /\ a.phase = 4 => a = h
      /\ a.phase = 5 => Rsa!AllIn(p, terms) /\ a.n = Rsa!Sum(terms)
  BY <1>1, Phase4Shape
<1>3. Rsa!AllIn(p, terms) => a.phase = 5
  <2>1. a = IF Rsa!AllIn(p, terms) THEN [h EXCEPT !.n = Rsa!Sum(terms), !.phase = 5] ELSE h
    BY DEF Rsa!Phase4
  <2> HIDE DEF a, terms
  <2> QED
    BY <2>1 DEF AnySession
<1>4. own = Says(p, 4) /\ own \in Int /\ own >= 0
  BY Contributing, Products DEF Mind, Says
<1> HIDE DEF a, own
<1>5. /\ Rsa!AllIn(p, terms) <=> T = Party \ {p}
      /\ T = Party \ {p} => Rsa!Sum(terms) = Says(Dealer, 4)
  BY <1>4, TermsKnown
<1>6. Says(Dealer, 4) = P * Q
  BY DEF Says
<1> HIDE DEF terms
<1>7. T # Party \ {p} => a.phase = 4 /\ Mind(p, a, 4, T)
  BY <1>2, <1>5 DEF Mind
<1>8. T = Party \ {p} => a.phase = 5 /\ Mind(p, a, 5, {})
  BY <1>2, <1>3, <1>5, <1>6 DEF Mind
<1> QED
  BY <1>2, <1>7, <1>8 DEF Step, a

LEMMA Phase5Step ==
  ASSUME Rsa!DealerAssumption, NEW p \in Party, NEW T \in SUBSET (Party \ {p}), NEW q \in T,
         NEW h \in AnySession, h.phase = 5, Ears(h, 5, T), Mind(p, h, 5, T \ {q}),
         NEW m \in DataMessages
  PROVE  Step(p, h, Rsa!Phase5(p, h, q, m), 5, T)
<1> DEFINE a == Rsa!Phase5(p, h, q, m)
<1>1. \A o \in Party : h.heard[o][5] >= 0 <=> o \in T
  BY SaysNat DEF Ears
<1>2. a = IF T = Party \ {p} THEN [h EXCEPT !.phase = 6] ELSE h
  BY <1>1 DEF Rsa!Phase5
<1> HIDE DEF a
<1>3. /\ a \in AnySession /\ a.pk = h.pk /\ a.cross = h.cross
      /\ a.evals = h.evals /\ a.n = h.n /\ a.lambda = h.lambda /\ a.heard = h.heard
      /\ a.phase = IF T = Party \ {p} THEN 6 ELSE 5
  BY <1>2 DEF AnySession
<1>4. T # Party \ {p} => Mind(p, a, 5, T)
  BY <1>3 DEF Mind
<1>5. T = Party \ {p} => Mind(p, a, 6, {})
  BY <1>3 DEF Mind
<1> QED
  BY <1>3, <1>4, <1>5 DEF Step, a

LEMMA Phase6Step ==
  ASSUME Rsa!DealerAssumption, NEW p \in Party, NEW T \in SUBSET (Party \ {p}), NEW q \in T,
         NEW h \in AnySession, h.phase = 6, Ears(h, 6, T), Mind(p, h, 6, T \ {q}),
         NEW m \in DataMessages
  PROVE  LET a == Rsa!Phase6(p, h, q, m)
         IN  \/ Step(p, h, a, 6, T) /\ (T = Party \ {p} /\ p = Dealer => Rsa!HasInverse(E, Lambda))
             \/ T = Party \ {p} /\ a \in AnySession /\ Stuck(p, a) /\ Rsa!NotInvertible(p, a)
<1> DEFINE a == Rsa!Phase6(p, h, q, m)
           own == Rsa!LambdaContribution(p, h)
           terms == Rsa!Terms(p, h, q, own)
           sum == Rsa!Sum(terms)
<1>1. q \in Party \ {p}
  OBVIOUS
<1>2. /\ a \in AnySession /\ a.phase \in {6, 7, 9} /\ a.pk = h.pk /\ a.cross = h.cross
      /\ a.n = h.n /\ a.heard = h.heard
      /\ a.phase = 6 => a.evals = h.evals
      /\ \/ ~Rsa!AllIn(p, terms) /\ a = h
         \/ /\ Rsa!AllIn(p, terms) /\ p = Dealer /\ ~Rsa!HasInverse(E, Rsa!Absolute(sum))
            /\ a.phase = 6 /\ a.lambda = sum
         \/ /\ Rsa!AllIn(p, terms) /\ a.lambda = sum
            /\ p = Dealer => Rsa!HasInverse(E, Rsa!Absolute(sum))
            /\ a.phase = IF sum <= 0 THEN 9 ELSE 7
            /\ a.evals = [h.evals EXCEPT ![p] = IF p = Dealer THEN sum ELSE 1]
  BY <1>1, Phase6Shape
<1>3. own = Says(p, 6) /\ own \in Int /\ own >= 0
  BY Contributing, Products DEF Mind, Says, Rsa!LambdaContribution
<1> HIDE DEF a, own
<1>4. /\ Rsa!AllIn(p, terms) <=> T = Party \ {p}
      /\ T = Party \ {p} => sum = Says(Dealer, 6)
  BY <1>3, TermsKnown
<1>5. Says(Dealer, 6) = Lambda /\ Lambda > 0 /\ Lambda \in Int /\ Rsa!Absolute(Lambda) = Lambda
  BY Products DEF Says, Rsa!Absolute
<1> HIDE DEF terms, sum
<1>6. CASE T # Party \ {p}
  <2>1. Mind(p, a, 6, T)
    BY <1>2, <1>4, <1>6 DEF Mind
  <2>2. a.phase = 6
    BY <1>2, <1>4, <1>6
  <2> QED
    BY <1>2, <1>6, <2>1, <2>2 DEF Step, a
<1>7. CASE T = Party \ {p} /\ p = Dealer /\ ~Rsa!HasInverse(E, Lambda)
  <2>1. a.phase = 6 /\ a.lambda = Lambda
    BY <1>2, <1>4, <1>5, <1>7
  <2>2. \A o \in Party \ {p} : a.heard[o][6] = 0
    BY <1>2, <1>7 DEF Ears, Says
  <2>3. a.n = P * Q
    BY <1>2 DEF Mind
  <2> QED
    BY <1>2, <1>5, <1>7, <2>1, <2>2, <2>3 DEF Stuck, Rsa!NotInvertible, a
<1>8. CASE T = Party \ {p} /\ (p = Dealer => Rsa!HasInverse(E, Lambda))
  <2>1. a.phase = 7 /\ a.evals = [h.evals EXCEPT ![p] = IF p = Dealer THEN Lambda ELSE 1]
    BY <1>2, <1>4, <1>5, <1>8
  <2>2. \A o \in Party : a.evals[o] = IF o = p THEN Says(p, 7) ELSE 0
    BY <2>1 DEF AnySession, Mind, Says
  <2>3. Mind(p, a, 7, {})
    BY <1>2, <2>2 DEF Mind
  <2> QED
    BY <1>2, <1>8, <2>1, <2>3 DEF Step, a
<1> QED
  BY <1>6, <1>7, <1>8

LEMMA Phase7Step ==
  ASSUME Rsa!DealerAssumption, NEW p \in Party, NEW T \in SUBSET (Party \ {p}), NEW q \in T,
         NEW h \in AnySession, h.phase = 7, Ears(h, 7, T), Mind(p, h, 7, T \ {q}),
         NEW m \in DataMessages
  PROVE  Step(p, h, Rsa!Phase7(p, h, q, m), 7, T)
<1> DEFINE a == Rsa!Phase7(p, h, q, m)
<1>1. q \in Party \ {p}
  OBVIOUS
<1>2. /\ a \in AnySession /\ a.phase \in {7, 8, 9} /\ a.pk = h.pk /\ a.cross = h.cross
      /\ a.n = h.n /\ a.lambda = h.lambda /\ a.heard = h.heard
      /\ a.evals = [o \in Party |-> IF h.heard[o][7] > 0 THEN h.heard[o][7] ELSE h.evals[o]]
      /\ a.phase = 7 <=> 0 \in Rsa!Range(a.evals)
  BY <1>1, Phase7Shape
<1>3. h.n = P * Q /\ P * Q # 0
  BY Products DEF Mind
<1>4. a.phase # 9
  <2> DEFINE evals == [o \in Party |-> IF h.heard[o][7] > 0 THEN h.heard[o][7] ELSE h.evals[o]]
  <2>1. a = [h EXCEPT !.evals = evals,
                      !.phase = IF 0 \in Rsa!Range(evals) THEN 7 ELSE IF h.n = 0 THEN 9 ELSE 8]
    BY DEF Rsa!Phase7, Rsa!Crashed
  <2> HIDE DEF a, evals
  <2> QED
    BY <1>3, <2>1 DEF AnySession
<1> HIDE DEF a
<1>5. \A o \in Party : Says(o, 7) > 0 /\ Says(o, 7) \in Int
  BY SaysNat
<1>6. \A o \in Party : a.evals[o] = IF o = p \/ o \in T THEN Says(o, 7) ELSE 0
  BY <1>2, <1>5 DEF Ears, Mind
<1>7. 0 \in Rsa!Range(a.evals) <=> \E o \in Party : a.evals[o] = 0
  BY <1>2 DEF Rsa!Range
<1>8. a.phase = 7 <=> T # Party \ {p}
  BY <1>2, <1>5, <1>6, <1>7
<1>9. T # Party \ {p} => Mind(p, a, 7, T)
  BY <1>2, <1>3, <1>6 DEF Mind
<1>10. T = Party \ {p} => Mind(p, a, 8, {})
  BY <1>2, <1>3, <1>6 DEF Mind
<1> QED
  BY <1>2, <1>4, <1>8, <1>9, <1>10 DEF Step, a

Speaks(m, q, k) ==
  m \in DataMessages /\ m.phase = k /\ \A p \in Party \ {q} : m.to[p] = Says(q, k)

LEMMA EntersSays ==
  ASSUME Rsa!DealerAssumption, NEW p \in Party, NEW s \in AnySession, NEW k \in 2 .. 8,
         s.phase = k, Mind(p, s, k, {})
  PROVE  Speaks(Rsa!Enters(p, s), p, k)
<1>1. ASSUME NEW to \in [Party -> Int], Rsa!Enters(p, s) = Rsa!Data(k, to),
             \A q \in Party \ {p} : to[q] = Says(p, k)
      PROVE  Speaks(Rsa!Enters(p, s), p, k)
  <2>1. k \in 1 .. 8
    OBVIOUS
  <2>2. Rsa!Data(k, to) \in DataMessages /\ Rsa!Data(k, to).phase = k /\ Rsa!Data(k, to).to = to
    BY ONLY <2>1, to \in [Party -> Int], MessageShapes
  <2> QED
    BY <1>1, <2>2 DEF Speaks
<1>2. CASE k = 2
  <2> DEFINE to == [s.pk EXCEPT ![p] = 0]
  <2>1. Rsa!Enters(p, s) = Rsa!Data(k, to)
    BY <1>2 DEF Rsa!Enters, Rsa!EncryptedShares
  <2>2. to \in [Party -> Int] /\ \A q \in Party \ {p} : to[q] = Says(p, k)
    BY <1>2, SaysNat DEF AnySession, Mind
  <2> HIDE DEF to
  <2> QED
    BY <1>1, <2>1, <2>2
<1>3. CASE k = 3
  <2> DEFINE to == [s.cross EXCEPT ![p] = 0]
  <2>1. Rsa!Enters(p, s) = Rsa!Data(k, to)
    BY <1>3 DEF Rsa!Enters, Rsa!CrossProducts
  <2>2. to \in [Party -> Int] /\ \A q \in Party \ {p} : to[q] = Says(p, k)
    BY <1>3 DEF AnySession, Mind, Says
  <2> HIDE DEF to
  <2> QED
    BY <1>1, <2>1, <2>2
<1>4. ASSUME NEW v, Rsa!Enters(p, s) = Rsa!ToAll(k, v), v = Says(p, k)
      PROVE  Speaks(Rsa!Enters(p, s), p, k)
  <2> DEFINE to == [q \in Party |-> v]
  <2>1. Rsa!Enters(p, s) = Rsa!Data(k, to)
    BY <1>4 DEF Rsa!ToAll
  <2>2. to \in [Party -> Int] /\ \A q \in Party : to[q] = Says(p, k)
    BY <1>4, SaysNat
  <2> HIDE DEF to
  <2> QED
    BY <1>1, <2>1, <2>2
<1>5. CASE k = 4
  <2>1. Rsa!Enters(p, s) = Rsa!ToAll(k, Rsa!NContribution(p, s))
    BY <1>5 DEF Rsa!Enters
  <2>2. Rsa!NContribution(p, s) = Says(p, k)
    BY <1>5, Contributing DEF Mind, Says
  <2> QED
    BY <1>4, <2>1, <2>2
<1>6. CASE k = 6
  <2>1. Rsa!Enters(p, s) = Rsa!ToAll(k, Rsa!Absolute(Rsa!LambdaContribution(p, s)))
    BY <1>6 DEF Rsa!Enters
  <2>2. Rsa!Absolute(Rsa!LambdaContribution(p, s)) = Says(p, k)
    BY <1>6, Products DEF Mind, Says, Rsa!LambdaContribution, Rsa!Absolute
  <2> QED
    BY <1>4, <2>1, <2>2
<1>7. CASE k = 7
  <2>1. Rsa!Enters(p, s) = Rsa!ToAll(k, s.evals[p])
    BY <1>7 DEF Rsa!Enters, Rsa!Evaluations
  <2>2. s.evals[p] = Says(p, k)
    BY <1>7 DEF Mind
  <2> QED
    BY <1>4, <2>1, <2>2
<1>8. CASE k \in {5, 8}
  <2>1. Rsa!Enters(p, s) = Rsa!ToAll(k, 1)
    BY <1>8 DEF Rsa!Enters, Rsa!Biprimality, Rsa!Verification
  <2> QED
    BY <1>4, <1>8, <2>1, SaysNat
<1> QED
  BY <1>2, <1>3, <1>5, <1>6, <1>7, <1>8

InPhase(s, k) == s.phase = k

(* A message of its phase reaches a session.                               *)
LEMMA EarsHear ==
  ASSUME Rsa!DealerAssumption, NEW p \in Party, NEW s \in AnySession, NEW k \in 1 .. 8,
         s.phase = k,
         NEW T \in SUBSET (Party \ {p}), NEW q \in T,
         Ears(s, k, T \ {q}), Mind(p, s, k, T \ {q})
  PROVE  /\ Hearing(s, q, k, Says(q, k)) \in AnySession
         /\ InPhase(Hearing(s, q, k, Says(q, k)), k)
         /\ Ears(Hearing(s, q, k, Says(q, k)), k, T)
         /\ Mind(p, Hearing(s, q, k, Says(q, k)), k, T \ {q})
<1> DEFINE v == Says(q, k)
           h == Hearing(s, q, k, v)
<1>1. v \in Int /\ q \in Party
  BY SaysNat
<1> HIDE DEF v
<1>2. /\ h \in AnySession
      /\ h.phase = s.phase /\ h.pk = s.pk /\ h.cross = s.cross /\ h.back = s.back
      /\ h.evals = s.evals /\ h.n = s.n /\ h.lambda = s.lambda
      /\ HeardSays(s, q, k, v, h)
  BY ONLY <1>1, s \in AnySession, k \in 1 .. 8, HeardShape
<1> HIDE DEF h
<1>3. Ears(h, k, T)
  BY <1>1, <1>2 DEF Ears, HeardSays, v
<1>4. Mind(p, h, k, T \ {q})
  BY <1>2 DEF Mind
<1> QED
  BY <1>2, <1>3, <1>4 DEF h, v, InPhase

Midway(p, r, k, T) ==
  /\ ~r.failed /\ r.key = Rsa!NoKey
  /\ r.s.phase = k /\ Ears(r.s, k, T) /\ Mind(p, r.s, k, T)
Through(p, r, k) ==
  \/ /\ k < 8 /\ ~r.failed /\ r.key = Rsa!NoKey
     /\ r.s.phase = k + 1 /\ Ears(r.s, k + 1, {}) /\ Mind(p, r.s, k + 1, {})
     /\ Speaks(r.last, p, k + 1)
  \/ k = 6 /\ r.failed /\ Stuck(p, r.s)
  \/ k = 8 /\ ~r.failed /\ r.s = Rsa!NoSession /\ r.key # Rsa!NoKey

(* Handled in phase 1 to 7.                                                *)
LEMMA HandleStep ==
  ASSUME Rsa!DealerAssumption, NEW p \in Party, NEW T \in SUBSET (Party \ {p}), NEW q \in T,
         NEW h \in AnySession, NEW k \in 1 .. 7, h.phase = k, Ears(h, k, T),
         Mind(p, h, k, T \ {q}), NEW m, Speaks(m, q, k), NEW garbage \in Int
  PROVE  LET a == Rsa!Handle(p, h, q, m, garbage)
         IN  /\ ~Rsa!Undecryptable(p, h, m, garbage)
             /\ \/ Step(p, h, a, k, T)
                   /\ (k = 6 /\ T = Party \ {p} /\ p = Dealer => Rsa!HasInverse(E, Lambda))
                \/ /\ k = 6 /\ T = Party \ {p}
                   /\ a \in AnySession /\ Stuck(p, a) /\ Rsa!NotInvertible(p, a)
<1>1. m \in DataMessages /\ m.phase = k /\ m.to[p] = Says(q, k)
  BY DEF Speaks
<1>2. k # 2 => ~Rsa!Undecryptable(p, h, m, garbage)
  BY DEF Rsa!Undecryptable
<1>3. CASE k = 1
  BY <1>1, <1>2, <1>3, Phase1Step DEF Rsa!Handle
<1>4. CASE k = 2
  BY <1>1, <1>4, Phase2Step DEF Rsa!Handle
<1>5. CASE k = 3
  BY <1>1, <1>2, <1>5, Phase3Step DEF Rsa!Handle
<1>6. CASE k = 4
  BY <1>1, <1>2, <1>6, Phase4Step DEF Rsa!Handle
<1>7. CASE k = 5
  BY <1>1, <1>2, <1>7, Phase5Step DEF Rsa!Handle
<1>8. CASE k = 6
  BY <1>1, <1>2, <1>8, Phase6Step DEF Rsa!Handle
<1>9. CASE k = 7
  BY <1>1, <1>2, <1>9, Phase7Step DEF Rsa!Handle
<1> QED
  BY <1>3, <1>4, <1>5, <1>6, <1>7, <1>8, <1>9

(* One message of a poll in step.                                          *)
LEMMA FeedStep ==
  ASSUME Rsa!DealerAssumption, NEW p \in Party, NEW T \in SUBSET (Party \ {p}), NEW q \in T,
         NEW k \in 1 .. 8, NEW r \in AnyResult, Midway(p, r, k, T \ {q}),
         NEW m, Speaks(m, q, k), NEW garbage \in Int
  PROVE  LET f == Rsa!Feed(p, r, q, m, garbage)
         IN  /\ f \in AnyResult
             /\ IF T = Party \ {p} THEN Through(p, f, k) ELSE Midway(p, f, k, T)
<1> DEFINE f == Rsa!Feed(p, r, q, m, garbage)
           heard == Hearing(r.s, q, k, Says(q, k))
           after == Rsa!Handle(p, heard, q, m, garbage)
<1> SUFFICES /\ f \in AnyResult
             /\ T = Party \ {p} => Through(p, f, k)
             /\ T # Party \ {p} => Midway(p, f, k, T)
  OBVIOUS
<1>1. /\ r.s \in AnySession /\ r.last \in AnyContribution /\ r.key = Rsa!NoKey /\ ~r.failed
      /\ r.s.phase = k /\ Ears(r.s, k, T \ {q}) /\ Mind(p, r.s, k, T \ {q})
  BY DEF AnyResult, Midway
<1>2. m.phase = k /\ m.to[p] = Says(q, k)
  BY DEF Speaks
<1>3. heard \in AnySession /\ heard.phase = k /\ Ears(heard, k, T) /\ Mind(p, heard, k, T \ {q})
  <2> DEFINE s == r.s
             h == Hearing(s, q, k, Says(q, k))
  <2>1. s \in AnySession /\ s.phase = k /\ Ears(s, k, T \ {q}) /\ Mind(p, s, k, T \ {q})
    BY <1>1
  <2> HIDE DEF s
  <2>2. h \in AnySession /\ InPhase(h, k) /\ Ears(h, k, T) /\ Mind(p, h, k, T \ {q})
    BY <2>1, EarsHear
  <2> QED
    BY <2>2 DEF s, InPhase
<1>4. f = IF r.failed THEN r
          ELSE IF r.s.phase \in {Rsa!None, Rsa!Crashed} \/ Rsa!Undecryptable(p, heard, m, garbage)
          THEN [r EXCEPT !.s = heard, !.failed = TRUE]
          ELSE IF heard.phase = 8 /\ Rsa!Verified(p, heard)
          THEN [r EXCEPT !.s = Rsa!NoSession, !.key = [n |-> heard.n, lambda |-> heard.evals[Dealer]]]
          ELSE [r EXCEPT !.s = after,
                         !.failed = after.phase = Rsa!Crashed \/ Rsa!NotInvertible(p, after),
                         !.last = IF after.phase = heard.phase THEN Rsa!Waits(after)
                                  ELSE Rsa!Enters(p, after)]
  BY <1>2 DEF Rsa!Feed, Hearing
<1>5. r.s.phase \notin {Rsa!None, Rsa!Crashed}
  BY <1>1 DEF Rsa!None, Rsa!Crashed
<1> HIDE DEF f, heard
<1>6. CASE k = 8
  <2>1. ~Rsa!Undecryptable(p, heard, m, garbage)
    BY <1>3, <1>6 DEF Rsa!Undecryptable
  <2>2. Rsa!Verified(p, heard) <=> T = Party \ {p}
    <3>1. \A o \in Party : heard.heard[o][8] = IF o \in T THEN Says(o, 8) ELSE -1
      BY <1>3, <1>6 DEF Ears
    <3>2. \A o \in Party : Says(o, 8) > 0
      BY SaysNat
    <3> QED
      BY <3>1, <3>2 DEF Rsa!Verified
  <2>3. CASE T = Party \ {p}
    <3> DEFINE key == [n |-> heard.n, lambda |-> heard.evals[Dealer]]
    <3>1. f = [r EXCEPT !.s = Rsa!NoSession, !.key = key]
      BY <1>1, <1>3, <1>4, <1>5, <1>6, <2>1, <2>2, <2>3
    <3>2. heard.n # 0
      BY <1>3, <1>6, Products DEF Mind
    <3>3. key \in AnyKey /\ key # Rsa!NoKey
      BY <1>3, <3>2 DEF AnyKey, AnySession, Rsa!DealerAssumption, Rsa!NoKey
    <3> HIDE DEF key
    <3>4. f \in AnyResult /\ f.s = Rsa!NoSession /\ f.key = key /\ ~f.failed
      BY <1>1, <3>1, <3>3, NoSessionShape DEF AnyResult
    <3> QED
      BY <1>6, <2>3, <3>3, <3>4 DEF Through
  <2>4. CASE T # Party \ {p}
    <3>1. after = heard
      BY <1>3, <1>6 DEF Rsa!Handle
    <3>2. f = [r EXCEPT !.s = heard, !.failed = heard.phase = Rsa!Crashed \/ Rsa!NotInvertible(p, heard),
                        !.last = Rsa!Waits(heard)]
      BY <1>1, <1>3, <1>4, <1>5, <1>6, <2>1, <2>2, <2>4, <3>1
    <3>3. (heard.phase = Rsa!Crashed \/ Rsa!NotInvertible(p, heard)) = FALSE
      BY <1>3, <1>6 DEF Rsa!Crashed, Rsa!NotInvertible
    <3>4. Rsa!Waits(heard) \in AnyContribution
      BY <1>3, WaitsFits
    <3>5. f \in AnyResult /\ f.s = heard /\ f.key = r.key /\ ~f.failed
      BY <1>1, <1>3, <3>2, <3>3, <3>4 DEF AnyResult
    <3>6. Mind(p, heard, 8, T)
      BY <1>3, <1>6 DEF Mind
    <3> QED
      BY <1>1, <1>3, <1>6, <2>4, <3>5, <3>6 DEF Midway
  <2> QED
    BY <2>3, <2>4
<1>7. CASE k \in 1 .. 7
  <2>1. /\ ~Rsa!Undecryptable(p, heard, m, garbage)
        /\ \/ Step(p, heard, after, k, T)
              /\ (k = 6 /\ T = Party \ {p} /\ p = Dealer => Rsa!HasInverse(E, Lambda))
           \/ /\ k = 6 /\ T = Party \ {p}
              /\ after \in AnySession /\ Stuck(p, after) /\ Rsa!NotInvertible(p, after)
    BY <1>3, <1>7, HandleStep
  <2> DEFINE failed == after.phase = Rsa!Crashed \/ Rsa!NotInvertible(p, after)
             last == IF after.phase = heard.phase THEN Rsa!Waits(after) ELSE Rsa!Enters(p, after)
  <2>2. f = [r EXCEPT !.s = after, !.failed = failed, !.last = last]
    BY <1>1, <1>3, <1>4, <1>5, <1>7, <2>1
  <2>3. failed \in BOOLEAN
    BY DEF Rsa!NotInvertible
  <2> HIDE DEF after
  <2>4. ASSUME after \in AnySession, last \in AnyContribution
        PROVE  /\ f \in AnyResult /\ f.s = after /\ f.key = Rsa!NoKey /\ f.last = last
               /\ f.failed <=> failed
    <3> HIDE DEF failed, last
    <3> QED
      BY <1>1, <2>2, <2>3, <2>4 DEF AnyResult
  <2>5. CASE Step(p, heard, after, k, T) /\ T # Party \ {p}
    <3>1. after \in AnySession /\ after.phase = k /\ after.heard = heard.heard /\ Mind(p, after, k, T)
      BY <2>5 DEF Step
    <3>2. ~failed
      BY <1>7, <3>1 DEF Rsa!Crashed, Rsa!NotInvertible, Mind
    <3>3. last \in AnyContribution
      BY <1>3, <3>1, WaitsFits
    <3>4. Ears(after, k, T)
      BY <1>3, <3>1 DEF Ears
    <3> QED
      BY <2>4, <2>5, <3>1, <3>2, <3>3, <3>4 DEF Midway
  <2>6. CASE Step(p, heard, after, k, T) /\ T = Party \ {p}
    <3>1. /\ after \in AnySession /\ after.phase = k + 1 /\ after.heard = heard.heard
          /\ Mind(p, after, k + 1, {})
      BY <2>6 DEF Step
    <3>2. ~failed
      BY <1>7, <3>1 DEF Rsa!Crashed, Rsa!NotInvertible, Mind
    <3> DEFINE j == k + 1
    <3>3. j \in 2 .. 8
      BY <1>7
    <3> HIDE DEF j
    <3>4. Speaks(Rsa!Enters(p, after), p, j)
      BY <3>1, <3>3, EntersSays DEF j
    <3>5. last = Rsa!Enters(p, after)
      BY <1>3, <3>1
    <3>6. last \in AnyContribution
      BY <3>4, <3>5 DEF Speaks, AnyContribution
    <3>7. Ears(after, j, {})
      BY <1>3, <1>7, <3>1 DEF Ears, j
    <3> QED
      BY <1>7, <2>4, <2>6, <3>1, <3>2, <3>4, <3>5, <3>6, <3>7 DEF Through, j
  <2>7. CASE /\ k = 6 /\ T = Party \ {p}
             /\ after \in AnySession /\ Stuck(p, after) /\ Rsa!NotInvertible(p, after)
    <3>1. last \in AnyContribution
      BY <1>3, <2>7, WaitsFits DEF Stuck
    <3> QED
      BY <2>4, <2>7, <3>1 DEF Through
  <2> QED
    BY <2>1, <2>5, <2>6, <2>7
<1> QED
  BY <1>6, <1>7

(* The dealer that has no inverse fails at the first message of every poll.*)
LEMMA FeedStuck ==
  ASSUME Rsa!DealerAssumption, NEW p \in Party, NEW q \in Party \ {p},
         NEW r \in AnyResult, Stuck(p, r.s), NEW m, Speaks(m, q, 6), NEW garbage \in Int
  PROVE  LET f == Rsa!Feed(p, r, q, m, garbage)
         IN  f \in AnyResult /\ Stuck(p, f.s) /\ f.failed
<1> DEFINE f == Rsa!Feed(p, r, q, m, garbage)
           heard == Hearing(r.s, q, 6, 0)
           after == Rsa!Handle(p, heard, q, m, garbage)
<1>0. CASE r.failed
  BY <1>0 DEF Rsa!Feed
<1>1. CASE ~r.failed
  <2>1. r.s \in AnySession /\ r.last \in AnyContribution /\ r.key \in AnyKey
    BY DEF AnyResult
  <2>2. m \in DataMessages /\ m.phase = 6 /\ m.to[p] = 0 /\ p = Dealer /\ r.s.phase = 6
    BY DEF Speaks, Says, Stuck
  <2>3. 6 \in 1 .. 8 /\ 0 \in Int /\ q \in Party
    OBVIOUS
  <2>4. /\ heard \in AnySession
        /\ heard.phase = r.s.phase /\ heard.pk = r.s.pk /\ heard.cross = r.s.cross
        /\ heard.back = r.s.back
        /\ heard.evals = r.s.evals /\ heard.n = r.s.n /\ heard.lambda = r.s.lambda
        /\ HeardSays(r.s, q, 6, 0, heard)
    <3> DEFINE s == r.s
               h == Hearing(s, q, 6, 0)
    <3>1. s \in AnySession
      BY <2>1
    <3> HIDE DEF s
    <3>2. /\ h \in AnySession
          /\ h.phase = s.phase /\ h.pk = s.pk /\ h.cross = s.cross
          /\ h.back = s.back
          /\ h.evals = s.evals /\ h.n = s.n /\ h.lambda = s.lambda
          /\ HeardSays(s, q, 6, 0, h)
      BY ONLY <3>1, <2>3, HeardShape
    <3> QED
      BY <3>2 DEF s
  <2>5. f = IF r.s.phase \in {Rsa!None, Rsa!Crashed} \/ Rsa!Undecryptable(p, heard, m, garbage)
            THEN [r EXCEPT !.s = heard, !.failed = TRUE]
            ELSE IF heard.phase = 8 /\ Rsa!Verified(p, heard)
            THEN [r EXCEPT !.s = Rsa!NoSession, !.key = [n |-> heard.n, lambda |-> heard.evals[Dealer]]]
            ELSE [r EXCEPT !.s = after,
                           !.failed = after.phase = Rsa!Crashed \/ Rsa!NotInvertible(p, after),
                           !.last = IF after.phase = heard.phase THEN Rsa!Waits(after)
                                    ELSE Rsa!Enters(p, after)]
    BY <1>1, <2>2 DEF Rsa!Feed, Hearing
  <2> HIDE DEF f, heard
  <2>6. Stuck(p, heard) /\ heard.phase = 6 /\ heard.n = P * Q
    BY <2>4 DEF Stuck, HeardSays
  <2>7. after = Rsa!Phase6(p, heard, q, m)
    BY <2>6 DEF Rsa!Handle
  <2> DEFINE own == Rsa!LambdaContribution(p, heard)
             terms == Rsa!Terms(p, heard, q, own)
             sum == Rsa!Sum(terms)
  <2>8. /\ after \in AnySession /\ after.n = heard.n /\ after.heard = heard.heard
        /\ \/ ~Rsa!AllIn(p, terms) /\ after = heard
           \/ /\ Rsa!AllIn(p, terms) /\ p = Dealer /\ ~Rsa!HasInverse(E, Rsa!Absolute(sum))
              /\ after.phase = 6 /\ after.lambda = sum
           \/ /\ Rsa!AllIn(p, terms) /\ (p = Dealer => Rsa!HasInverse(E, Rsa!Absolute(sum)))
    <3> DEFINE a == Rsa!Phase6(p, heard, q, m)
    <3>1. q \in Party \ {p} /\ m \in DataMessages /\ heard \in AnySession /\ heard.phase = 6
      BY <2>2, <2>4, <2>6
    <3>2. /\ a \in AnySession /\ a.phase \in {6, 7, 9} /\ a.pk = heard.pk /\ a.cross = heard.cross
          /\ a.n = heard.n /\ a.heard = heard.heard
          /\ a.phase = 6 => a.evals = heard.evals
          /\ \/ ~Rsa!AllIn(p, terms) /\ a = heard
             \/ /\ Rsa!AllIn(p, terms) /\ p = Dealer /\ ~Rsa!HasInverse(E, Rsa!Absolute(sum))
                /\ a.phase = 6 /\ a.lambda = sum
             \/ /\ Rsa!AllIn(p, terms) /\ a.lambda = sum
                /\ p = Dealer => Rsa!HasInverse(E, Rsa!Absolute(sum))
                /\ a.phase = IF sum <= 0 THEN 9 ELSE 7
                /\ a.evals = [heard.evals EXCEPT ![p] = IF p = Dealer THEN sum ELSE 1]
      BY <3>1, Phase6Shape
    <3> QED
      BY <2>7, <3>2
  <2>9. own = Lambda /\ own \in Int /\ own > 0 /\ Rsa!Absolute(Lambda) = Lambda
    BY <2>2, <2>6, Products DEF Rsa!LambdaContribution, Rsa!Absolute
  <2> HIDE DEF after, own
  <2>10. \A o \in Party : terms[o] = IF o = p THEN own ELSE 0
    BY <2>6 DEF Rsa!Terms, Stuck
  <2> HIDE DEF terms
  <2>11. Rsa!AllIn(p, terms)
    BY <2>9, <2>10 DEF Rsa!AllIn
  <2>12. sum = Lambda
    BY <2>9, <2>10, SumOfOne
  <2>13. after.phase = 6 /\ after.lambda = Lambda
    BY <2>2, <2>6, <2>8, <2>9, <2>11, <2>12 DEF Stuck
  <2>14. Stuck(p, after) /\ Rsa!NotInvertible(p, after)
    BY <2>2, <2>6, <2>8, <2>9, <2>13, Products DEF Stuck, Rsa!NotInvertible
  <2>15. ~Rsa!Undecryptable(p, heard, m, garbage) /\ r.s.phase \notin {Rsa!None, Rsa!Crashed}
    BY <2>2 DEF Rsa!Undecryptable, Rsa!None, Rsa!Crashed
  <2> DEFINE failed == after.phase = Rsa!Crashed \/ Rsa!NotInvertible(p, after)
  <2>16. f = [r EXCEPT !.s = after, !.failed = failed, !.last = Rsa!Waits(after)]
    BY <2>5, <2>6, <2>13, <2>15
  <2>17. Rsa!Waits(after) \in AnyContribution /\ failed \in BOOLEAN /\ failed
    BY <2>13, <2>14, WaitsFits DEF Rsa!NotInvertible
  <2> HIDE DEF failed
  <2>18. f \in AnyResult /\ f.s = after /\ f.failed
    BY <2>1, <2>8, <2>16, <2>17 DEF AnyResult
  <2> QED
    BY <2>14, <2>18 DEF f
<1> QED
  BY <1>0, <1>1

RsaAt(p, s, k) == s.phase = k /\ Ears(s, k, {}) /\ Mind(p, s, k, {})

LEMMA WrongInts ==
  ASSUME Rsa!DealerAssumption, NEW p, NEW q PROVE Rsa!Wrong(p, q) \subseteq Int
BY DEF Rsa!Wrong, Rsa!DealerAssumption

LEMMA PollStep ==
  ASSUME Rsa!DealerAssumption, NEW p \in Party, Party \ {p} # {}, NEW k \in 1 .. 8,
         rsaSess[p] \in AnySession, RsaAt(p, rsaSess[p], k),
         \A q \in Party \ {p} : Speaks(rsaSnap[p].contribs[q], q, k)
  PROVE  \A r \in Rsa!Polls(p) : r \in AnyResult /\ Through(p, r, k)
<1> DEFINE J(T) == {r \in AnyResult :
                      IF T = Party \ {p} THEN Through(p, r, k) ELSE Midway(p, r, k, T)}
           I == [T \in SUBSET Rsa!Senders(p) |-> J(T)]
<1>1. Rsa!Senders(p) = Party \ {p}
  BY DEF Rsa!Senders, Speaks, DataMessages
<1>2. \A T \in SUBSET Rsa!Senders(p) : I[T] = J(T)
  OBVIOUS
<1>3. PollStart(p) \in I[{}]
  <2>1. Rsa!NoKey \in AnyKey /\ Rsa!Empty \in AnyContribution
    BY DEF Rsa!NoKey, AnyKey, Rsa!Empty, AnyContribution
  <2>2. PollStart(p) \in AnyResult
    BY <2>1 DEF PollStart, AnyResult
  <2>3. Midway(p, PollStart(p), k, {})
    BY DEF Midway, PollStart, RsaAt
  <2>4. PollStart(p) \in J({})
    BY <2>2, <2>3
  <2> HIDE DEF I, J
  <2> QED
    BY <1>2, <2>4
<1>4. ASSUME NEW T \in SUBSET Rsa!Senders(p), NEW q \in T, NEW r \in I[T \ {q}],
             NEW garbage \in Rsa!Wrong(p, q)
      PROVE  Rsa!Feed(p, r, q, rsaSnap[p].contribs[q], garbage) \in I[T]
  <2> DEFINE m == rsaSnap[p].contribs[q]
             f == Rsa!Feed(p, r, q, m, garbage)
  <2>1. T \in SUBSET (Party \ {p}) /\ Speaks(m, q, k) /\ garbage \in Int /\ T \ {q} # Party \ {p}
    BY <1>1, WrongInts
  <2>2. r \in J(T \ {q})
    BY <1>2
  <2>3. r \in AnyResult /\ Midway(p, r, k, T \ {q})
    BY <2>1, <2>2
  <2> HIDE DEF m
  <2>4. /\ f \in AnyResult
        /\ IF T = Party \ {p} THEN Through(p, f, k) ELSE Midway(p, f, k, T)
    BY <2>1, <2>3, FeedStep
  <2> HIDE DEF f
  <2>5. f \in J(T)
    BY <2>4
  <2> HIDE DEF I, J
  <2> QED
    BY <1>2, <2>5 DEF f, m
<1> HIDE DEF I
<1>5. Rsa!Polls(p) \subseteq I[Rsa!Senders(p)]
  BY <1>3, <1>4, PollsWithin
<1>6. I[Rsa!Senders(p)] = J(Party \ {p})
  BY <1>1, <1>2
<1> QED
  BY <1>5, <1>6

LEMMA PollStuck ==
  ASSUME Rsa!DealerAssumption, NEW p \in Party, Party \ {p} # {},
         rsaSess[p] \in AnySession, Stuck(p, rsaSess[p]),
         \A q \in Party \ {p} : Speaks(rsaSnap[p].contribs[q], q, 6)
  PROVE  \A r \in Rsa!Polls(p) : r \in AnyResult /\ Stuck(p, r.s) /\ r.failed
<1> DEFINE J(T) == {r \in AnyResult : Stuck(p, r.s) /\ (T # {} => r.failed)}
           I == [T \in SUBSET Rsa!Senders(p) |-> J(T)]
<1>1. Rsa!Senders(p) = Party \ {p}
  BY DEF Rsa!Senders, Speaks, DataMessages
<1>2. \A T \in SUBSET Rsa!Senders(p) : I[T] = J(T)
  OBVIOUS
<1>3. PollStart(p) \in I[{}]
  <2>1. Rsa!NoKey \in AnyKey /\ Rsa!Empty \in AnyContribution
    BY DEF Rsa!NoKey, AnyKey, Rsa!Empty, AnyContribution
  <2>2. PollStart(p) \in AnyResult /\ Stuck(p, PollStart(p).s)
    BY <2>1 DEF PollStart, AnyResult
  <2>3. PollStart(p) \in J({})
    BY <2>2
  <2> HIDE DEF I, J
  <2> QED
    BY <1>2, <2>3
<1>4. ASSUME NEW T \in SUBSET Rsa!Senders(p), NEW q \in T, NEW r \in I[T \ {q}],
             NEW garbage \in Rsa!Wrong(p, q)
      PROVE  Rsa!Feed(p, r, q, rsaSnap[p].contribs[q], garbage) \in I[T]
  <2> DEFINE m == rsaSnap[p].contribs[q]
             f == Rsa!Feed(p, r, q, m, garbage)
  <2>1. q \in Party \ {p} /\ Speaks(m, q, 6) /\ garbage \in Int
    BY <1>1, WrongInts
  <2>2. r \in J(T \ {q})
    BY <1>2
  <2>3. r \in AnyResult /\ Stuck(p, r.s)
    BY <2>2
  <2> HIDE DEF m
  <2>4. f \in AnyResult /\ Stuck(p, f.s) /\ f.failed
    BY <2>1, <2>3, FeedStuck
  <2> HIDE DEF f
  <2>5. f \in J(T)
    BY <2>4
  <2> HIDE DEF I, J
  <2> QED
    BY <1>2, <2>5 DEF f, m
<1> HIDE DEF I
<1>5. Rsa!Polls(p) \subseteq I[Rsa!Senders(p)]
  BY <1>3, <1>4, PollsWithin
<1>6. I[Rsa!Senders(p)] = J(Party \ {p})
  BY <1>1, <1>2
<1> QED
  BY <1>5, <1>6

-------------------------------------------------------------------------------
(* While nothing fails: what a party contributes to the round, and where   *)
(* it stands before and after it has.                                      *)
Offers(m, p, k) == IF k = 8 THEN m = Rsa!Complete ELSE Speaks(m, p, k + 1)
Driven(p) == rsaRound \in rsaSubmitted[p] \/ rsaPc[p] \in {"submitting", "persisting"}
RsaBefore(p, k) ==
  /\ rsaCompleted[p] = Rsa!NoKey
  /\ k = 0 => rsaSess[p] = Rsa!NoSession /\ p \notin rsaInited /\ rsaDraws[p] = 0
  /\ k # 0 => RsaAt(p, rsaSess[p], k) \/ (k = 6 /\ Stuck(p, rsaSess[p]))
After(p, k) ==
  /\ k = 8 => rsaSess[p] = Rsa!NoSession
  /\ k # 8 => RsaAt(p, rsaSess[p], k + 1) /\ rsaCompleted[p] = Rsa!NoKey
Peer(p) ==
  /\ rsaSubmitted[p] \subseteq 0 .. rsaRound
  /\ IF rsaRound \in rsaSubmitted[p] THEN Offers(rsaInbox[p], p, rsaRound) ELSE rsaInbox[p] = Rsa!NoContribution
  /\ rsaPc[p] \in {"submitting", "persisting"} => rsaSnap[p].round = rsaRound /\ rsaRound \notin rsaSubmitted[p]
  /\ rsaPc[p] = "submitting" => Offers(rsaOut[p], p, rsaRound)
  /\ rsaPc[p] = "persisting" => rsaRound = 8
  /\ rsaPc[p] = "polled" /\ rsaSnap[p].round \notin rsaSubmitted[p]
       => rsaSnap[p].round = rsaRound /\ rsaSnap[p].contribs = rsaContribs
  /\ IF Driven(p) THEN After(p, rsaRound) ELSE RsaBefore(p, rsaRound)
Task ==
  /\ rsaRound \in 0 .. 8
  /\ rsaRound > 0 => \A q \in Party : Speaks(rsaContribs[q], q, rsaRound)
  /\ rsaDone => \A q \in Party : rsaRound \in rsaSubmitted[q]
Lock ==
  /\ rsaFaults \in Nat
  /\ rsaSubmitted \in [Party -> SUBSET Nat]
  /\ rsaFaults = 0 => Task /\ \A p \in Party : Peer(p)

LEMMA LockInStep == ASSUME Rsa!DealerAssumption, Lock PROVE Rsa!InStep
<1> SUFFICES ASSUME rsaFaults = 0, NEW p \in Party
             PROVE  /\ rsaSess[p].phase # Rsa!Crashed
                    /\ rsaRound > 0 => rsaContribs[p].kind = "data" /\ rsaContribs[p].phase = rsaRound
  BY DEF Rsa!InStep
<1>1. Task /\ Peer(p)
  BY DEF Lock
<1>2. rsaRound > 0 => rsaContribs[p].kind = "data" /\ rsaContribs[p].phase = rsaRound
  BY <1>1 DEF Task, Speaks, DataMessages
<1>3. rsaSess[p].phase # 9
  <2>1. CASE Driven(p)
    BY <1>1, <2>1, NoSessionShape DEF Peer, After, RsaAt, Task
  <2>2. CASE ~Driven(p)
    BY <1>1, <2>2, NoSessionShape DEF Peer, RsaBefore, RsaAt, Stuck, Task
  <2> QED
    BY <2>1, <2>2
<1> QED
  BY <1>2, <1>3 DEF Rsa!Crashed

LEMMA InitLock == ASSUME Rsa!Init PROVE Lock
<1>1. rsaFaults = 0 /\ rsaRound = 0 /\ rsaDone = FALSE /\ rsaSubmitted = [p \in Party |-> {}]
  BY DEF Rsa!Init, Rsa!InitRounds
<1>2. Task
  BY <1>1 DEF Task
<1>3. ASSUME NEW p \in Party PROVE Peer(p)
  BY <1>1 DEF Peer, Driven, RsaBefore, Rsa!Init, Rsa!InitRounds
<1> QED
  BY <1>1, <1>2, <1>3 DEF Lock

Kept(q) ==
  /\ rsaSubmitted'[q] = rsaSubmitted[q] /\ rsaInbox'[q] = rsaInbox[q] /\ rsaPc'[q] = rsaPc[q]
  /\ rsaSnap'[q] = rsaSnap[q] /\ rsaOut'[q] = rsaOut[q] /\ rsaSess'[q] = rsaSess[q]
  /\ rsaCompleted'[q] = rsaCompleted[q] /\ rsaDraws'[q] = rsaDraws[q] /\ (q \in rsaInited' <=> q \in rsaInited)

LEMMA PeerKept ==
  ASSUME NEW q, UNCHANGED <<rsaRound, rsaContribs>>, Kept(q), Peer(q) PROVE Peer(q)'
<1>1. Driven(q)' <=> Driven(q)
  BY DEF Driven, Kept
<1>2. RsaBefore(q, rsaRound) => RsaBefore(q, rsaRound)'
  BY DEF RsaBefore, Kept
<1>3. After(q, rsaRound) => After(q, rsaRound)'
  BY DEF After, Kept
<1> QED
  BY <1>1, <1>2, <1>3 DEF Peer, Kept

(* A step of p while nothing fails.                                        *)
LEMMA LockTick ==
  ASSUME Lock, NEW p \in Party, UNCHANGED <<rsaRound, rsaContribs, rsaDone, rsaFaults>>,
         rsaSubmitted' = rsaSubmitted \/ rsaSubmitted' = [rsaSubmitted EXCEPT ![p] = @ \cup {rsaSnap[p].round}],
         rsaSnap[p].round \in Nat,
         rsaFaults = 0 => Peer(p)' /\ \A q \in Party \ {p} : Kept(q)
  PROVE  Lock'
<1>1. rsaSubmitted' \in [Party -> SUBSET Nat] /\ \A q \in Party : rsaSubmitted[q] \subseteq rsaSubmitted'[q]
  BY DEF Lock
<1>2. ASSUME rsaFaults = 0 PROVE Task' /\ \A q \in Party : Peer(q)'
  <2>1. Task /\ \A q \in Party : Peer(q)
    BY <1>2 DEF Lock
  <2>2. Task'
    BY <1>1, <2>1 DEF Task
  <2>3. \A q \in Party \ {p} : Peer(q)'
    BY <1>2, <2>1, PeerKept
  <2> QED
    BY <1>2, <2>2, <2>3
<1> QED
  BY <1>1, <1>2 DEF Lock

(* The session of a party begins.                                          *)
LEMMA BeginAt ==
  ASSUME NEW p \in Party
  PROVE  LET s == [Rsa!NoSession EXCEPT !.phase = 1, !.pk[p] = 1]
         IN  RsaAt(p, s, 1)
<1> DEFINE s == [Rsa!NoSession EXCEPT !.phase = 1, !.pk[p] = 1]
<1>1. /\ s.phase = 1 /\ s.cross = Rsa!NoSession.cross /\ s.back = {}
      /\ s.evals = Rsa!NoSession.evals /\ s.lambda = 0 /\ s.heard = Rsa!NoSession.heard
      /\ s.pk = [Rsa!Zeros EXCEPT ![p] = 1]
  BY DEF Rsa!NoSession
<1>2. \A q \in Party : s.pk[q] = IF q = p THEN 1 ELSE 0
  BY <1>1 DEF Rsa!Zeros
<1> HIDE DEF s
<1>3. /\ \A q \in Party : s.cross[q] = -1 /\ s.evals[q] = 0
      /\ \A q \in Party, k \in 1 .. 8 : s.heard[q][k] = -1
  BY <1>1, NoSessionShape DEF Rsa!Zeros
<1>4. Ears(s, 1, {})
  BY <1>3 DEF Ears
<1>5. Mind(p, s, 1, {})
  BY <1>1, <1>2, <1>3 DEF Mind
<1> QED
  BY <1>1, <1>4, <1>5 DEF RsaAt, s

LEMMA BeginSpeaks ==
  ASSUME NEW p \in Party PROVE Speaks(Rsa!ToAll(1, 1), p, 1) /\ Rsa!ToAll(1, 1) \in AnyContribution
<1> DEFINE to == [q \in Party |-> 1]
<1>1. to \in [Party -> Int] /\ \A q \in Party : to[q] = 1
  OBVIOUS
<1> HIDE DEF to
<1>2. Rsa!Data(1, to) \in DataMessages /\ Rsa!Data(1, to).phase = 1 /\ Rsa!Data(1, to).to = to
  BY <1>1, MessageShapes
<1>3. Says(p, 1) = 1
  BY DEF Says
<1> QED
  BY <1>1, <1>2, <1>3 DEF Speaks, Rsa!ToAll, AnyContribution, to

LEMMA InitRound0Lock ==
  ASSUME Rsa!DealerAssumption, Inv, Lock, NEW p \in Party, Rsa!InitRound0(p)
  PROVE  Lock'
<1>1. /\ rsaDraws' = [rsaDraws EXCEPT ![p] = @ + 1] /\ rsaInited' = rsaInited \cup {p} /\ p \notin rsaInited
      /\ rsaSess' = [rsaSess EXCEPT ![p] = [Rsa!NoSession EXCEPT !.phase = 1, !.pk[p] = rsaDraws[p] + 1]]
      /\ rsaOut' = [rsaOut EXCEPT ![p] = Rsa!ToAll(1, rsaDraws[p] + 1)]
      /\ rsaPc' = [rsaPc EXCEPT ![p] = "submitting"]
      /\ rsaPc[p] = "polled" /\ rsaSnap[p].round = 0 /\ rsaSnap[p].round \notin rsaSubmitted[p]
      /\ UNCHANGED <<rsaRound, rsaInbox, rsaContribs, rsaDone, rsaSnap, rsaSubmitted,
                     rsaFaults, rsaCompleted>>
  BY DEF Rsa!InitRound0, Rsa!StartSession, Rsa!Submit, Rsa!Processing, Rsa!serverVars
<1>2. Shape
  BY DEF Inv
<1>3. ASSUME rsaFaults = 0 PROVE Peer(p)' /\ \A q \in Party \ {p} : Kept(q)
  <2>1. Peer(p) /\ Task
    BY <1>3 DEF Lock
  <2>2. rsaRound = 0 /\ 0 \notin rsaSubmitted[p] /\ ~Driven(p)
    BY <1>1, <2>1 DEF Peer, Driven
  <2>3. rsaDraws[p] = 0 /\ rsaCompleted[p] = Rsa!NoKey
    BY <2>1, <2>2 DEF Peer, RsaBefore
  <2>4. rsaSess'[p] = [Rsa!NoSession EXCEPT !.phase = 1, !.pk[p] = 1] /\ rsaOut'[p] = Rsa!ToAll(1, 1)
        /\ rsaPc'[p] = "submitting"
    BY <1>1, <1>2, <2>3 DEF Shape
  <2>5. RsaAt(p, rsaSess'[p], 1)
    BY <2>4, BeginAt
  <2>6. After(p, rsaRound)'
    BY <1>1, <2>2, <2>3, <2>5 DEF After
  <2>7. Offers(rsaOut'[p], p, 0)
    BY <2>4, BeginSpeaks DEF Offers
  <2>8. Driven(p)'
    BY <2>4 DEF Driven
  <2>9. Peer(p)'
    BY <1>1, <2>1, <2>2, <2>4, <2>6, <2>7, <2>8 DEF Peer
  <2>10. \A q \in Party \ {p} : Kept(q)
    BY <1>1, <1>2 DEF Kept, Shape
  <2> QED
    BY <2>9, <2>10
<1> QED
  BY <1>1, <1>3, LockTick

LEMMA DriveLock ==
  ASSUME Rsa!DealerAssumption, Party # {Dealer}, Inv, Lock, NEW p \in Party, Rsa!Drive(p)
  PROVE  Lock'
<1>1. PICK r \in Rsa!Polls(p) :
        /\ rsaSess' = [rsaSess EXCEPT ![p] = r.s]
        /\ IF r.failed THEN Rsa!Throw(p) /\ UNCHANGED <<rsaInited, rsaCompleted>>
           ELSE IF r.key = Rsa!NoKey THEN Rsa!Submit(p, r.last) /\ UNCHANGED <<rsaInited,
                                                                               rsaCompleted>>
           ELSE /\ rsaCompleted' = [rsaCompleted EXCEPT ![p] = r.key]
                /\ rsaInited' = rsaInited \ {p}
                /\ Rsa!Await(p, "persisting")
  BY DEF Rsa!Drive
<1>2. /\ rsaPc[p] = "polled" /\ rsaSnap[p].round > 0 /\ rsaSnap[p].round \notin rsaSubmitted[p]
      /\ UNCHANGED rsaDraws
  BY DEF Rsa!Drive, Rsa!Processing
<1>3. Shape /\ Party \ {p} # {} /\ rsaSnap[p].round \in Nat
  BY DEF Inv, Shape, AnyTask, Rsa!DealerAssumption
<1>4. UNCHANGED <<rsaRound, rsaInbox, rsaContribs, rsaDone, rsaSubmitted, rsaFaults>>
  BY <1>1 DEF Rsa!Throw, Rsa!EndTick, Rsa!Submit, Rsa!Await, Rsa!serverVars
<1>5. ASSUME rsaFaults = 0 PROVE Peer(p)' /\ \A q \in Party \ {p} : Kept(q)
  <2> DEFINE k == rsaRound
  <2>1. Peer(p) /\ Task
    BY <1>5 DEF Lock
  <2>2. /\ rsaSnap[p].round = k /\ rsaSnap[p].contribs = rsaContribs /\ k \in 1 .. 8
        /\ k \notin rsaSubmitted[p] /\ ~Driven(p)
    BY <1>2, <2>1 DEF Peer, Task, Driven
  <2>3. rsaCompleted[p] = Rsa!NoKey /\ (RsaAt(p, rsaSess[p], k) \/ (k = 6 /\ Stuck(p, rsaSess[p])))
    BY <2>1, <2>2 DEF Peer, RsaBefore
  <2>4. \A q \in Party \ {p} : Speaks(rsaSnap[p].contribs[q], q, k)
    BY <2>1, <2>2 DEF Task
  <2>5. rsaSess[p] \in AnySession
    BY <1>3 DEF Shape
  <2>6. Through(p, r, k) \/ (k = 6 /\ Stuck(p, r.s) /\ r.failed)
    <3> HIDE DEF k
    <3>1. CASE RsaAt(p, rsaSess[p], k)
      BY <1>3, <2>2, <2>4, <2>5, <3>1, PollStep
    <3>2. CASE k = 6 /\ Stuck(p, rsaSess[p])
      BY <1>3, <2>4, <2>5, <3>2, PollStuck
    <3> QED
      BY <2>3, <3>1, <3>2
  <2>7. rsaSess'[p] = r.s
    BY <1>1, <1>3 DEF Shape
  <2>8. CASE k = 6 /\ r.failed /\ Stuck(p, r.s)
    <3>1. /\ rsaPc'[p] = "idle" /\ UNCHANGED <<rsaInited, rsaCompleted>>
          /\ \A q \in Party \ {p} : rsaPc'[q] = rsaPc[q] /\ rsaSnap'[q] = rsaSnap[q] /\ rsaOut'[q] = rsaOut[q]
      BY <1>1, <1>3, <2>8 DEF Rsa!Throw, Rsa!EndTick, Shape
    <3>2. ~Driven(p)' /\ RsaBefore(p, rsaRound)'
      BY <1>4, <2>2, <2>3, <2>7, <2>8, <3>1 DEF Driven, RsaBefore
    <3>3. Peer(p)'
      BY <1>4, <2>1, <2>2, <3>1, <3>2 DEF Peer
    <3>4. \A q \in Party \ {p} : Kept(q)
      BY <1>1, <1>2, <1>3, <1>4, <3>1 DEF Kept, Shape
    <3> QED
      BY <3>3, <3>4
  <2>9. CASE /\ k < 8 /\ ~r.failed /\ r.key = Rsa!NoKey
             /\ r.s.phase = k + 1 /\ Ears(r.s, k + 1, {}) /\ Mind(p, r.s, k + 1, {})
             /\ Speaks(r.last, p, k + 1)
    <3>1. /\ rsaPc'[p] = "submitting" /\ rsaOut'[p] = r.last /\ UNCHANGED <<rsaSnap,
                                                                            rsaInited,
                                                                            rsaCompleted>>
          /\ \A q \in Party \ {p} : rsaPc'[q] = rsaPc[q] /\ rsaOut'[q] = rsaOut[q]
      BY <1>1, <1>3, <2>9 DEF Rsa!Submit, Shape
    <3>2. Driven(p)' /\ After(p, rsaRound)'
      BY <1>4, <2>2, <2>3, <2>7, <2>9, <3>1 DEF Driven, After, RsaAt
    <3>3. Peer(p)'
      BY <1>4, <2>1, <2>2, <2>9, <3>1, <3>2 DEF Peer, Offers
    <3>4. \A q \in Party \ {p} : Kept(q)
      BY <1>1, <1>2, <1>3, <1>4, <3>1 DEF Kept, Shape
    <3> QED
      BY <3>3, <3>4
  <2>10. CASE k = 8 /\ ~r.failed /\ r.s = Rsa!NoSession /\ r.key # Rsa!NoKey
    <3>1. /\ rsaPc'[p] = "persisting" /\ UNCHANGED <<rsaSnap, rsaOut>>
          /\ \A q \in Party \ {p} : /\ rsaPc'[q] = rsaPc[q] /\ rsaCompleted'[q] = rsaCompleted[q]
                                    /\ (q \in rsaInited' <=> q \in rsaInited)
      BY <1>1, <1>3, <2>10 DEF Rsa!Await, Shape
    <3>2. Driven(p)' /\ After(p, rsaRound)'
      BY <1>4, <2>2, <2>7, <2>10, <3>1 DEF Driven, After
    <3>3. Peer(p)'
      BY <1>4, <2>1, <2>2, <2>10, <3>1, <3>2 DEF Peer
    <3>4. \A q \in Party \ {p} : Kept(q)
      BY <1>1, <1>2, <1>3, <1>4, <3>1 DEF Kept, Shape
    <3> QED
      BY <3>3, <3>4
  <2> QED
    BY <2>6, <2>8, <2>9, <2>10 DEF Through
<1> QED
  BY <1>3, <1>4, <1>5, LockTick

(* The steps of a tick that leave where the party stands.                  *)
LEMMA StandingKept ==
  ASSUME NEW p \in Party, Peer(p), UNCHANGED <<rsaRound, rsaSess, rsaCompleted, rsaInited,
                                               rsaDraws>>,
         Driven(p)' <=> Driven(p)
  PROVE  IF Driven(p)' THEN After(p, rsaRound)' ELSE RsaBefore(p, rsaRound)'
<1>1. After(p, rsaRound) => After(p, rsaRound)'
  BY DEF After
<1>2. RsaBefore(p, rsaRound) => RsaBefore(p, rsaRound)'
  BY DEF RsaBefore
<1> QED
  BY <1>1, <1>2 DEF Peer

LEMMA ListTasksLock ==
  ASSUME Inv, Lock, NEW p \in Party, Rsa!ListTasks(p), UNCHANGED <<Rsa!goVars, rsaStore>>
  PROVE  Lock'
<1>1. /\ rsaPc[p] = "idle" /\ rsaPc' = [rsaPc EXCEPT ![p] = "polled"]
      /\ rsaSnap' = [rsaSnap EXCEPT ![p] = [round |-> rsaRound, contribs |-> rsaContribs]]
      /\ UNCHANGED <<rsaRound, rsaContribs, rsaInbox, rsaDone, rsaOut, rsaSubmitted,
                     rsaFaults, rsaSess, rsaInited,
                     rsaCompleted, rsaDraws>>
  BY DEF Rsa!ListTasks, Rsa!serverVars, Rsa!goVars
<1>2. Shape /\ rsaSnap[p].round \in Nat
  BY DEF Inv, Shape, AnyTask
<1>3. ASSUME rsaFaults = 0 PROVE Peer(p)' /\ \A q \in Party \ {p} : Kept(q)
  <2>1. Peer(p)
    BY <1>3 DEF Lock
  <2>2. rsaPc'[p] = "polled" /\ rsaSnap'[p].round = rsaRound /\ rsaSnap'[p].contribs = rsaContribs
    BY <1>1, <1>2 DEF Shape
  <2>3. Driven(p)' <=> Driven(p)
    BY <1>1, <2>2 DEF Driven
  <2>4. IF Driven(p)' THEN After(p, rsaRound)' ELSE RsaBefore(p, rsaRound)'
    BY <1>1, <2>1, <2>3, StandingKept
  <2>5. Peer(p)'
    BY <1>1, <2>1, <2>2, <2>4 DEF Peer
  <2>6. \A q \in Party \ {p} : Kept(q)
    BY <1>1, <1>2 DEF Kept, Shape
  <2> QED
    BY <2>5, <2>6
<1> QED
  BY <1>1, <1>2, <1>3, LockTick

LEMMA SkipLock ==
  ASSUME Inv, Lock, NEW p \in Party, Rsa!SkipSubmitted(p), UNCHANGED <<Rsa!goVars,
                                                                       rsaStore>>
  PROVE  Lock'
<1>1. /\ rsaPc[p] = "polled" /\ rsaPc' = [rsaPc EXCEPT ![p] = "idle"]
      /\ rsaSnap' = [rsaSnap EXCEPT ![p] = Rsa!NoTask] /\ rsaOut' = [rsaOut EXCEPT ![p] = Rsa!NoContribution]
      /\ UNCHANGED <<rsaRound, rsaContribs, rsaInbox, rsaDone, rsaSubmitted, rsaFaults,
                     rsaSess, rsaInited,
                     rsaCompleted, rsaDraws>>
  BY DEF Rsa!SkipSubmitted, Rsa!EndTick, Rsa!serverVars, Rsa!goVars
<1>2. Shape /\ rsaSnap[p].round \in Nat
  BY DEF Inv, Shape, AnyTask
<1>3. ASSUME rsaFaults = 0 PROVE Peer(p)' /\ \A q \in Party \ {p} : Kept(q)
  <2>1. Peer(p)
    BY <1>3 DEF Lock
  <2>2. rsaPc'[p] = "idle"
    BY <1>1, <1>2 DEF Shape
  <2>3. Driven(p)' <=> Driven(p)
    BY <1>1, <2>2 DEF Driven
  <2>4. IF Driven(p)' THEN After(p, rsaRound)' ELSE RsaBefore(p, rsaRound)'
    BY <1>1, <2>1, <2>3, StandingKept
  <2>5. Peer(p)'
    BY <1>1, <2>1, <2>2, <2>4 DEF Peer
  <2>6. \A q \in Party \ {p} : Kept(q)
    BY <1>1, <1>2 DEF Kept, Shape
  <2> QED
    BY <2>5, <2>6
<1> QED
  BY <1>1, <1>2, <1>3, LockTick

LEMMA UpdateTaskLock ==
  ASSUME Inv, Lock, NEW p \in Party, Rsa!UpdateTask(p), UNCHANGED <<Rsa!goVars, rsaStore>>
  PROVE  Lock'
<1>1. /\ rsaPc[p] = "submitting" /\ rsaPc' = [rsaPc EXCEPT ![p] = "idle"]
      /\ rsaSnap' = [rsaSnap EXCEPT ![p] = Rsa!NoTask] /\ rsaOut' = [rsaOut EXCEPT ![p] = Rsa!NoContribution]
      /\ rsaSubmitted' = [rsaSubmitted EXCEPT ![p] = @ \cup {rsaSnap[p].round}]
      /\ UNCHANGED <<rsaRound, rsaContribs, rsaDone, rsaFaults, rsaSess, rsaInited,
                     rsaCompleted, rsaDraws>>
  BY DEF Rsa!UpdateTask, Rsa!EndTick, Rsa!goVars
<1>2. rsaInbox' = [rsaInbox EXCEPT ![p] = rsaOut[p]] \/ (Rsa!MayIgnore(p) /\ rsaInbox' = rsaInbox)
  BY DEF Rsa!UpdateTask, Rsa!Recorded
<1>3. Shape /\ rsaSnap[p].round \in Nat
  BY DEF Inv, Shape, AnyTask
<1>4. ASSUME rsaFaults = 0 PROVE Peer(p)' /\ \A q \in Party \ {p} : Kept(q)
  <2>1. Peer(p) /\ Task /\ rsaSubmitted \in [Party -> SUBSET Nat]
    BY <1>4 DEF Lock
  <2>2. rsaSnap[p].round = rsaRound /\ rsaRound \notin rsaSubmitted[p] /\ Offers(rsaOut[p], p, rsaRound)
        /\ Driven(p) /\ After(p, rsaRound) /\ rsaInbox[p] = Rsa!NoContribution /\ ~rsaDone
    BY <1>1, <2>1 DEF Peer, Driven, Task
  <2>3. ~Rsa!MayIgnore(p)
    BY <2>2 DEF Rsa!MayIgnore, Rsa!NoContribution
  <2>4. rsaInbox'[p] = rsaOut[p] /\ rsaSubmitted'[p] = rsaSubmitted[p] \cup {rsaRound} /\ rsaPc'[p] = "idle"
    BY <1>1, <1>2, <1>3, <2>1, <2>2, <2>3 DEF Shape
  <2>5. Driven(p)'
    BY <1>1, <2>4 DEF Driven
  <2>6. After(p, rsaRound)'
    BY <1>1, <2>2 DEF After
  <2>7. rsaRound \in Nat
    BY <1>3 DEF Shape
  <2>8. Peer(p)'
    BY <1>1, <2>1, <2>2, <2>4, <2>5, <2>6, <2>7 DEF Peer
  <2>9. \A q \in Party \ {p} : Kept(q)
    BY <1>1, <1>2, <1>3, <2>1 DEF Kept, Shape
  <2> QED
    BY <2>8, <2>9
<1> QED
  BY <1>1, <1>3, <1>4, LockTick

LEMMA PersistLock ==
  ASSUME Inv, Lock, NEW p \in Party, Rsa!PersistShare(p)
  PROVE  Lock'
<1>1. /\ rsaPc[p] = "persisting" /\ rsaPc' = [rsaPc EXCEPT ![p] = "submitting"]
      /\ rsaOut' = [rsaOut EXCEPT ![p] = Rsa!Complete]
      /\ UNCHANGED <<rsaRound, rsaContribs, rsaInbox, rsaDone, rsaSnap, rsaSubmitted,
                     rsaFaults, rsaSess, rsaInited,
                     rsaCompleted, rsaDraws>>
  BY DEF Rsa!PersistShare, Rsa!Submit, Rsa!serverVars, Rsa!goVars
<1>2. Shape /\ rsaSnap[p].round \in Nat
  BY DEF Inv, Shape, AnyTask
<1>3. ASSUME rsaFaults = 0 PROVE Peer(p)' /\ \A q \in Party \ {p} : Kept(q)
  <2>1. Peer(p)
    BY <1>3 DEF Lock
  <2>2. rsaPc'[p] = "submitting" /\ rsaOut'[p] = Rsa!Complete /\ rsaRound = 8
    BY <1>1, <1>2, <2>1 DEF Shape, Peer
  <2>3. Driven(p)' <=> Driven(p)
    BY <1>1, <2>2 DEF Driven
  <2>4. IF Driven(p)' THEN After(p, rsaRound)' ELSE RsaBefore(p, rsaRound)'
    BY <1>1, <2>1, <2>3, StandingKept
  <2>5. Offers(rsaOut'[p], p, rsaRound)
    BY <2>2 DEF Offers
  <2>6. Peer(p)'
    BY <1>1, <2>1, <2>2, <2>4, <2>5 DEF Peer
  <2>7. \A q \in Party \ {p} : Kept(q)
    BY <1>1, <1>2 DEF Kept, Shape
  <2> QED
    BY <2>6, <2>7
<1> QED
  BY <1>1, <1>2, <1>3, LockTick

(* Nothing is submitted again while nothing fails.                         *)
LEMMA ResubmitLock ==
  ASSUME Lock, NEW p \in Party, Rsa!ReemitCompletion(p) \/ Rsa!ResubmitRound0(p)
  PROVE  Lock'
<1>1. /\ rsaPc[p] = "polled" /\ rsaSnap[p].round \notin rsaSubmitted[p]
      /\ rsaCompleted[p] # Rsa!NoKey \/ (rsaSnap[p].round = 0 /\ p \in rsaInited)
      /\ UNCHANGED <<rsaFaults, rsaSubmitted>>
  BY DEF Rsa!ReemitCompletion, Rsa!ResubmitRound0, Rsa!Submit, Rsa!Processing
<1>2. ASSUME rsaFaults = 0 PROVE FALSE
  <2>1. Peer(p)
    BY <1>2 DEF Lock
  <2>2. rsaSnap[p].round = rsaRound /\ ~Driven(p)
    BY <1>1, <2>1 DEF Peer, Driven
  <2> QED
    BY <1>1, <2>1, <2>2 DEF Peer, RsaBefore
<1> QED
  BY <1>1, <1>2 DEF Lock

LEMMA FaultLock ==
  ASSUME Lock, NEW p \in Party, Rsa!Fault(p)
  PROVE  Lock'
<1>1. rsaFaults' = rsaFaults + 1
  BY DEF Rsa!Fault, Rsa!UpdateTaskFails, Rsa!PersistFails, Rsa!AwaitFails,
         Rsa!SessionExpires, Rsa!Restart, Rsa!LoseTick
<1>2. rsaSubmitted' = rsaSubmitted \/ rsaSubmitted' = [rsaSubmitted EXCEPT ![p] = {}]
  BY DEF Rsa!Fault, Rsa!UpdateTaskFails, Rsa!PersistFails, Rsa!AwaitFails,
         Rsa!SessionExpires, Rsa!Restart, Rsa!LoseTick
<1>3. rsaFaults' \in Nat /\ rsaFaults' # 0
  BY <1>1 DEF Lock
<1>4. rsaSubmitted' \in [Party -> SUBSET Nat]
  BY <1>2 DEF Lock
<1> QED
  BY <1>3, <1>4 DEF Lock

LEMMA ServerLock ==
  ASSUME Rsa!DealerAssumption, Inv, Lock, Rsa!Server, UNCHANGED <<Rsa!goVars, rsaStore>>
  PROVE  Lock'
<1>1. UNCHANGED <<rsaPc, rsaSnap, rsaOut, rsaSubmitted, rsaFaults, rsaSess, rsaInited,
                  rsaCompleted, rsaDraws>>
  BY DEF Rsa!Server, Rsa!AdvanceRound, Rsa!FinishTask, Rsa!tickVars, Rsa!goVars
<1>2. Shape
  BY DEF Inv
<1>3. ASSUME rsaFaults = 0 PROVE Task' /\ \A p \in Party : Peer(p)'
  <2>1. Task /\ \A p \in Party : Peer(p)
    BY <1>3 DEF Lock
  <2>2. Rsa!Complete.kind = "complete" /\ Rsa!NoContribution.kind = "none"
    BY DEF Rsa!Complete, Rsa!NoContribution
  <2>3. CASE Rsa!FinishTask
    <3>1. UNCHANGED <<rsaRound, rsaInbox, rsaContribs>> /\ rsaDone' /\ Rsa!AllReported
      BY <2>3 DEF Rsa!FinishTask
    <3>2. \A p \in Party : rsaRound \in rsaSubmitted[p]
      BY <2>1, <2>2, <3>1 DEF Rsa!AllReported, Peer
    <3>3. Task'
      BY <1>1, <2>1, <3>1, <3>2 DEF Task
    <3>4. \A p \in Party : Kept(p)
      BY <1>1, <3>1 DEF Kept
    <3> QED
      BY <2>1, <3>1, <3>3, <3>4, PeerKept
  <2>4. CASE Rsa!AdvanceRound
    <3>1. /\ ~rsaDone /\ ~Rsa!AllReported /\ \A p \in Party : rsaInbox[p].kind # "none"
          /\ rsaRound' = rsaRound + 1 /\ rsaContribs' = rsaInbox /\ rsaDone' = rsaDone
          /\ rsaInbox' = [p \in Party |-> Rsa!NoContribution]
      BY <2>4 DEF Rsa!AdvanceRound
    <3>2. \A p \in Party : rsaRound \in rsaSubmitted[p] /\ Offers(rsaInbox[p], p, rsaRound)
      BY <2>1, <2>2, <3>1 DEF Peer
    <3>3. rsaRound \in 0 .. 7
      BY <2>1, <2>2, <3>1, <3>2 DEF Rsa!AllReported, Offers, Task
    <3>4. \A p \in Party : Speaks(rsaInbox[p], p, rsaRound + 1)
      BY <3>2, <3>3 DEF Offers
    <3>5. Task'
      BY <2>1, <3>1, <3>3, <3>4 DEF Task
    <3>6. ASSUME NEW p \in Party PROVE Peer(p)'
      <4>1. Peer(p) /\ rsaRound \in rsaSubmitted[p] /\ rsaSubmitted[p] \subseteq 0 .. rsaRound
        BY <2>1, <3>2 DEF Peer
      <4>2. rsaRound + 1 \notin rsaSubmitted[p] /\ rsaSubmitted[p] \subseteq 0 .. rsaRound + 1
        BY <3>3, <4>1
      <4>3. rsaPc[p] \notin {"submitting", "persisting"}
        BY <4>1 DEF Peer
      <4>4. ~Driven(p)' 
        BY <1>1, <3>1, <4>2, <4>3 DEF Driven
      <4>5. After(p, rsaRound)
        BY <4>1 DEF Peer, Driven
      <4>6. RsaBefore(p, rsaRound)'
        BY <1>1, <3>1, <3>3, <4>5 DEF After, RsaBefore
      <4>7. rsaPc[p] = "polled" => rsaSnap[p].round \in rsaSubmitted[p]
        BY <4>1 DEF Peer
      <4> QED
        BY <1>1, <3>1, <4>2, <4>3, <4>4, <4>6, <4>7 DEF Peer
    <3> QED
      BY <3>5, <3>6
  <2> QED
    BY <2>3, <2>4 DEF Rsa!Server
<1> QED
  BY <1>1, <1>3 DEF Lock

LEMMA NextLock ==
  ASSUME Rsa!DealerAssumption, Party # {Dealer}, Inv, Lock, [Rsa!Next]_(Rsa!vars)
  PROVE  Lock'
<1>1. CASE UNCHANGED Rsa!vars
  <2>1. UNCHANGED <<rsaRound, rsaInbox, rsaContribs, rsaDone, rsaPc, rsaSnap, rsaOut,
                    rsaSubmitted, rsaFaults, rsaSess,
                    rsaInited, rsaCompleted, rsaDraws>>
    BY <1>1 DEF Rsa!vars, Rsa!roundsVars, Rsa!serverVars, Rsa!tickVars, Rsa!goVars
  <2>2. Task => Task'
    BY <2>1 DEF Task
  <2>3. \A p \in Party : Kept(p)
    BY <2>1 DEF Kept
  <2>4. \A p \in Party : Peer(p) => Peer(p)'
    BY <2>1, <2>3, PeerKept
  <2> QED
    BY <2>1, <2>2, <2>4 DEF Lock
<1>2. ASSUME NEW p \in Party, Rsa!Tick(p) PROVE Lock'
  BY <1>2, ListTasksLock, SkipLock, UpdateTaskLock, ResubmitLock, InitRound0Lock, DriveLock,
     PersistLock DEF Rsa!Tick
<1>3. ASSUME NEW p \in Party, Rsa!Fault(p) PROVE Lock'
  BY <1>3, FaultLock
<1>4. CASE Rsa!Server /\ UNCHANGED <<Rsa!goVars, rsaStore>>
  BY <1>4, ServerLock
<1> QED
  BY <1>1, <1>2, <1>3, <1>4 DEF Rsa!Next

-------------------------------------------------------------------------------
(* A behaviour of MCKeyGenerations is one of RsaKeyGen too.                *)
LEMMA RsaSteps == [PartNext]_<<part, vars, rsaVars>> => [Rsa!Next]_(Rsa!vars)
<1>1. UNCHANGED rsaVars => UNCHANGED Rsa!vars
  BY DEF rsaVars, Rsa!vars, Rsa!roundsVars, Rsa!serverVars, Rsa!tickVars, Rsa!goVars
<1>2. UNCHANGED <<part, vars, rsaVars>> => UNCHANGED Rsa!vars
  BY <1>1
<1> QED
  BY <1>1, <1>2 DEF PartNext

LEMMA PartInv == PartSpec => []Inv
<1>1. PartInit => Inv
  BY InstanceAssumption, InitInv DEF PartInit
<1>2. Inv /\ [PartNext]_<<part, vars, rsaVars>> => Inv'
  <2> SUFFICES ASSUME Inv, [PartNext]_<<part, vars, rsaVars>> PROVE Inv'
    OBVIOUS
  <2> QED
    BY InstanceAssumption, NextInv, RsaSteps
<1>3. QED
  BY <1>1, <1>2, PTL DEF PartSpec

(* However many messages are lost and sidecars restarted, all the shares   *)
(* that a completed RSA key generation leaves are of one key.              *)
THEOREM RsaSharesAgree == PartSpec => []RsaAgreeOnKey
<1>1. Inv => RsaAgreeOnKey
  BY InvKeys DEF RsaAgreeOnKey
<1>2. QED
  BY <1>1, PartInv, PTL

(* While nobody restarts, lost and repeated outputs may stall the protocol *)
(* or crash a party, but a share that is stored is one of the modulus and  *)
(* the lambda of the dealer's primes.                                      *)
THEOREM RsaSharesWork == PartSpec => []RsaStoredKeysWork
<1>1. Inv => RsaStoredKeysWork
  BY InvKeys DEF RsaStoredKeysWork
<1>2. QED
  BY <1>1, PartInv, PTL

(* InitNPartyRSADKG refuses to begin with fewer than two parties.          *)
SeveralParties == Party # {Dealer}

(* While nothing fails every session is in the phase that the round is     *)
(* for, and what is in the task are messages of that phase.                *)
THEOREM RsaInStepWithTask == ASSUME SeveralParties PROVE PartSpec => []RsaInStep
<1>1. PartInit => Lock
  BY InitLock DEF PartInit
<1>2. Inv /\ Lock /\ [PartNext]_<<part, vars, rsaVars>> => Lock'
  <2> SUFFICES ASSUME Inv, Lock, [PartNext]_<<part, vars, rsaVars>> PROVE Lock'
    OBVIOUS
  <2> QED
    BY InstanceAssumption, NextLock, RsaSteps DEF SeveralParties
<1>3. Lock => RsaInStep
  BY InstanceAssumption, LockInStep DEF RsaInStep
<1>4. QED
  BY <1>1, <1>2, <1>3, PartInv, PTL DEF PartSpec

===============================================================================
