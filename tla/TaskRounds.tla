------------------------------ MODULE TaskRounds ------------------------------
(***************************************************************************)
(* What every protocol session of a sidecar has around it: the tick of the *)
(* poll loop, the dispatcher's submittedRounds, and the QKMS server, which *)
(* collects one contribution per party and round and hands those of a      *)
(* round to everybody in the next.  A protocol module EXTENDS this one and *)
(* uses its operators as conjuncts of the actions of its session.          *)
(*                                                                         *)
(* A tick suspends at ListTasks and at UpdateTask, and wherever the        *)
(* session itself awaits; it works on the task as it was listed (snap).    *)
(* Contributions are records with a field kind: "none" (nothing submitted),*)
(* "empty" (no payload), "complete", or a kind of the protocol's.          *)
(***************************************************************************)
EXTENDS Integers, FiniteSets

CONSTANTS
  Party,       \* the sidecars of the task
  LastRound,   \* bound: the server opens no round after this one
  MaxFaults,   \* bound: failed calls and restarts together
  MaxRestarts  \* bound: restarts of a sidecar

ASSUME RoundsAssumption ==
  /\ Party # {} /\ IsFiniteSet(Party)
  /\ LastRound \in Nat /\ MaxFaults \in Nat /\ MaxRestarts \in Nat

VARIABLES
  round,       \* the server's Round of the task
  inbox,       \* contributions of the open round
  contribs,    \* partyContributions: those of the round before
  done,        \* the server has closed the task
  pc,          \* where the tick of each sidecar is suspended
  snap,        \* the task as the tick listed it
  out,         \* the ClientData of the UpdateTask in flight
  submitted,   \* TaskDispatcher.submittedRounds
  faults,      \* failed calls and restarts so far
  restarts     \* those of them that are restarts

serverVars == <<round, inbox, contribs, done>>
tickVars == <<pc, snap, out>>
roundsVars == <<serverVars, tickVars, submitted, faults, restarts>>

NoContribution == [kind |-> "none"]
Empty == [kind |-> "empty"]
Complete == [kind |-> "complete"]
NoTask == [round |-> 0, contribs |-> [p \in Party |-> NoContribution]]

InitRounds ==
  /\ round = 0
  /\ inbox = [p \in Party |-> NoContribution]
  /\ contribs = [p \in Party |-> NoContribution]
  /\ done = FALSE
  /\ pc = [p \in Party |-> "idle"]
  /\ snap = [p \in Party |-> NoTask]
  /\ out = [p \in Party |-> NoContribution]
  /\ submitted = [p \in Party |-> {}]
  /\ faults = 0
  /\ restarts = 0

-------------------------------------------------------------------------------
(* ListTasks resolves with the open task.                                  *)
ListTasks(p) ==
  /\ pc[p] = "idle"
  /\ ~done
  /\ pc' = [pc EXCEPT ![p] = "polled"]
  /\ snap' = [snap EXCEPT ![p] = [round |-> round, contribs |-> contribs]]
  /\ UNCHANGED <<serverVars, out, submitted, faults, restarts>>

(* The tick is over, by its end or by a throw that poll.ts catches.        *)
EndTick(p) ==
  /\ pc' = [pc EXCEPT ![p] = "idle"]
  /\ snap' = [snap EXCEPT ![p] = NoTask]
  /\ out' = [out EXCEPT ![p] = NoContribution]

(* dispatch returns at once for a round it has submitted ...               *)
SkipSubmitted(p) ==
  /\ pc[p] = "polled"
  /\ snap[p].round \in submitted[p]
  /\ EndTick(p)
  /\ UNCHANGED <<serverVars, submitted, faults, restarts>>

(* ... and otherwise calls process, which may throw, await something of    *)
(* its own (resuming at the given pc), or call UpdateTask.                 *)
ProcessingAgain(p) == pc[p] = "polled"      \* mutant: submittedRounds not asked
Processing(p) == pc[p] = "polled" /\ snap[p].round \notin submitted[p]

Throw(p) == EndTick(p) /\ UNCHANGED <<serverVars, submitted, faults, restarts>>

Await(p, at) ==
  /\ pc' = [pc EXCEPT ![p] = at]
  /\ UNCHANGED <<serverVars, snap, out, submitted, faults, restarts>>

Submit(p, contribution) ==
  /\ pc' = [pc EXCEPT ![p] = "submitting"]
  /\ out' = [out EXCEPT ![p] = contribution]
  /\ UNCHANGED <<serverVars, snap, submitted, faults, restarts>>

-------------------------------------------------------------------------------
(* The server's answers to a contribution: it is recorded, or, where the   *)
(* client code says nothing of what the server does, possibly ignored.     *)
Recorded(p) == [inbox EXCEPT ![p] = out[p]]
MayIgnore(p) == inbox[p].kind # "none" \/ snap[p].round # round \/ done

(* UpdateTask resolves, and dispatch remembers the round.                  *)
UpdateTask(p) ==
  /\ pc[p] = "submitting"
  /\ inbox' \in {Recorded(p)} \cup (IF MayIgnore(p) THEN {inbox} ELSE {})
  /\ submitted' = [submitted EXCEPT ![p] = @ \cup {snap[p].round}]
  /\ EndTick(p)
  /\ UNCHANGED <<round, contribs, done, faults, restarts>>

(* UpdateTask rejects: the request was lost, or only its answer was.       *)
UpdateTaskFails(p) ==
  /\ pc[p] = "submitting"
  /\ faults < MaxFaults
  /\ faults' = faults + 1
  /\ inbox' \in {Recorded(p), inbox}
  /\ EndTick(p)
  /\ UNCHANGED <<round, contribs, done, submitted, restarts>>

(* Any other awaited call rejects, and process throws.                     *)
AwaitFails(p, at) ==
  /\ pc[p] = at
  /\ faults < MaxFaults
  /\ faults' = faults + 1
  /\ EndTick(p)
  /\ UNCHANGED <<serverVars, submitted, restarts>>

(* The process or page restarts: the tick and submittedRounds are gone; an *)
(* UpdateTask in flight may have arrived.                                  *)
LoseTick(p) ==
  /\ faults < MaxFaults
  /\ restarts < MaxRestarts
  /\ faults' = faults + 1
  /\ restarts' = restarts + 1
  /\ inbox' \in {inbox} \cup (IF pc[p] = "submitting" THEN {Recorded(p)} ELSE {})
  /\ submitted' = [submitted EXCEPT ![p] = {}]
  /\ EndTick(p)
  /\ UNCHANGED <<round, contribs, done>>

(* The server closes a round all have contributed to, or the task.         *)
AllReported == \A p \in Party : inbox[p].kind = "complete"
AdvanceRound ==
  /\ ~done
  /\ round < LastRound
  /\ \A p \in Party : inbox[p].kind # "none"
  /\ ~AllReported
  /\ round' = round + 1
  /\ contribs' = inbox
  /\ inbox' = [p \in Party |-> NoContribution]
  /\ UNCHANGED <<done, tickVars, submitted, faults, restarts>>
FinishTask ==
  /\ ~done
  /\ AllReported
  /\ done' = TRUE
  /\ UNCHANGED <<round, inbox, contribs, tickVars, submitted, faults, restarts>>
Server == AdvanceRound \/ FinishTask

(* The part of a type invariant that does not depend on the protocol.      *)
RoundsTypeOK(Contribution, Places) ==
  /\ round \in 0 .. LastRound
  /\ inbox \in [Party -> Contribution]
  /\ contribs \in [Party -> Contribution]
  /\ out \in [Party -> Contribution]
  /\ done \in BOOLEAN
  /\ pc \in [Party -> {"idle", "polled", "submitting"} \cup Places]
  /\ snap \in [Party -> [round : 0 .. LastRound, contribs : [Party -> Contribution]]]
  /\ submitted \in [Party -> SUBSET (0 .. LastRound)]
  /\ faults \in 0 .. MaxFaults
  /\ restarts \in 0 .. MaxRestarts

===============================================================================
