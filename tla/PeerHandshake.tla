---------------------------- MODULE PeerHandshake -----------------------------
(***************************************************************************)
(* The end-to-end handshake that every pair of sidecars of a task performs *)
(* before PollLoop dispatches the task: PollLoop.ensureE2EESessions        *)
(* fetches the hellos and the acks of the task from the server, which      *)
(* deletes what it hands out, and gives every peer its slice;              *)
(* PeerChannel drives one pair.  The lower sidecar id sends the hello, the *)
(* higher one answers with the ack.                                        *)
(*                                                                         *)
(* A tick is asynchronous between its calls, so each call is a step of its *)
(* own and the ticks of different sidecars interleave:                     *)
(*                                                                         *)
(*   idle --> hellos --> acks --> peers (one step per peer) --> idle       *)
(*                                                                         *)
(* The double ratchet (channelwasm) is external.  Its contract here: every *)
(* message has an index in its sender's chain, a chain starts afresh with  *)
(* the session, and a receiver opens each index once.  X3DH and ratchet    *)
(* are seeded with long-term keys only (establishSession passes the signed *)
(* pre-key as ephemeral), so a re-established session equals the first     *)
(* one and can open what was meant for it.                                 *)
(***************************************************************************)
EXTENDS Naturals

CONSTANTS
  Sidecar,      \* the sidecars of the tasks, numbered in the order of their ids
  Task,         \* the tasks AWAITING_CLIENT, all with the same participants
  NoTask,       \* what an idle tick works on
  FaultKinds,   \* the calls that may fail: see Faulty below
  MaxFaults,    \* bound: failed calls
  MaxRestarts   \* bound: restarts

Faulty == {"identity", "get", "getAnswer", "hello", "helloAnswer", "ack", "ackAnswer"}

ASSUME SidecarAssumption == Sidecar \subseteq Nat
ASSUME NoTaskAssumption == NoTask \notin Task
ASSUME FaultAssumption ==
  /\ FaultKinds \subseteq Faulty
  /\ MaxFaults \in Nat
  /\ MaxRestarts \in Nat

VARIABLES
  mail,        \* server: the party messages not yet handed out
  sessions,    \* PeerChannel.sessions: sessions[p][q] is p's ratchet with q
  ready,       \* PeerChannel.sessionReady, as pairs <<task, peer>>
  helloSent,   \* PeerChannel.helloSent, as pairs <<task, peer>>
  tick,        \* the tick in progress
  dispatched,  \* the tasks handed to the dispatcher in this life
  engaged,     \* history: <<task, peer>> for which a hello or ack was made
  engagedNow,  \* the part of it that this life made
  faults,
  restarts

channelVars == <<sessions, ready, helloSent>>
budgetVars  == <<faults, restarts>>
historyVars == <<engaged, engagedNow>>
vars == <<mail, sessions, ready, helloSent, tick, dispatched, engaged, engagedNow,
          faults, restarts>>

Messages == [task : Task, round : {"hello", "ack"}, from : Sidecar, to : Sidecar, n : Nat]
Ratchets == [alive : BOOLEAN, sent : Nat, got : SUBSET Nat]
NoRatchet == [alive |-> FALSE, sent |-> 0, got |-> {}]
FreshRatchet == [alive |-> TRUE, sent |-> 0, got |-> {}]
Pairs == Task \X Sidecar

Ticks == [pc : {"idle", "hellos", "acks", "peers"}, task : Task \cup {NoTask},
          hellos : SUBSET Messages, acks : SUBSET Messages,
          todo : SUBSET Sidecar, allReady : BOOLEAN]
IdleTick == [pc |-> "idle", task |-> NoTask, hellos |-> {}, acks |-> {},
             todo |-> {}, allReady |-> TRUE]

Init ==
  /\ mail = {}
  /\ sessions = [p \in Sidecar |-> [q \in Sidecar |-> NoRatchet]]
  /\ ready = [p \in Sidecar |-> {}]
  /\ helloSent = [p \in Sidecar |-> {}]
  /\ tick = [p \in Sidecar |-> IdleTick]
  /\ dispatched = [p \in Sidecar |-> {}]
  /\ engaged = [p \in Sidecar |-> {}]
  /\ engagedNow = [p \in Sidecar |-> {}]
  /\ faults = 0
  /\ restarts = 0

-------------------------------------------------------------------------------
(* A call fails, if the budget and the kinds allow it.                     *)
Fault(kind) ==
  /\ kind \in FaultKinds
  /\ faults < MaxFaults
  /\ faults' = faults + 1

(* The tick reaches a task and has fetched the identity of every peer.     *)
BeginTask(p, t) ==
  /\ tick[p].pc = "idle"
  /\ tick' = [tick EXCEPT ![p] = [IdleTick EXCEPT !.pc = "hellos", !.task = t,
                                                  !.todo = Sidecar \ {p}]]
  /\ UNCHANGED <<mail, channelVars, dispatched, historyVars, budgetVars>>

(* A GetSidecar call fails: the tick gives the task up before it has       *)
(* fetched a message.                                                      *)
IdentityFails(p) ==
  /\ tick[p].pc = "idle"
  /\ Fault("identity")
  /\ UNCHANGED <<mail, channelVars, tick, dispatched, historyVars, restarts>>

Inbox(p, t, round) == {m \in mail : m.to = p /\ m.task = t /\ m.round = round}

(* Mutant: GetPartyMessages is asked on behalf of a single peer, and what  *)
(* it consumes for the others is thrown away.                              *)
FetchHellosForOnePeer(p) ==
  LET got == Inbox(p, tick[p].task, "hello") IN
  /\ tick[p].pc = "hellos"
  /\ mail' = mail \ got
  /\ \E q \in tick[p].todo :
       tick' = [tick EXCEPT ![p].pc = "acks", ![p].hellos = {m \in got : m.from = q}]
  /\ UNCHANGED <<channelVars, dispatched, historyVars, budgetVars>>

(* GetPartyMessages for round 0, then for round 1: the server deletes what *)
(* it returns, and a failed call counts as an empty answer.                *)
FetchHellos(p) ==
  LET got == Inbox(p, tick[p].task, "hello") IN
  /\ tick[p].pc = "hellos"
  /\ \/ /\ mail' = mail \ got
        /\ tick' = [tick EXCEPT ![p].pc = "acks", ![p].hellos = got]
        /\ UNCHANGED faults
     \/ /\ tick' = [tick EXCEPT ![p].pc = "acks"]
        /\ \/ Fault("get") /\ mail' = mail
           \/ Fault("getAnswer") /\ mail' = mail \ got
  /\ UNCHANGED <<channelVars, dispatched, historyVars, restarts>>

FetchAcks(p) ==
  LET got == Inbox(p, tick[p].task, "ack") IN
  /\ tick[p].pc = "acks"
  /\ \/ /\ mail' = mail \ got
        /\ tick' = [tick EXCEPT ![p].pc = "peers", ![p].acks = got]
        /\ UNCHANGED faults
     \/ /\ tick' = [tick EXCEPT ![p].pc = "peers"]
        /\ \/ Fault("get") /\ mail' = mail
           \/ Fault("getAnswer") /\ mail' = mail \ got
  /\ UNCHANGED <<channelVars, dispatched, historyVars, restarts>>

-------------------------------------------------------------------------------
(* performHandshakeWithMessages, one call per peer.                        *)
Driving(p, q) ==
  /\ tick[p].pc = "peers"
  /\ q \in tick[p].todo

(* Mutant: the loop returns at the first peer that is not ready.           *)
PeerDoneBails(p, q, isReady) ==
  tick' = [tick EXCEPT ![p].todo = IF isReady THEN @ \ {q} ELSE {},
                       ![p].allReady = @ /\ isReady]
PeerDone(p, q, isReady) ==
  tick' = [tick EXCEPT ![p].todo = @ \ {q}, ![p].allReady = @ /\ isReady]

(* Mutant: readiness is keyed by the peer alone, as in isReady(peerId).    *)
ReadyOnce(p, q) == \E t \in Task : <<t, q>> \in ready[p]
Ready(p, q) == <<tick[p].task, q>> \in ready[p]
MarkReady(p, q) == ready' = [ready EXCEPT ![p] = @ \cup {<<tick[p].task, q>>}]
Engage(p, q) ==
  /\ engaged' = [engaged EXCEPT ![p] = @ \cup {<<tick[p].task, q>>}]
  /\ engagedNow' = [engagedNow EXCEPT ![p] = @ \cup {<<tick[p].task, q>>}]
SetSession(p, q, s) == sessions' = [sessions EXCEPT ![p][q] = s]

Hello(p, q) == [task |-> tick[p].task, round |-> "hello", from |-> p, to |-> q, n |-> 0]
Ack(p, q, n) == [task |-> tick[p].task, round |-> "ack", from |-> p, to |-> q, n |-> n]
Opens(s, msgs, q) == {m \in msgs : m.from = q /\ m.n \notin s.got}

AlreadyReady(p, q) ==
  /\ Driving(p, q)
  /\ Ready(p, q)
  /\ PeerDone(p, q, TRUE)
  /\ UNCHANGED <<mail, channelVars, dispatched, historyVars, budgetVars>>

(* The sender tries the acks of this tick against session s.               *)
CheckAcks(p, q, s) ==
  LET acks == Opens(s, tick[p].acks, q) IN
  \/ /\ acks = {}
     /\ SetSession(p, q, s)
     /\ PeerDone(p, q, FALSE)
     /\ UNCHANGED ready
  \/ \E m \in acks :
     /\ SetSession(p, q, [s EXCEPT !.got = @ \cup {m.n}])
     /\ PeerDone(p, q, TRUE)
     /\ MarkReady(p, q)

(* performSenderHandshake, first time for the task: a fresh session, the   *)
(* hello as its message 0.                                                 *)
SendHello(p, q) ==
  /\ Driving(p, q)
  /\ ~Ready(p, q)
  /\ p < q
  /\ <<tick[p].task, q>> \notin helloSent[p]
  /\ mail' = mail \cup {Hello(p, q)}
  /\ helloSent' = [helloSent EXCEPT ![p] = @ \cup {<<tick[p].task, q>>}]
  /\ Engage(p, q)
  /\ CheckAcks(p, q, [FreshRatchet EXCEPT !.sent = 1])
  /\ UNCHANGED <<dispatched, budgetVars>>

(* SendPartyMessage throws: helloSent is not updated, the acks at hand are *)
(* dropped.                                                                *)
SendHelloFails(p, q) ==
  /\ Driving(p, q)
  /\ ~Ready(p, q)
  /\ p < q
  /\ <<tick[p].task, q>> \notin helloSent[p]
  /\ \/ Fault("hello") /\ mail' = mail
     \/ Fault("helloAnswer") /\ mail' = mail \cup {Hello(p, q)}
  /\ Engage(p, q)
  /\ SetSession(p, q, [FreshRatchet EXCEPT !.sent = 1])
  /\ PeerDone(p, q, FALSE)
  /\ UNCHANGED <<ready, helloSent, dispatched, restarts>>

(* performSenderHandshake, hello already sent: only the acks matter.       *)
AwaitAck(p, q) ==
  /\ Driving(p, q)
  /\ ~Ready(p, q)
  /\ p < q
  /\ <<tick[p].task, q>> \in helloSent[p]
  /\ CheckAcks(p, q, sessions[p][q])
  /\ UNCHANGED <<mail, helloSent, dispatched, historyVars, budgetVars>>

(* performReceiverHandshake establishes a session only when it has none.   *)
HellosFrom(p, q) == {m \in tick[p].hellos : m.from = q}
Receiving(p, q) == IF sessions[p][q].alive THEN sessions[p][q] ELSE FreshRatchet

NoHello(p, q) ==
  /\ Driving(p, q)
  /\ ~Ready(p, q)
  /\ q < p
  /\ HellosFrom(p, q) = {}
  /\ PeerDone(p, q, FALSE)
  /\ UNCHANGED <<mail, channelVars, dispatched, historyVars, budgetVars>>

(* No hello of the slice decrypts: a warning, and the hello is gone.       *)
HelloUnreadable(p, q) ==
  /\ Driving(p, q)
  /\ ~Ready(p, q)
  /\ q < p
  /\ HellosFrom(p, q) # {}
  /\ Opens(Receiving(p, q), tick[p].hellos, q) = {}
  /\ SetSession(p, q, Receiving(p, q))
  /\ PeerDone(p, q, FALSE)
  /\ UNCHANGED <<mail, ready, helloSent, dispatched, historyVars, budgetVars>>

(* A hello decrypts and the ack is sent; the session is ready only if that *)
(* call resolves, a rejected call is logged like a failed decryption.      *)
AnswerHello(p, q) ==
  /\ Driving(p, q)
  /\ ~Ready(p, q)
  /\ q < p
  /\ \E m \in Opens(Receiving(p, q), tick[p].hellos, q) :
       SetSession(p, q, [Receiving(p, q) EXCEPT !.got = @ \cup {m.n}, !.sent = @ + 1])
  /\ LET ack == Ack(p, q, Receiving(p, q).sent) IN
     \/ /\ mail' = mail \cup {ack}
        /\ MarkReady(p, q)
        /\ PeerDone(p, q, TRUE)
        /\ UNCHANGED faults
     \/ /\ \/ Fault("ack") /\ mail' = mail
           \/ Fault("ackAnswer") /\ mail' = mail \cup {ack}
        /\ PeerDone(p, q, FALSE)
        /\ UNCHANGED ready
  /\ Engage(p, q)
  /\ UNCHANGED <<helloSent, dispatched, restarts>>

(* Every peer was driven: the task is dispatched if all are ready.         *)
EndTask(p) ==
  /\ tick[p].pc = "peers"
  /\ tick[p].todo = {}
  /\ dispatched' = [dispatched EXCEPT ![p] =
        IF tick[p].allReady THEN @ \cup {tick[p].task} ELSE @]
  /\ tick' = [tick EXCEPT ![p] = IdleTick]
  /\ UNCHANGED <<mail, channelVars, historyVars, budgetVars>>

(* Mutant: the ready marks of a sidecar outlive it.                        *)
KeepReady(p) == UNCHANGED ready
ForgetReady(p) == ready' = [ready EXCEPT ![p] = {}]

(* A restarted sidecar has lost its PeerChannel and the tick.              *)
Restart(p) ==
  /\ restarts < MaxRestarts
  /\ restarts' = restarts + 1
  /\ sessions' = [sessions EXCEPT ![p] = [q \in Sidecar |-> NoRatchet]]
  /\ ForgetReady(p)
  /\ helloSent' = [helloSent EXCEPT ![p] = {}]
  /\ tick' = [tick EXCEPT ![p] = IdleTick]
  /\ dispatched' = [dispatched EXCEPT ![p] = {}]
  /\ engagedNow' = [engagedNow EXCEPT ![p] = {}]
  /\ UNCHANGED <<mail, engaged, faults>>

-------------------------------------------------------------------------------
DrivePeer(p, q) ==
  \/ AlreadyReady(p, q) \/ SendHello(p, q) \/ SendHelloFails(p, q) \/ AwaitAck(p, q)
  \/ NoHello(p, q) \/ HelloUnreadable(p, q) \/ AnswerHello(p, q)

(* What a started tick does next.                                          *)
Continue(p) ==
  \/ FetchHellos(p) \/ FetchAcks(p) \/ EndTask(p)
  \/ \E q \in Sidecar : DrivePeer(p, q)

Next ==
  \E p \in Sidecar :
    \/ \E t \in Task : BeginTask(p, t)
    \/ IdentityFails(p) \/ Continue(p) \/ Restart(p)

Spec == Init /\ [][Next]_vars

(* A started tick runs to its end, and the loop over Tasks reaches every   *)
(* task again on every poll.                                               *)
Fairness ==
  \A p \in Sidecar : /\ WF_vars(Continue(p))
                     /\ \A t \in Task : SF_vars(BeginTask(p, t))
FairSpec == Spec /\ Fairness

-------------------------------------------------------------------------------
(* Type invariant of the mailbox, the channels and the ticks.              *)
TypeOK ==
  /\ mail \subseteq Messages
  /\ sessions \in [Sidecar -> [Sidecar -> Ratchets]]
  /\ ready \in [Sidecar -> SUBSET Pairs]
  /\ helloSent \in [Sidecar -> SUBSET Pairs]
  /\ tick \in [Sidecar -> Ticks]
  /\ dispatched \in [Sidecar -> SUBSET Task]
  /\ engaged \in [Sidecar -> SUBSET Pairs]
  /\ engagedNow \in [Sidecar -> SUBSET Pairs]
  /\ faults \in Nat
  /\ restarts \in Nat

(* A life of a sidecar dispatches a task only after that same life made    *)
(* its side of the handshake of that same task with every peer, and the    *)
(* peer made its own for this sidecar, whatever is lost, repeated or       *)
(* restarted: no ready mark comes from another task or survives a restart  *)
(* of the dispatcher (poll.ts:64-68, peer-channel.ts:234-248).  Of a peer, *)
(* a hello or ack that it made before it restarted itself counts.          *)
DispatchedTogether ==
  \A p \in Sidecar, t \in Task : t \in dispatched[p] =>
    \A q \in Sidecar \ {p} : <<t, q>> \in engagedNow[p] /\ <<t, p>> \in engaged[q]

(* Refuted with one restart: the peer takes part in its present life.      *)
DispatchedInOneLife ==
  \A p \in Sidecar, t \in Task : t \in dispatched[p] =>
    \A q \in Sidecar \ {p} : <<t, p>> \in engagedNow[q]

(* What makes DispatchedTogether inductive: whatever a sidecar holds of a  *)
(* peer - a message on its way, a message fetched, a ready mark - the peer *)
(* made its side of it for that task, and a tick that still believes in    *)
(* allReady has a ready mark for every peer it has driven.                 *)
MailEngaged == \A m \in mail : <<m.task, m.to>> \in engaged[m.from]

FetchedEngaged ==
  \A p \in Sidecar : \A m \in tick[p].hellos \cup tick[p].acks :
    m.task = tick[p].task /\ m.to = p /\ <<m.task, p>> \in engaged[m.from]

ReadyEngaged ==
  \A p, q \in Sidecar, t \in Task : <<t, q>> \in ready[p] => <<t, p>> \in engaged[q]

TickRuns ==
  \A p \in Sidecar : tick[p].pc # "idle" => tick[p].task \in Task

DrivenReady ==
  \A p \in Sidecar : tick[p].pc # "idle" /\ tick[p].allReady =>
    \A q \in Sidecar \ {p} : q \in tick[p].todo \/ <<tick[p].task, q>> \in ready[p]

PeersJoined ==
  \A p \in Sidecar, t \in Task : t \in dispatched[p] =>
    \A q \in Sidecar \ {p} : <<t, p>> \in engaged[q]

TogetherInv ==
  /\ MailEngaged /\ FetchedEngaged /\ ReadyEngaged /\ TickRuns /\ DrivenReady
  /\ PeersJoined

(* And what a sidecar itself knows of a task was made in its present life. *)
OwnMarks ==
  \A p, q \in Sidecar, t \in Task :
    <<t, q>> \in ready[p] \cup helloSent[p] => <<t, q>> \in engagedNow[p]

OwnDispatches ==
  \A p \in Sidecar, t \in Task : t \in dispatched[p] =>
    \A q \in Sidecar \ {p} : <<t, q>> \in engagedNow[p]

OwnInv == OwnMarks /\ OwnDispatches

(* What nobody repairs: an answer that carried messages and was lost, and  *)
(* a failed ack (peer-channel.ts:275-289, a warning).                      *)
Repairable == FaultKinds \cap {"getAnswer", "ack", "ackAnswer"} = {}

(* p has made no hello or ack for q but those of task t.                   *)
OnlyTask(p, q, t) == \A u \in Task : <<u, q>> \in engaged[p] => u = t

(* A message is handed out at most once and nobody else takes it: while    *)
(* nobody restarts and only repairable calls fail, the hello of the first  *)
(* task of a pair is in the mail or in the tick that fetched it, or its    *)
(* receiver is ready: no interleaving of the ticks loses or misreads it.   *)
NoHelloLost ==
  Repairable /\ restarts = 0 => \A p, q \in Sidecar, t \in Task :
    p < q /\ <<t, q>> \in helloSent[p] /\ OnlyTask(p, q, t) =>
      \/ \E m \in mail \cup tick[q].hellos :
           m.round = "hello" /\ m.from = p /\ m.to = q /\ m.task = t
      \/ <<t, p>> \in ready[q]

(* Every handshake of every task completes and every task is dispatched.   *)
EveryTaskDispatched ==
  \A p \in Sidecar : <>(dispatched[p] = Task)

===============================================================================
