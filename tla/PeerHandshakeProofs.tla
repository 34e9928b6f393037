-------------------------- MODULE PeerHandshakeProofs -------------------------
(***************************************************************************)
(* Proofs about the handshake: type correctness, and that a sidecar never  *)
(* dispatches a task some peer has not joined, for any number of sidecars, *)
(* tasks, failures and restarts.                                           *)
(***************************************************************************)
EXTENDS PeerHandshake, TLAPS

LEMMA DefaultTypes ==
  /\ NoRatchet \in Ratchets
  /\ FreshRatchet \in Ratchets
  /\ [FreshRatchet EXCEPT !.sent = 1] \in Ratchets
  /\ IdleTick \in Ticks
<1>1. NoRatchet \in Ratchets /\ FreshRatchet \in Ratchets
  BY DEF NoRatchet, FreshRatchet, Ratchets
<1>2. [FreshRatchet EXCEPT !.sent = 1] \in Ratchets
  BY DEF FreshRatchet, Ratchets
<1>3. IdleTick \in Ticks
  BY DEF IdleTick, Ticks
<1>4. QED
  BY <1>1, <1>2, <1>3

(* What the steps are built from keeps its type.                           *)
LEMMA PeerDoneType ==
  ASSUME TypeOK, NEW p \in Sidecar, NEW q \in Sidecar, NEW isReady \in BOOLEAN,
         PeerDone(p, q, isReady)
  PROVE  tick' \in [Sidecar -> Ticks]
<1> DEFINE rest == tick[p].todo \ {q}
<1> DEFINE both == tick[p].allReady /\ isReady
<1>1. both \in BOOLEAN
  OBVIOUS
<1>2. rest \in SUBSET Sidecar /\ tick[p] \in Ticks
  BY DEF TypeOK, Ticks
<1>3. tick' = [tick EXCEPT ![p] = [tick[p] EXCEPT !.todo = rest, !.allReady = both]]
  BY DEF PeerDone, TypeOK
<1> HIDE DEF both, rest
<1>4. [tick[p] EXCEPT !.todo = rest, !.allReady = both] \in Ticks
  BY <1>1, <1>2 DEF Ticks
<1>5. QED
  BY <1>3, <1>4 DEF TypeOK

LEMMA SetSessionType ==
  ASSUME TypeOK, NEW p \in Sidecar, NEW q \in Sidecar, NEW s \in Ratchets,
         SetSession(p, q, s)
  PROVE  sessions' \in [Sidecar -> [Sidecar -> Ratchets]]
BY DEF TypeOK, SetSession

LEMMA MarkReadyType ==
  ASSUME TypeOK, NEW p \in Sidecar, NEW q \in Sidecar, tick[p].task \in Task,
         MarkReady(p, q)
  PROVE  ready' \in [Sidecar -> SUBSET Pairs]
BY DEF TypeOK, MarkReady, Pairs

LEMMA EngageType ==
  ASSUME TypeOK, NEW p \in Sidecar, NEW q \in Sidecar, tick[p].task \in Task,
         Engage(p, q)
  PROVE  /\ engaged' \in [Sidecar -> SUBSET Pairs]
         /\ engagedNow' \in [Sidecar -> SUBSET Pairs]
BY DEF TypeOK, Engage, Pairs

LEMMA MessageType ==
  ASSUME NEW p \in Sidecar, NEW q \in Sidecar, NEW n \in Nat, tick[p].task \in Task
  PROVE  Hello(p, q) \in Messages /\ Ack(p, q, n) \in Messages
BY DEF Hello, Ack, Messages

LEMMA FaultType ==
  ASSUME TypeOK, NEW kind, Fault(kind)
  PROVE  faults' \in Nat
BY DEF TypeOK, Fault

LEMMA OpenedType ==
  ASSUME NEW s \in Ratchets, NEW msgs \in SUBSET Messages, NEW q,
         NEW m \in Opens(s, msgs, q)
  PROVE  [s EXCEPT !.got = @ \cup {m.n}] \in Ratchets
<1>1. m.n \in Nat
  BY DEF Opens, Messages
<1>2. QED
  BY <1>1 DEF Ratchets

LEMMA AnsweredType ==
  ASSUME NEW s \in Ratchets, NEW n \in Nat
  PROVE  [s EXCEPT !.got = @ \cup {n}, !.sent = @ + 1] \in Ratchets
<1> DEFINE got == s.got \cup {n}
<1> DEFINE sent == s.sent + 1
<1>1. got \in SUBSET Nat /\ sent \in Nat
  BY DEF Ratchets
<1> HIDE DEF got, sent
<1>2. [s EXCEPT !.got = got, !.sent = sent] \in Ratchets
  BY <1>1 DEF Ratchets
<1>3. QED
  BY <1>2 DEF got, sent

LEMMA FetchedType ==
  ASSUME NEW tk \in Ticks, NEW got \in SUBSET Messages
  PROVE  /\ [tk EXCEPT !.pc = "acks"] \in Ticks
         /\ [tk EXCEPT !.pc = "acks", !.hellos = got] \in Ticks
         /\ [tk EXCEPT !.pc = "peers"] \in Ticks
         /\ [tk EXCEPT !.pc = "peers", !.acks = got] \in Ticks
<1>1. tk.hellos \in SUBSET Messages /\ tk.acks \in SUBSET Messages
  BY DEF Ticks
<1>2. [tk EXCEPT !.pc = "acks"] \in Ticks
  BY <1>1 DEF Ticks
<1>3. [tk EXCEPT !.pc = "acks", !.hellos = got] \in Ticks
  BY <1>1 DEF Ticks
<1>4. [tk EXCEPT !.pc = "peers"] \in Ticks
  BY <1>1 DEF Ticks
<1>5. [tk EXCEPT !.pc = "peers", !.acks = got] \in Ticks
  BY <1>1 DEF Ticks
<1>6. QED
  BY <1>2, <1>3, <1>4, <1>5

LEMMA CheckAcksType ==
  ASSUME TypeOK, NEW p \in Sidecar, NEW q \in Sidecar, tick[p].task \in Task,
         NEW s \in Ratchets, CheckAcks(p, q, s)
  PROVE  /\ sessions' \in [Sidecar -> [Sidecar -> Ratchets]]
         /\ ready' \in [Sidecar -> SUBSET Pairs]
         /\ tick' \in [Sidecar -> Ticks]
<1>1. tick[p].acks \in SUBSET Messages
  BY DEF TypeOK, Ticks
<1>2. CASE Opens(s, tick[p].acks, q) = {}
  BY <1>2, SetSessionType, PeerDoneType DEF CheckAcks, TypeOK
<1>3. CASE Opens(s, tick[p].acks, q) # {}
  <2>1. PICK m \in Opens(s, tick[p].acks, q) :
          /\ SetSession(p, q, [s EXCEPT !.got = @ \cup {m.n}])
          /\ PeerDone(p, q, TRUE)
          /\ MarkReady(p, q)
    BY <1>3 DEF CheckAcks
  <2>2. [s EXCEPT !.got = @ \cup {m.n}] \in Ratchets
    BY <1>1, OpenedType
  <2>3. QED
    BY <2>1, <2>2, SetSessionType, PeerDoneType, MarkReadyType
<1>4. QED
  BY <1>2, <1>3

(* A tick that works has a task: in every step a tick either goes idle,    *)
(* starts with a task, or keeps the one it has.                            *)
TypeInv == TypeOK /\ TickRuns

LEMMA TypeInitial == Init => TypeInv
<1> SUFFICES ASSUME Init PROVE TypeInv
  OBVIOUS
<1>1. sessions \in [Sidecar -> [Sidecar -> Ratchets]] /\ tick \in [Sidecar -> Ticks]
  BY DefaultTypes DEF Init
<1>2. TickRuns
  BY DEF Init, TickRuns, IdleTick
<1>3. QED
  BY <1>1, <1>2 DEF Init, TypeInv, TypeOK

LEMMA TypeStep == TypeInv /\ [Next]_vars => TypeInv'
<1> SUFFICES ASSUME TypeInv, [Next]_vars PROVE TypeInv'
  OBVIOUS
<1> USE DEF channelVars, historyVars, budgetVars
<1>a. TypeOK /\ TickRuns
  BY DEF TypeInv
<1>b. ASSUME NEW p \in Sidecar, NEW q \in Sidecar, NEW isReady \in BOOLEAN,
             PeerDone(p, q, isReady)
      PROVE  TickRuns'
  BY <1>a, <1>b DEF TypeOK, TickRuns, PeerDone, Ticks
<1>c. ASSUME NEW p \in Sidecar, NEW q \in Sidecar, Driving(p, q)
      PROVE  tick[p].task \in Task
  BY <1>a, <1>c DEF TickRuns, Driving
<1>1. ASSUME NEW p \in Sidecar, NEW t \in Task, BeginTask(p, t) PROVE TypeInv'
  <2>1. [IdleTick EXCEPT !.pc = "hellos", !.task = t, !.todo = Sidecar \ {p}] \in Ticks
    BY DEF IdleTick, Ticks
  <2>2. tick' \in [Sidecar -> Ticks]
    BY <1>1, <1>a, <2>1 DEF BeginTask, TypeOK
  <2>3. TickRuns'
    BY <1>1, <1>a DEF BeginTask, TypeOK, TickRuns, IdleTick
  <2>4. QED
    BY <1>1, <1>a, <2>2, <2>3 DEF BeginTask, TypeOK, TypeInv
<1>2. ASSUME NEW p \in Sidecar, IdentityFails(p) PROVE TypeInv'
  BY <1>2, <1>a, FaultType DEF IdentityFails, TypeOK, TypeInv, TickRuns
<1>3. ASSUME NEW p \in Sidecar, FetchHellos(p) PROVE TypeInv'
  <2>1. Inbox(p, tick[p].task, "hello") \subseteq Messages
    BY <1>a DEF Inbox, TypeOK
  <2>2. tick' \in [Sidecar -> Ticks] /\ TickRuns'
    <3> DEFINE got == Inbox(p, tick[p].task, "hello")
    <3>1. /\ [tick[p] EXCEPT !.pc = "acks"] \in Ticks
          /\ [tick[p] EXCEPT !.pc = "acks", !.hellos = got] \in Ticks
      BY <1>a, <2>1, FetchedType DEF TypeOK
    <3>2. \/ tick' = [tick EXCEPT ![p] = [tick[p] EXCEPT !.pc = "acks"]]
          \/ tick' = [tick EXCEPT ![p] = [tick[p] EXCEPT !.pc = "acks", !.hellos = got]]
      BY <1>3, <1>a DEF FetchHellos, TypeOK
    <3>3. tick' \in [Sidecar -> Ticks]
      BY <1>a, <3>1, <3>2 DEF TypeOK
    <3>4. tick[p].task \in Task
      BY <1>3, <1>a DEF FetchHellos, TickRuns
    <3>5. tick'[p].task = tick[p].task
      BY <1>a, <3>2 DEF TypeOK, Ticks
    <3>6. \A q \in Sidecar \ {p} : tick'[q] = tick[q]
      BY <1>a, <3>2 DEF TypeOK
    <3>7. QED
      BY <1>a, <3>3, <3>4, <3>5, <3>6 DEF TickRuns
  <2>3. mail' \subseteq Messages /\ faults' \in Nat
    BY <1>3, <1>a, FaultType DEF FetchHellos, TypeOK
  <2>4. QED
    BY <1>3, <1>a, <2>2, <2>3 DEF FetchHellos, TypeOK, TypeInv
<1>4. ASSUME NEW p \in Sidecar, FetchAcks(p) PROVE TypeInv'
  <2>1. Inbox(p, tick[p].task, "ack") \subseteq Messages
    BY <1>a DEF Inbox, TypeOK
  <2>2. tick' \in [Sidecar -> Ticks] /\ TickRuns'
    <3> DEFINE got == Inbox(p, tick[p].task, "ack")
    <3>1. /\ [tick[p] EXCEPT !.pc = "peers"] \in Ticks
          /\ [tick[p] EXCEPT !.pc = "peers", !.acks = got] \in Ticks
      BY <1>a, <2>1, FetchedType DEF TypeOK
    <3>2. \/ tick' = [tick EXCEPT ![p] = [tick[p] EXCEPT !.pc = "peers"]]
          \/ tick' = [tick EXCEPT ![p] = [tick[p] EXCEPT !.pc = "peers", !.acks = got]]
      BY <1>4, <1>a DEF FetchAcks, TypeOK
    <3>3. tick' \in [Sidecar -> Ticks]
      BY <1>a, <3>1, <3>2 DEF TypeOK
    <3>4. tick[p].task \in Task
      BY <1>4, <1>a DEF FetchAcks, TickRuns
    <3>5. tick'[p].task = tick[p].task
      BY <1>a, <3>2 DEF TypeOK, Ticks
    <3>6. \A q \in Sidecar \ {p} : tick'[q] = tick[q]
      BY <1>a, <3>2 DEF TypeOK
    <3>7. QED
      BY <1>a, <3>3, <3>4, <3>5, <3>6 DEF TickRuns
  <2>3. mail' \subseteq Messages /\ faults' \in Nat
    BY <1>4, <1>a, FaultType DEF FetchAcks, TypeOK
  <2>4. QED
    BY <1>4, <1>a, <2>2, <2>3 DEF FetchAcks, TypeOK, TypeInv
<1>5. ASSUME NEW p \in Sidecar, NEW q \in Sidecar, AlreadyReady(p, q) PROVE TypeInv'
  <2>1. TickRuns' /\ tick' \in [Sidecar -> Ticks]
    BY <1>5, <1>a, <1>b, PeerDoneType DEF AlreadyReady
  <2>2. QED
    BY <1>5, <1>a, <2>1 DEF AlreadyReady, TypeOK, TypeInv
<1>d. ASSUME NEW p \in Sidecar, NEW q \in Sidecar, NEW s, CheckAcks(p, q, s)
      PROVE  TickRuns'
  BY <1>d, <1>b DEF CheckAcks
<1>6. ASSUME NEW p \in Sidecar, NEW q \in Sidecar, SendHello(p, q) PROVE TypeInv'
  <2>1. tick[p].task \in Task
    BY <1>6, <1>c DEF SendHello
  <2>2. /\ sessions' \in [Sidecar -> [Sidecar -> Ratchets]]
        /\ ready' \in [Sidecar -> SUBSET Pairs]
        /\ tick' \in [Sidecar -> Ticks]
    BY <1>6, <1>a, <2>1, DefaultTypes, CheckAcksType DEF SendHello
  <2>3. mail' \subseteq Messages
    BY <1>6, <1>a, <2>1, MessageType DEF SendHello, TypeOK
  <2>4. /\ engaged' \in [Sidecar -> SUBSET Pairs]
        /\ engagedNow' \in [Sidecar -> SUBSET Pairs]
    BY <1>6, <1>a, <2>1, EngageType DEF SendHello
  <2>5. helloSent' \in [Sidecar -> SUBSET Pairs]
    BY <1>6, <1>a, <2>1 DEF SendHello, TypeOK, Pairs
  <2>6. TickRuns'
    BY <1>6, <1>d DEF SendHello
  <2>7. QED
    BY <1>6, <1>a, <2>2, <2>3, <2>4, <2>5, <2>6 DEF SendHello, TypeOK, TypeInv
<1>7. ASSUME NEW p \in Sidecar, NEW q \in Sidecar, SendHelloFails(p, q) PROVE TypeInv'
  <2>1. tick[p].task \in Task
    BY <1>7, <1>c DEF SendHelloFails
  <2>2. sessions' \in [Sidecar -> [Sidecar -> Ratchets]]
    BY <1>7, <1>a, DefaultTypes, SetSessionType DEF SendHelloFails
  <2>3. TickRuns' /\ tick' \in [Sidecar -> Ticks]
    BY <1>7, <1>a, <1>b, PeerDoneType DEF SendHelloFails
  <2>4. mail' \subseteq Messages /\ faults' \in Nat
    BY <1>7, <1>a, <2>1, MessageType, FaultType DEF SendHelloFails, TypeOK
  <2>5. /\ engaged' \in [Sidecar -> SUBSET Pairs]
        /\ engagedNow' \in [Sidecar -> SUBSET Pairs]
    BY <1>7, <1>a, <2>1, EngageType DEF SendHelloFails
  <2>6. QED
    BY <1>7, <1>a, <2>2, <2>3, <2>4, <2>5 DEF SendHelloFails, TypeOK, TypeInv
<1>8. ASSUME NEW p \in Sidecar, NEW q \in Sidecar, AwaitAck(p, q) PROVE TypeInv'
  <2>1. tick[p].task \in Task /\ sessions[p][q] \in Ratchets
    BY <1>8, <1>a, <1>c DEF AwaitAck, TypeOK
  <2>2. /\ sessions' \in [Sidecar -> [Sidecar -> Ratchets]]
        /\ ready' \in [Sidecar -> SUBSET Pairs]
        /\ tick' \in [Sidecar -> Ticks]
    BY <1>8, <1>a, <2>1, CheckAcksType DEF AwaitAck
  <2>3. TickRuns'
    BY <1>8, <1>d DEF AwaitAck
  <2>4. QED
    BY <1>8, <1>a, <2>2, <2>3 DEF AwaitAck, TypeOK, TypeInv
<1>e. ASSUME NEW p \in Sidecar, NEW q \in Sidecar
      PROVE  Receiving(p, q) \in Ratchets
  BY <1>a, DefaultTypes DEF Receiving, TypeOK
<1>9. ASSUME NEW p \in Sidecar, NEW q \in Sidecar, NoHello(p, q) PROVE TypeInv'
  <2>1. TickRuns' /\ tick' \in [Sidecar -> Ticks]
    BY <1>9, <1>a, <1>b, PeerDoneType DEF NoHello
  <2>2. QED
    BY <1>9, <1>a, <2>1 DEF NoHello, TypeOK, TypeInv
<1>10. ASSUME NEW p \in Sidecar, NEW q \in Sidecar, HelloUnreadable(p, q) PROVE TypeInv'
  <2>1. TickRuns' /\ tick' \in [Sidecar -> Ticks]
    BY <1>10, <1>a, <1>b, PeerDoneType DEF HelloUnreadable
  <2>2. sessions' \in [Sidecar -> [Sidecar -> Ratchets]]
    BY <1>10, <1>a, <1>e, SetSessionType DEF HelloUnreadable
  <2>3. QED
    BY <1>10, <1>a, <2>1, <2>2 DEF HelloUnreadable, TypeOK, TypeInv
<1>11. ASSUME NEW p \in Sidecar, NEW q \in Sidecar, AnswerHello(p, q) PROVE TypeInv'
  <2>1. tick[p].task \in Task /\ tick[p].hellos \in SUBSET Messages
    BY <1>11, <1>a, <1>c DEF AnswerHello, TypeOK, Ticks
  <2>2. PICK m \in Opens(Receiving(p, q), tick[p].hellos, q) :
          SetSession(p, q, [Receiving(p, q) EXCEPT !.got = @ \cup {m.n}, !.sent = @ + 1])
    BY <1>11 DEF AnswerHello
  <2>3. m.n \in Nat
    BY <2>1, <2>2 DEF Opens, Messages
  <2>4. [Receiving(p, q) EXCEPT !.got = @ \cup {m.n}, !.sent = @ + 1] \in Ratchets
    BY <2>3, <1>e, AnsweredType
  <2>5. sessions' \in [Sidecar -> [Sidecar -> Ratchets]]
    BY <1>a, <2>2, <2>4, SetSessionType
  <2>6. Receiving(p, q).sent \in Nat
    BY <1>e DEF Ratchets
  <2>7. Ack(p, q, Receiving(p, q).sent) \in Messages
    BY <2>1, <2>6, MessageType
  <2>8. mail' \subseteq Messages /\ faults' \in Nat
    BY <1>11, <1>a, <2>7, FaultType DEF AnswerHello, TypeOK
  <2>9. ready' \in [Sidecar -> SUBSET Pairs]
    BY <1>11, <1>a, <2>1, MarkReadyType DEF AnswerHello, TypeOK
  <2>10. TickRuns' /\ tick' \in [Sidecar -> Ticks]
    BY <1>11, <1>a, <1>b, PeerDoneType DEF AnswerHello
  <2>11. /\ engaged' \in [Sidecar -> SUBSET Pairs]
        /\ engagedNow' \in [Sidecar -> SUBSET Pairs]
    BY <1>11, <1>a, <2>1, EngageType DEF AnswerHello
  <2>12. QED
    BY <1>11, <1>a, <2>5, <2>8, <2>9, <2>10, <2>11 DEF AnswerHello, TypeOK, TypeInv
<1>12. ASSUME NEW p \in Sidecar, EndTask(p) PROVE TypeInv'
  <2>1. tick[p].task \in Task
    BY <1>12, <1>a DEF EndTask, TickRuns
  <2>2. tick' \in [Sidecar -> Ticks] /\ TickRuns'
    BY <1>12, <1>a, DefaultTypes DEF EndTask, TypeOK, TickRuns, IdleTick
  <2>3. QED
    BY <1>12, <1>a, <2>1, <2>2 DEF EndTask, TypeOK, TypeInv
<1>13. ASSUME NEW p \in Sidecar, Restart(p) PROVE TypeInv'
  <2>1. tick' \in [Sidecar -> Ticks] /\ TickRuns'
    BY <1>13, <1>a, DefaultTypes DEF Restart, ForgetReady, TypeOK, TickRuns, IdleTick
  <2>2. sessions' \in [Sidecar -> [Sidecar -> Ratchets]]
    BY <1>13, <1>a, DefaultTypes DEF Restart, ForgetReady, TypeOK
  <2>3. QED
    BY <1>13, <1>a, <2>1, <2>2 DEF Restart, ForgetReady, TypeOK, TypeInv
<1>14. ASSUME UNCHANGED vars PROVE TypeInv'
  BY <1>14, <1>a DEF vars, TypeOK, TickRuns, TypeInv
<1>15. QED
  BY <1>1, <1>2, <1>3, <1>4, <1>5, <1>6, <1>7, <1>8, <1>9, <1>10, <1>11, <1>12,
     <1>13, <1>14 DEF Next, Continue, DrivePeer

(* Every variable keeps its type in every step.                            *)
THEOREM TypeCorrect == Spec => []TypeOK
<1>1. Spec => []TypeInv
  BY TypeInitial, TypeStep, PTL DEF Spec
<1>2. TypeInv => TypeOK
  BY DEF TypeInv
<1>3. QED
  BY <1>1, <1>2, PTL

-------------------------------------------------------------------------------
(* The invariant behind PeersJoined, step by step.  Most steps only *)
(* change the tick: PeerDone keeps FetchedEngaged and TickRuns, and keeps  *)
(* DrivenReady when what it reports is the truth.                          *)
LEMMA PeerDoneKeeps ==
  ASSUME TypeOK, TogetherInv, NEW p \in Sidecar, NEW q \in Sidecar,
         NEW isReady \in BOOLEAN, PeerDone(p, q, isReady),
         Driving(p, q),
         ready' \in [Sidecar -> SUBSET Pairs],
         \A r \in Sidecar : ready[r] \subseteq ready'[r],
         \A r \in Sidecar : engaged[r] \subseteq engaged'[r],
         isReady => <<tick[p].task, q>> \in ready'[p]
  PROVE  FetchedEngaged' /\ TickRuns' /\ DrivenReady'
<1>1. \A r \in Sidecar : /\ tick'[r].pc = tick[r].pc
                         /\ tick'[r].task = tick[r].task
                         /\ tick'[r].hellos = tick[r].hellos
                         /\ tick'[r].acks = tick[r].acks
  BY DEF PeerDone, TypeOK, Ticks
<1>2. \A r \in Sidecar : r # p => tick'[r] = tick[r]
  BY DEF PeerDone, TypeOK
<1>3. tick'[p].todo = tick[p].todo \ {q}
  BY DEF PeerDone, TypeOK, Ticks
<1>4. tick'[p].allReady = (tick[p].allReady /\ isReady)
  BY DEF PeerDone, TypeOK, Ticks
<1>5. FetchedEngaged'
  <2> SUFFICES ASSUME NEW r \in Sidecar, NEW m \in tick'[r].hellos \cup tick'[r].acks
               PROVE  m.task = tick'[r].task /\ m.to = r /\ <<m.task, r>> \in engaged'[m.from]
    BY DEF FetchedEngaged
  <2>1. m \in Messages /\ m \in tick[r].hellos \cup tick[r].acks
    BY <1>1 DEF TypeOK, Ticks
  <2>2. m.task = tick[r].task /\ m.to = r /\ <<m.task, r>> \in engaged[m.from]
    BY <2>1 DEF TogetherInv, FetchedEngaged
  <2>3. m.from \in Sidecar
    BY <2>1 DEF Messages
  <2>4. QED
    BY <1>1, <2>2, <2>3
<1>6. TickRuns'
  BY <1>1 DEF TogetherInv, TickRuns
<1>7. DrivenReady'
  <2> SUFFICES ASSUME NEW r \in Sidecar, tick'[r].pc # "idle", tick'[r].allReady,
                      NEW s \in Sidecar \ {r}, s \notin tick'[r].todo
               PROVE  <<tick'[r].task, s>> \in ready'[r]
    BY DEF DrivenReady
  <2>1. CASE r # p
    BY <1>1, <1>2, <2>1 DEF TogetherInv, DrivenReady
  <2>2. CASE r = p /\ s = q
    BY <1>1, <1>4, <2>2
  <2>3. CASE r = p /\ s # q
    <3>1. tick[p].allReady /\ tick[p].pc # "idle" /\ s \notin tick[p].todo
      BY <1>1, <1>3, <1>4, <2>3
    <3>2. <<tick[p].task, s>> \in ready[p]
      BY <2>3, <3>1 DEF TogetherInv, DrivenReady
    <3>3. QED
      BY <1>1, <2>3, <3>2
  <2>4. QED
    BY <2>1, <2>2, <2>3
<1>8. QED
  BY <1>5, <1>6, <1>7

(* Growing engaged keeps what the others hold; the new messages and ready  *)
(* marks are the only ones to look at.                                     *)
LEMMA EngagedGrows ==
  ASSUME TypeOK, TypeOK', TogetherInv, dispatched' = dispatched,
         \A r \in Sidecar : engaged[r] \subseteq engaged'[r],
         \A m \in mail' : m \in mail \/ <<m.task, m.to>> \in engaged'[m.from],
         \A r, s \in Sidecar, t \in Task :
           <<t, s>> \in ready'[r] => <<t, s>> \in ready[r] \/ <<t, r>> \in engaged'[s]
  PROVE  MailEngaged' /\ ReadyEngaged' /\ PeersJoined'
<1>1. MailEngaged'
  <2> SUFFICES ASSUME NEW m \in mail', m \in mail PROVE <<m.task, m.to>> \in engaged'[m.from]
    BY DEF MailEngaged
  <2>1. <<m.task, m.to>> \in engaged[m.from] /\ m.from \in Sidecar
    BY DEF TogetherInv, MailEngaged, TypeOK, Messages
  <2>2. QED
    BY <2>1
<1>2. ReadyEngaged'
  BY DEF TogetherInv, ReadyEngaged
<1>3. PeersJoined'
  BY DEF TogetherInv, PeersJoined
<1>4. QED
  BY <1>1, <1>2, <1>3

(* An engagement only adds to engaged, and is itself an engagement.        *)
LEMMA EngageAdds ==
  ASSUME TypeOK, NEW p \in Sidecar, NEW q \in Sidecar, Engage(p, q)
  PROVE  /\ \A r \in Sidecar : engaged[r] \subseteq engaged'[r]
         /\ <<tick[p].task, q>> \in engaged'[p]
BY DEF Engage, TypeOK

LEMMA MarkReadyAdds ==
  ASSUME TypeOK, NEW p \in Sidecar, NEW q \in Sidecar, MarkReady(p, q)
  PROVE  /\ \A r \in Sidecar : ready[r] \subseteq ready'[r]
         /\ <<tick[p].task, q>> \in ready'[p]
         /\ \A r, s \in Sidecar, t \in Task : <<t, s>> \in ready'[r] =>
               \/ <<t, s>> \in ready[r]
               \/ r = p /\ s = q /\ t = tick[p].task
BY DEF MarkReady, TypeOK

(* The sender's half: an ack it opens was made by the peer for this task.  *)
LEMMA CheckAcksMarks ==
  ASSUME TypeOK, TogetherInv, NEW p \in Sidecar, NEW q \in Sidecar, NEW s,
         Driving(p, q), CheckAcks(p, q, s)
  PROVE  /\ \A r \in Sidecar : ready[r] \subseteq ready'[r]
         /\ \A r, x \in Sidecar, t \in Task :
              <<t, x>> \in ready'[r] => <<t, x>> \in ready[r] \/ <<t, r>> \in engaged[x]
         /\ \E isReady \in BOOLEAN :
              PeerDone(p, q, isReady) /\ (isReady => <<tick[p].task, q>> \in ready'[p])
<1>1. CASE UNCHANGED ready /\ PeerDone(p, q, FALSE)
  BY <1>1
<1>2. CASE \E m \in Opens(s, tick[p].acks, q) : PeerDone(p, q, TRUE) /\ MarkReady(p, q)
  <2>1. PICK m \in Opens(s, tick[p].acks, q) : PeerDone(p, q, TRUE) /\ MarkReady(p, q)
    BY <1>2
  <2>2. m \in tick[p].acks /\ m.from = q
    BY DEF Opens
  <2>3. <<tick[p].task, p>> \in engaged[q]
    BY <2>2 DEF TogetherInv, FetchedEngaged
  <2>4. /\ \A r \in Sidecar : ready[r] \subseteq ready'[r]
        /\ <<tick[p].task, q>> \in ready'[p]
        /\ \A r, x \in Sidecar, t \in Task : <<t, x>> \in ready'[r] =>
              \/ <<t, x>> \in ready[r]
              \/ r = p /\ x = q /\ t = tick[p].task
    BY <2>1, MarkReadyAdds
  <2>5. QED
    BY <2>1, <2>3, <2>4
<1>3. QED
  BY <1>1, <1>2 DEF CheckAcks

LEMMA TogetherInitial == Init => TogetherInv
BY DEF Init, TogetherInv, MailEngaged, FetchedEngaged, ReadyEngaged, TickRuns,
       DrivenReady, PeersJoined, IdleTick

LEMMA TogetherStep == TypeInv /\ TypeInv' /\ TogetherInv /\ [Next]_vars => TogetherInv'
<1> SUFFICES ASSUME TypeInv, TypeInv', TogetherInv, [Next]_vars PROVE TogetherInv'
  OBVIOUS
<1> USE DEF channelVars, historyVars, budgetVars
<1>a. TypeOK /\ TypeOK'
  BY DEF TypeInv
<1>b. ASSUME MailEngaged', FetchedEngaged', ReadyEngaged', TickRuns', DrivenReady',
             PeersJoined'
      PROVE  TogetherInv'
  BY <1>b DEF TogetherInv
(* Steps that leave the tick's slices, the marks and the mail to the lemmas. *)
<1>c. ASSUME NEW p \in Sidecar, NEW q \in Sidecar, NEW isReady \in BOOLEAN,
             PeerDone(p, q, isReady), Driving(p, q),
             isReady => <<tick[p].task, q>> \in ready'[p],
             \A r \in Sidecar : ready[r] \subseteq ready'[r],
             \A r \in Sidecar : engaged[r] \subseteq engaged'[r],
             dispatched' = dispatched,
             \A m \in mail' : m \in mail \/ <<m.task, m.to>> \in engaged'[m.from],
             \A r, s \in Sidecar, t \in Task :
               <<t, s>> \in ready'[r] => <<t, s>> \in ready[r] \/ <<t, r>> \in engaged'[s]
      PROVE  TogetherInv'
  <2>1. ready' \in [Sidecar -> SUBSET Pairs]
    BY <1>a DEF TypeOK
  <2>2. FetchedEngaged' /\ TickRuns' /\ DrivenReady'
    BY <1>a, <1>c, <2>1, PeerDoneKeeps
  <2>3. MailEngaged' /\ ReadyEngaged' /\ PeersJoined'
    BY <1>a, <1>c, EngagedGrows
  <2>4. QED
    BY <1>b, <2>2, <2>3
<1>1. ASSUME NEW p \in Sidecar, NEW t \in Task, BeginTask(p, t) PROVE TogetherInv'
  <2>1. /\ tick'[p].pc = "hellos" /\ tick'[p].task = t /\ tick'[p].todo = Sidecar \ {p}
        /\ tick'[p].hellos = {} /\ tick'[p].acks = {}
        /\ \A r \in Sidecar : r # p => tick'[r] = tick[r]
    BY <1>1, <1>a DEF BeginTask, TypeOK, IdleTick
  <2>2. FetchedEngaged' /\ TickRuns'
    BY <1>1, <2>1 DEF BeginTask, TogetherInv, FetchedEngaged, TickRuns
  <2>3. DrivenReady'
    BY <1>1, <2>1 DEF BeginTask, TogetherInv, DrivenReady
  <2>4. QED
    BY <1>1, <2>2, <2>3 DEF BeginTask, TogetherInv, MailEngaged, ReadyEngaged,
                            PeersJoined
<1>2. ASSUME NEW p \in Sidecar, IdentityFails(p) PROVE TogetherInv'
  BY <1>2 DEF IdentityFails, TogetherInv, MailEngaged, FetchedEngaged, ReadyEngaged,
              TickRuns, DrivenReady, PeersJoined
(* Fetching moves messages of this task from the mail to the tick.         *)
<1>d. ASSUME NEW p \in Sidecar, NEW kind, tick[p].pc # "idle",
             mail' \subseteq mail, UNCHANGED <<ready, dispatched, engaged>>,
             \A r \in Sidecar : /\ tick'[r].task = tick[r].task
                                /\ tick'[r].todo = tick[r].todo
                                /\ tick'[r].allReady = tick[r].allReady
                                /\ tick'[r].pc # "idle" => tick[r].pc # "idle"
                                /\ tick'[r].hellos \cup tick'[r].acks \subseteq
                                     tick[r].hellos \cup tick[r].acks
                                       \cup Inbox(r, tick[r].task, kind)
      PROVE  TogetherInv'
  <2>1. FetchedEngaged'
    <3> SUFFICES ASSUME NEW r \in Sidecar, NEW m \in tick'[r].hellos \cup tick'[r].acks
                 PROVE  m.task = tick[r].task /\ m.to = r /\ <<m.task, r>> \in engaged[m.from]
      BY <1>d DEF FetchedEngaged
    <3>1. CASE m \in tick[r].hellos \cup tick[r].acks
      BY <3>1 DEF TogetherInv, FetchedEngaged
    <3>2. CASE m \in Inbox(r, tick[r].task, kind)
      BY <3>2 DEF TogetherInv, MailEngaged, Inbox
    <3>3. QED
      BY <1>d, <3>1, <3>2
  <2>2. MailEngaged' /\ ReadyEngaged' /\ PeersJoined'
    BY <1>d DEF TogetherInv, MailEngaged, ReadyEngaged, PeersJoined
  <2>3. TickRuns' /\ DrivenReady'
    BY <1>d DEF TogetherInv, TickRuns, DrivenReady
  <2>4. QED
    BY <1>b, <2>1, <2>2, <2>3
<1>3. ASSUME NEW p \in Sidecar, FetchHellos(p) PROVE TogetherInv'
  <2>1. \A r \in Sidecar : /\ tick'[r].task = tick[r].task
                           /\ tick'[r].todo = tick[r].todo
                           /\ tick'[r].allReady = tick[r].allReady
                           /\ tick'[r].pc # "idle" => tick[r].pc # "idle"
                           /\ tick'[r].hellos \cup tick'[r].acks \subseteq
                                tick[r].hellos \cup tick[r].acks
                                  \cup Inbox(r, tick[r].task, "hello")
    <3> DEFINE got == Inbox(p, tick[p].task, "hello")
    <3>1. \/ tick' = [tick EXCEPT ![p] = [tick[p] EXCEPT !.pc = "acks"]]
          \/ tick' = [tick EXCEPT ![p] = [tick[p] EXCEPT !.pc = "acks", !.hellos = got]]
      BY <1>3, <1>a DEF FetchHellos, TypeOK
    <3> HIDE DEF got
    <3>2. \A r \in Sidecar : r # p => tick'[r] = tick[r]
      BY <1>a, <3>1 DEF TypeOK
    <3>a. /\ tick[p] \in Ticks
          /\ \/ tick'[p] = [tick[p] EXCEPT !.pc = "acks"]
             \/ tick'[p] = [tick[p] EXCEPT !.pc = "acks", !.hellos = got]
      BY <1>a, <3>1 DEF TypeOK
    <3>3. /\ tick'[p].task = tick[p].task /\ tick'[p].todo = tick[p].todo
          /\ tick'[p].allReady = tick[p].allReady
      BY <3>a DEF Ticks
    <3>b. /\ tick'[p].acks = tick[p].acks
          /\ tick'[p].hellos = tick[p].hellos \/ tick'[p].hellos = got
      BY <3>a DEF Ticks
    <3>4. tick'[p].hellos \cup tick'[p].acks \subseteq tick[p].hellos \cup tick[p].acks \cup got
      BY <3>b
    <3>5. tick[p].pc # "idle"
      BY <1>3 DEF FetchHellos
    <3>6. QED
      BY <3>2, <3>3, <3>4, <3>5 DEF got
  <2>2. mail' \subseteq mail /\ tick[p].pc # "idle" /\ UNCHANGED <<ready, dispatched, engaged>>
    BY <1>3 DEF FetchHellos
  <2>3. QED
    BY <1>d, <2>1, <2>2
<1>4. ASSUME NEW p \in Sidecar, FetchAcks(p) PROVE TogetherInv'
  <2>1. \A r \in Sidecar : /\ tick'[r].task = tick[r].task
                           /\ tick'[r].todo = tick[r].todo
                           /\ tick'[r].allReady = tick[r].allReady
                           /\ tick'[r].pc # "idle" => tick[r].pc # "idle"
                           /\ tick'[r].hellos \cup tick'[r].acks \subseteq
                                tick[r].hellos \cup tick[r].acks
                                  \cup Inbox(r, tick[r].task, "ack")
    <3> DEFINE got == Inbox(p, tick[p].task, "ack")
    <3>1. \/ tick' = [tick EXCEPT ![p] = [tick[p] EXCEPT !.pc = "peers"]]
          \/ tick' = [tick EXCEPT ![p] = [tick[p] EXCEPT !.pc = "peers", !.acks = got]]
      BY <1>4, <1>a DEF FetchAcks, TypeOK
    <3> HIDE DEF got
    <3>2. \A r \in Sidecar : r # p => tick'[r] = tick[r]
      BY <1>a, <3>1 DEF TypeOK
    <3>a. /\ tick[p] \in Ticks
          /\ \/ tick'[p] = [tick[p] EXCEPT !.pc = "peers"]
             \/ tick'[p] = [tick[p] EXCEPT !.pc = "peers", !.acks = got]
      BY <1>a, <3>1 DEF TypeOK
    <3>3. /\ tick'[p].task = tick[p].task /\ tick'[p].todo = tick[p].todo
          /\ tick'[p].allReady = tick[p].allReady
      BY <3>a DEF Ticks
    <3>b. /\ tick'[p].hellos = tick[p].hellos
          /\ tick'[p].acks = tick[p].acks \/ tick'[p].acks = got
      BY <3>a DEF Ticks
    <3>4. tick'[p].hellos \cup tick'[p].acks \subseteq tick[p].hellos \cup tick[p].acks \cup got
      BY <3>b
    <3>5. tick[p].pc # "idle"
      BY <1>4 DEF FetchAcks
    <3>6. QED
      BY <3>2, <3>3, <3>4, <3>5 DEF got
  <2>2. mail' \subseteq mail /\ tick[p].pc # "idle" /\ UNCHANGED <<ready, dispatched, engaged>>
    BY <1>4 DEF FetchAcks
  <2>3. QED
    BY <1>d, <2>1, <2>2
<1>5. ASSUME NEW p \in Sidecar, NEW q \in Sidecar, AlreadyReady(p, q) PROVE TogetherInv'
  <2>1. PeerDone(p, q, TRUE) /\ Driving(p, q) /\ <<tick[p].task, q>> \in ready'[p]
    BY <1>5 DEF AlreadyReady, Ready
  <2>2. UNCHANGED <<mail, ready, engaged, dispatched>>
    BY <1>5 DEF AlreadyReady
  <2>3. QED
    BY <1>c, <2>1, <2>2
<1>6. ASSUME NEW p \in Sidecar, NEW q \in Sidecar, SendHello(p, q) PROVE TogetherInv'
  <2>1. /\ \A r \in Sidecar : engaged[r] \subseteq engaged'[r]
        /\ <<tick[p].task, q>> \in engaged'[p]
    BY <1>6, <1>a, EngageAdds DEF SendHello
  <2>2. \A m \in mail' : m \in mail \/ <<m.task, m.to>> \in engaged'[m.from]
    BY <1>6, <2>1 DEF SendHello, Hello
  <2>3. Driving(p, q) /\ dispatched' = dispatched
    BY <1>6 DEF SendHello
  <2>4. /\ \A r \in Sidecar : ready[r] \subseteq ready'[r]
        /\ \A r, x \in Sidecar, t \in Task :
             <<t, x>> \in ready'[r] => <<t, x>> \in ready[r] \/ <<t, r>> \in engaged[x]
        /\ \E isReady \in BOOLEAN :
             PeerDone(p, q, isReady) /\ (isReady => <<tick[p].task, q>> \in ready'[p])
    BY <1>6, <1>a, <2>3, CheckAcksMarks DEF SendHello
  <2>5. \A r, x \in Sidecar, t \in Task :
          <<t, x>> \in ready'[r] => <<t, x>> \in ready[r] \/ <<t, r>> \in engaged'[x]
    BY <2>1, <2>4
  <2>6. PICK isReady \in BOOLEAN :
          PeerDone(p, q, isReady) /\ (isReady => <<tick[p].task, q>> \in ready'[p])
    BY <2>4
  <2>7. QED
    BY <1>c, <2>1, <2>2, <2>3, <2>4, <2>5, <2>6
<1>7. ASSUME NEW p \in Sidecar, NEW q \in Sidecar, SendHelloFails(p, q) PROVE TogetherInv'
  <2>1. /\ \A r \in Sidecar : engaged[r] \subseteq engaged'[r]
        /\ <<tick[p].task, q>> \in engaged'[p]
    BY <1>7, <1>a, EngageAdds DEF SendHelloFails
  <2>2. \A m \in mail' : m \in mail \/ <<m.task, m.to>> \in engaged'[m.from]
    BY <1>7, <2>1 DEF SendHelloFails, Hello
  <2>3. /\ Driving(p, q) /\ PeerDone(p, q, FALSE)
        /\ UNCHANGED <<dispatched, ready>>
    BY <1>7 DEF SendHelloFails
  <2>4. QED
    BY <1>c, <2>1, <2>2, <2>3
<1>8. ASSUME NEW p \in Sidecar, NEW q \in Sidecar, AwaitAck(p, q) PROVE TogetherInv'
  <2>1. Driving(p, q) /\ UNCHANGED <<mail, dispatched, engaged>>
    BY <1>8 DEF AwaitAck
  <2>2. /\ \A r \in Sidecar : ready[r] \subseteq ready'[r]
        /\ \A r, x \in Sidecar, t \in Task :
             <<t, x>> \in ready'[r] => <<t, x>> \in ready[r] \/ <<t, r>> \in engaged[x]
        /\ \E isReady \in BOOLEAN :
             PeerDone(p, q, isReady) /\ (isReady => <<tick[p].task, q>> \in ready'[p])
    BY <1>8, <1>a, <2>1, CheckAcksMarks DEF AwaitAck
  <2>3. PICK isReady \in BOOLEAN :
          PeerDone(p, q, isReady) /\ (isReady => <<tick[p].task, q>> \in ready'[p])
    BY <2>2
  <2>4. QED
    BY <1>c, <2>1, <2>2, <2>3
<1>9. ASSUME NEW p \in Sidecar, NEW q \in Sidecar, NoHello(p, q) PROVE TogetherInv'
  <2>1. /\ Driving(p, q) /\ PeerDone(p, q, FALSE)
        /\ UNCHANGED <<mail, ready, dispatched, engaged>>
    BY <1>9 DEF NoHello
  <2>2. QED
    BY <1>c, <2>1
<1>10. ASSUME NEW p \in Sidecar, NEW q \in Sidecar, HelloUnreadable(p, q)
       PROVE  TogetherInv'
  <2>1. /\ Driving(p, q) /\ PeerDone(p, q, FALSE)
        /\ UNCHANGED <<mail, ready, dispatched, engaged>>
    BY <1>10 DEF HelloUnreadable
  <2>2. QED
    BY <1>c, <2>1
<1>11. ASSUME NEW p \in Sidecar, NEW q \in Sidecar, AnswerHello(p, q) PROVE TogetherInv'
  <2>1. PICK m \in Opens(Receiving(p, q), tick[p].hellos, q) : TRUE
    BY <1>11 DEF AnswerHello
  <2>2. <<tick[p].task, p>> \in engaged[q]
    BY <2>1 DEF Opens, TogetherInv, FetchedEngaged
  <2>3. /\ \A r \in Sidecar : engaged[r] \subseteq engaged'[r]
        /\ <<tick[p].task, q>> \in engaged'[p]
    BY <1>11, <1>a, EngageAdds DEF AnswerHello
  <2>4. \A x \in mail' : x \in mail \/ <<x.task, x.to>> \in engaged'[x.from]
    <3> DEFINE ack == Ack(p, q, Receiving(p, q).sent)
    <3>1. mail' \subseteq mail \cup {ack}
      BY <1>11 DEF AnswerHello
    <3>2. ack.task = tick[p].task /\ ack.to = q /\ ack.from = p
      BY DEF Ack
    <3> HIDE DEF ack
    <3>3. QED
      BY <2>3, <3>1, <3>2
  <2>5. Driving(p, q) /\ dispatched' = dispatched
    BY <1>11 DEF AnswerHello
  <2>6. CASE MarkReady(p, q) /\ PeerDone(p, q, TRUE)
    <3>1. /\ \A r \in Sidecar : ready[r] \subseteq ready'[r]
          /\ <<tick[p].task, q>> \in ready'[p]
          /\ \A r, s \in Sidecar, t \in Task : <<t, s>> \in ready'[r] =>
                \/ <<t, s>> \in ready[r]
                \/ r = p /\ s = q /\ t = tick[p].task
      BY <1>a, <2>6, MarkReadyAdds
    <3>2. \A r, s \in Sidecar, t \in Task :
            <<t, s>> \in ready'[r] => <<t, s>> \in ready[r] \/ <<t, r>> \in engaged'[s]
      BY <2>2, <2>3, <3>1
    <3>3. QED
      BY <1>c, <2>3, <2>4, <2>5, <2>6, <3>1, <3>2
  <2>7. CASE UNCHANGED ready /\ PeerDone(p, q, FALSE)
    BY <1>c, <2>3, <2>4, <2>5, <2>7
  <2>8. QED
    BY <1>11, <2>6, <2>7 DEF AnswerHello
(* A tick that goes idle holds no messages, the other ticks keep theirs.   *)
<1>e. ASSUME NEW p \in Sidecar, tick'[p].hellos = {}, tick'[p].acks = {},
             \A r \in Sidecar : r # p => tick'[r] = tick[r], engaged' = engaged
      PROVE  FetchedEngaged'
  <2> SUFFICES ASSUME NEW r \in Sidecar, NEW m \in tick'[r].hellos \cup tick'[r].acks
               PROVE  m.task = tick'[r].task /\ m.to = r /\ <<m.task, r>> \in engaged'[m.from]
    BY DEF FetchedEngaged
  <2>1. r # p /\ tick'[r] = tick[r]
    BY <1>e
  <2>2. QED
    BY <1>e, <2>1 DEF TogetherInv, FetchedEngaged
<1>12. ASSUME NEW p \in Sidecar, EndTask(p) PROVE TogetherInv'
  <2>1. /\ tick'[p] = IdleTick
        /\ \A r \in Sidecar : r # p => tick'[r] = tick[r]
    BY <1>12, <1>a DEF EndTask, TypeOK
  <2>2. FetchedEngaged' /\ TickRuns' /\ DrivenReady'
    <3>1. tick'[p].pc = "idle" /\ tick'[p].hellos = {} /\ tick'[p].acks = {}
      BY <2>1 DEF IdleTick
    <3>2. UNCHANGED <<ready, engaged>>
      BY <1>12 DEF EndTask
    <3>3. FetchedEngaged'
      BY <1>e, <2>1, <3>1, <3>2
    <3>4. TickRuns' /\ DrivenReady'
      BY <2>1, <3>1, <3>2 DEF TogetherInv, TickRuns, DrivenReady
    <3>5. QED
      BY <3>3, <3>4
  <2>3. PeersJoined'
    <3> SUFFICES ASSUME NEW r \in Sidecar, NEW t \in Task, t \in dispatched'[r],
                        NEW q \in Sidecar \ {r}
                 PROVE  <<t, r>> \in engaged[q]
      BY <1>12 DEF EndTask, PeersJoined
    <3>1. CASE t \in dispatched[r]
      BY <3>1 DEF TogetherInv, PeersJoined
    <3>2. CASE t \notin dispatched[r]
      <4>1. r = p /\ t = tick[p].task /\ tick[p].allReady /\ tick[p].todo = {}
            /\ tick[p].pc # "idle"
        BY <1>12, <1>a, <3>2 DEF EndTask, TypeOK
      <4>2. <<t, q>> \in ready[p]
        BY <4>1 DEF TogetherInv, DrivenReady
      <4>3. QED
        BY <4>1, <4>2 DEF TogetherInv, ReadyEngaged
    <3>3. QED
      BY <3>1, <3>2
  <2>4. QED
    BY <1>12, <2>2, <2>3 DEF EndTask, TogetherInv, MailEngaged, ReadyEngaged
<1>13. ASSUME NEW p \in Sidecar, Restart(p) PROVE TogetherInv'
  <2>1. /\ tick'[p] = IdleTick
        /\ \A r \in Sidecar : r # p => tick'[r] = tick[r]
        /\ ready'[p] = {}
        /\ \A r \in Sidecar : r # p => ready'[r] = ready[r]
    BY <1>13, <1>a DEF Restart, ForgetReady, TypeOK
  <2>2. FetchedEngaged' /\ TickRuns'
    <3>1. tick'[p].pc = "idle" /\ tick'[p].hellos = {} /\ tick'[p].acks = {}
      BY <2>1 DEF IdleTick
    <3>2. engaged' = engaged
      BY <1>13 DEF Restart
    <3>3. FetchedEngaged'
      BY <1>e, <2>1, <3>1, <3>2
    <3>4. TickRuns'
      BY <2>1, <3>1 DEF TogetherInv, TickRuns
    <3>5. QED
      BY <3>3, <3>4
  <2>3. DrivenReady'
    BY <1>13, <2>1 DEF TogetherInv, DrivenReady, IdleTick
  <2>4. ReadyEngaged'
    BY <1>13, <2>1 DEF Restart, TogetherInv, ReadyEngaged
  <2>5. PeersJoined'
    <3>1. engaged' = engaged /\ \A r \in Sidecar : dispatched'[r] \subseteq dispatched[r]
      BY <1>13, <1>a DEF Restart, ForgetReady, TypeOK
    <3>2. QED
      BY <3>1 DEF TogetherInv, PeersJoined
  <2>6. QED
    BY <1>13, <2>2, <2>3, <2>4, <2>5 DEF Restart, TogetherInv, MailEngaged
<1>14. ASSUME UNCHANGED vars PROVE TogetherInv'
  BY <1>14 DEF vars, TogetherInv, MailEngaged, FetchedEngaged, ReadyEngaged, TickRuns,
               DrivenReady, PeersJoined
<1>15. QED
  BY <1>1, <1>2, <1>3, <1>4, <1>5, <1>6, <1>7, <1>8, <1>9, <1>10, <1>11, <1>12,
     <1>13, <1>14 DEF Next, Continue, DrivePeer

(* The dispatcher's own half: its marks of a pair come with an engagement, *)
(* an ack is looked at only after this life's hello, and a restart forgets *)
(* all of them together.                                                   *)
LEMMA OwnStays ==
  ASSUME OwnInv, dispatched' = dispatched,
         \A r \in Sidecar : engagedNow[r] \subseteq engagedNow'[r],
         \A r, x \in Sidecar, t \in Task :
           <<t, x>> \in ready'[r] \cup helloSent'[r] =>
             <<t, x>> \in ready[r] \cup helloSent[r] \cup engagedNow'[r]
  PROVE  OwnInv'
BY DEF OwnInv, OwnMarks, OwnDispatches

LEMMA EngageNow ==
  ASSUME TypeOK, NEW p \in Sidecar, NEW q \in Sidecar, Engage(p, q)
  PROVE  /\ \A r \in Sidecar : engagedNow[r] \subseteq engagedNow'[r]
         /\ <<tick[p].task, q>> \in engagedNow'[p]
BY DEF Engage, TypeOK

LEMMA CheckAcksOwn ==
  ASSUME TypeOK, NEW p \in Sidecar, NEW q \in Sidecar, NEW s, CheckAcks(p, q, s),
         NEW r \in Sidecar, NEW x \in Sidecar, NEW t \in Task, <<t, x>> \in ready'[r]
  PROVE  <<t, x>> \in ready[r] \/ (r = p /\ x = q /\ t = tick[p].task)
<1>1. CASE UNCHANGED ready
  BY <1>1
<1>2. CASE MarkReady(p, q)
  BY <1>2, MarkReadyAdds
<1>3. QED
  BY <1>1, <1>2 DEF CheckAcks

LEMMA OwnStep == TypeInv /\ TogetherInv /\ OwnInv /\ [Next]_vars => OwnInv'
<1> SUFFICES ASSUME TypeInv, TogetherInv, OwnInv, [Next]_vars PROVE OwnInv'
  OBVIOUS
<1> USE DEF channelVars, historyVars, budgetVars
<1>a. TypeOK
  BY DEF TypeInv
<1>b. ASSUME UNCHANGED <<ready, helloSent, dispatched, engagedNow>> PROVE OwnInv'
  BY <1>b DEF OwnInv, OwnMarks, OwnDispatches
<1>1. ASSUME NEW p \in Sidecar, NEW q \in Sidecar, SendHello(p, q) PROVE OwnInv'
  <2>1. /\ CheckAcks(p, q, [FreshRatchet EXCEPT !.sent = 1]) /\ Engage(p, q)
        /\ helloSent' = [helloSent EXCEPT ![p] = @ \cup {<<tick[p].task, q>>}]
        /\ dispatched' = dispatched
    BY <1>1 DEF SendHello
  <2>2. /\ \A r \in Sidecar : engagedNow[r] \subseteq engagedNow'[r]
        /\ <<tick[p].task, q>> \in engagedNow'[p]
    BY <1>a, <2>1, EngageNow
  <2>3. \A r, x \in Sidecar, t \in Task : <<t, x>> \in ready'[r] \cup helloSent'[r] =>
           \/ <<t, x>> \in ready[r] \cup helloSent[r]
           \/ r = p /\ x = q /\ t = tick[p].task
    <3> TAKE r, x \in Sidecar, t \in Task
    <3>1. CASE <<t, x>> \in ready'[r]
      BY <1>a, <2>1, <3>1, CheckAcksOwn
    <3>2. CASE <<t, x>> \in helloSent'[r]
      BY <1>a, <2>1, <3>2 DEF TypeOK
    <3>3. QED
      BY <3>1, <3>2
  <2>4. QED
    BY <2>1, <2>2, <2>3, OwnStays
<1>2. ASSUME NEW p \in Sidecar, NEW q \in Sidecar, SendHelloFails(p, q) PROVE OwnInv'
  <2>1. Engage(p, q) /\ UNCHANGED <<ready, helloSent, dispatched>>
    BY <1>2 DEF SendHelloFails
  <2>2. \A r \in Sidecar : engagedNow[r] \subseteq engagedNow'[r]
    BY <1>a, <2>1, EngageNow
  <2>3. QED
    BY <2>1, <2>2, OwnStays
<1>3. ASSUME NEW p \in Sidecar, NEW q \in Sidecar, AwaitAck(p, q) PROVE OwnInv'
  <2>1. /\ CheckAcks(p, q, sessions[p][q]) /\ Driving(p, q)
        /\ <<tick[p].task, q>> \in helloSent[p]
        /\ UNCHANGED <<helloSent, dispatched, engagedNow>>
    BY <1>3 DEF AwaitAck
  <2>2. tick[p].task \in Task
    BY <2>1 DEF TypeInv, TickRuns, Driving
  <2>3. <<tick[p].task, q>> \in engagedNow[p]
    BY <2>1, <2>2 DEF OwnInv, OwnMarks
  <2>4. \A r, x \in Sidecar, t \in Task : <<t, x>> \in ready'[r] =>
           <<t, x>> \in ready[r] \/ (r = p /\ x = q /\ t = tick[p].task)
    BY <1>a, <2>1, CheckAcksOwn
  <2>5. QED
    BY <2>1, <2>3, <2>4, OwnStays
<1>4. ASSUME NEW p \in Sidecar, NEW q \in Sidecar, AnswerHello(p, q) PROVE OwnInv'
  <2>1. /\ Engage(p, q) /\ UNCHANGED <<helloSent, dispatched>>
        /\ MarkReady(p, q) \/ UNCHANGED ready
    BY <1>4 DEF AnswerHello
  <2>2. /\ \A r \in Sidecar : engagedNow[r] \subseteq engagedNow'[r]
        /\ <<tick[p].task, q>> \in engagedNow'[p]
    BY <1>a, <2>1, EngageNow
  <2>3. \A r, x \in Sidecar, t \in Task : <<t, x>> \in ready'[r] =>
           <<t, x>> \in ready[r] \/ (r = p /\ x = q /\ t = tick[p].task)
    BY <1>a, <2>1, MarkReadyAdds
  <2>4. QED
    BY <2>1, <2>2, <2>3, OwnStays
<1>5. ASSUME NEW p \in Sidecar, EndTask(p) PROVE OwnInv'
  <2>1. UNCHANGED <<ready, helloSent, engagedNow>>
    BY <1>5 DEF EndTask
  <2>2. OwnDispatches'
    <3> SUFFICES ASSUME NEW r \in Sidecar, NEW t \in Task, t \in dispatched'[r],
                        NEW q \in Sidecar \ {r}
                 PROVE  <<t, q>> \in engagedNow[r]
      BY <2>1 DEF OwnDispatches
    <3>1. CASE t \in dispatched[r]
      BY <3>1 DEF OwnInv, OwnDispatches
    <3>2. CASE t \notin dispatched[r]
      <4>1. r = p /\ t = tick[p].task /\ tick[p].allReady /\ tick[p].todo = {}
            /\ tick[p].pc # "idle"
        BY <1>5, <1>a, <3>2 DEF EndTask, TypeOK
      <4>2. <<t, q>> \in ready[p]
        BY <4>1 DEF TogetherInv, DrivenReady
      <4>3. QED
        BY <4>1, <4>2 DEF OwnInv, OwnMarks
    <3>3. QED
      BY <3>1, <3>2
  <2>3. QED
    BY <2>1, <2>2 DEF OwnInv, OwnMarks
<1>6. ASSUME NEW p \in Sidecar, Restart(p) PROVE OwnInv'
  <2>1. /\ ready'[p] = {} /\ helloSent'[p] = {} /\ dispatched'[p] = {}
        /\ \A r \in Sidecar : r # p =>
             /\ ready'[r] = ready[r] /\ helloSent'[r] = helloSent[r]
             /\ dispatched'[r] = dispatched[r] /\ engagedNow'[r] = engagedNow[r]
    BY <1>6, <1>a DEF Restart, ForgetReady, TypeOK
  <2>2. QED
    BY <2>1 DEF OwnInv, OwnMarks, OwnDispatches
<1>7. ASSUME NEW p \in Sidecar, NEW q \in Sidecar, DrivePeer(p, q) PROVE OwnInv'
  <2>1. CASE AlreadyReady(p, q) \/ NoHello(p, q) \/ HelloUnreadable(p, q)
    BY <1>b, <2>1 DEF AlreadyReady, NoHello, HelloUnreadable
  <2>2. QED
    BY <1>1, <1>2, <1>3, <1>4, <1>7, <2>1 DEF DrivePeer
<1>8. ASSUME NEW p \in Sidecar, Continue(p) PROVE OwnInv'
  <2>1. CASE FetchHellos(p) \/ FetchAcks(p)
    BY <1>b, <2>1 DEF FetchHellos, FetchAcks
  <2>2. QED
    BY <1>5, <1>7, <1>8, <2>1 DEF Continue
<1>9. CASE UNCHANGED vars
  BY <1>b, <1>9 DEF vars
<1>10. CASE Next
  <2>1. PICK p \in Sidecar :
          \/ \E t \in Task : BeginTask(p, t)
          \/ IdentityFails(p) \/ Continue(p) \/ Restart(p)
    BY <1>10 DEF Next
  <2>2. CASE IdentityFails(p) \/ \E t \in Task : BeginTask(p, t)
    BY <1>b, <2>2 DEF IdentityFails, BeginTask
  <2>3. QED
    BY <1>6, <1>8, <2>1, <2>2
<1>11. QED
  BY <1>9, <1>10

(* No life of a sidecar dispatches a task before it and every peer took    *)
(* part in the handshake of that task, with any failures and restarts      *)
(* (poll.ts:64-68, peer-channel.ts:234-248).                               *)
THEOREM Together == Spec => []DispatchedTogether
<1>1. Spec => []TypeInv
  BY TypeInitial, TypeStep, PTL DEF Spec
<1>2. Spec => []TogetherInv
  BY <1>1, TogetherInitial, TogetherStep, PTL DEF Spec
<1>3. Init => OwnInv
  BY DEF Init, OwnInv, OwnMarks, OwnDispatches
<1>4. Spec => []OwnInv
  BY <1>1, <1>2, <1>3, OwnStep, PTL DEF Spec
<1>5. TogetherInv /\ OwnInv => DispatchedTogether
  BY DEF TogetherInv, PeersJoined, OwnInv, OwnDispatches, DispatchedTogether
<1>6. QED
  BY <1>2, <1>4, <1>5, PTL

-------------------------------------------------------------------------------
(* No hello is lost.  The invariant: a tick has fetched no hello before it *)
(* asks, and leaves no peer undriven; a receiver that has opened a hello   *)
(* is ready for some task; a driven peer whose hello was at hand, and that *)
(* never engaged for another task, is ready.                               *)
SentEngaged ==
  \A p, q \in Sidecar, t \in Task : <<t, q>> \in helloSent[p] => <<t, q>> \in engaged[p]
TickShape ==
  \A p \in Sidecar :
    /\ tick[p].pc \in {"idle", "hellos"} => tick[p].hellos = {}
    /\ tick[p].pc \in {"hellos", "acks"} => tick[p].todo = Sidecar \ {p}
OpenedReady ==
  \A p, q \in Sidecar : p < q /\ sessions[q][p].got # {} => \E u \in Task : <<u, p>> \in ready[q]
DrivenAnswered ==
  \A p, q \in Sidecar :
    /\ p < q /\ tick[q].pc = "peers" /\ p \notin tick[q].todo
    /\ HellosFrom(q, p) # {} /\ OnlyTask(p, q, tick[q].task)
    => <<tick[q].task, p>> \in ready[q]
HelloAtHand(p, q, t) ==
  \E m \in mail \cup tick[q].hellos :
    m.round = "hello" /\ m.from = p /\ m.to = q /\ m.task = t
HelloKept ==
  \A p, q \in Sidecar, t \in Task :
    p < q /\ <<t, q>> \in helloSent[p] /\ OnlyTask(p, q, t) =>
      HelloAtHand(p, q, t) \/ <<t, p>> \in ready[q]
HelloInv == SentEngaged /\ TickShape /\ OpenedReady /\ DrivenAnswered /\ HelloKept

LEMMA HelloInitial == ASSUME Init PROVE HelloInv
<1>1. \A p, q \in Sidecar : helloSent[p] = {} /\ sessions[p][q] = NoRatchet /\ tick[p] = IdleTick
  BY DEF Init
<1>2. NoRatchet.got = {} /\ IdleTick.pc = "idle" /\ IdleTick.hellos = {}
  BY DEF NoRatchet, IdleTick
<1>3. QED
  BY <1>1, <1>2 DEF HelloInv, SentEngaged, TickShape, OpenedReady, DrivenAnswered, HelloKept

LEMMA OnlyTaskBefore ==
  ASSUME \A r \in Sidecar : engaged[r] \subseteq engaged'[r],
         NEW p \in Sidecar, NEW q, NEW t, OnlyTask(p, q, t)'
  PROVE  OnlyTask(p, q, t)
BY DEF OnlyTask

(* Steps of p towards q: a hello newly recorded as sent is in the mail, a  *)
(* receiver that opens its first hello is ready, a hello at hand answered. *)
SentOnly(p, q) ==
  \A r, x \in Sidecar, t \in Task : <<t, x>> \in helloSent'[r] =>
    \/ <<t, x>> \in helloSent[r]
    \/ /\ r = p /\ x = q /\ t = tick[p].task
       /\ Hello(p, q) \in mail'
       /\ <<t, x>> \in engaged'[p]
OpenedOnly ==
  \A r, x \in Sidecar : x < r /\ sessions'[r][x].got # {} =>
    sessions[r][x].got # {} \/ \E u \in Task : <<u, x>> \in ready'[r]
Answered(p, q) ==
  q < p /\ HellosFrom(p, q) # {} /\ OnlyTask(q, p, tick[p].task) =>
    <<tick[p].task, q>> \in ready'[p]

(* A peer is driven.                                                       *)
LEMMA DrivingKeepsHellos ==
  ASSUME TypeInv, HelloInv, NEW p \in Sidecar, NEW q \in Sidecar, NEW isReady \in BOOLEAN,
         Driving(p, q), PeerDone(p, q, isReady), mail \subseteq mail',
         \A r \in Sidecar : ready[r] \subseteq ready'[r],
         \A r \in Sidecar : engaged[r] \subseteq engaged'[r],
         SentOnly(p, q), OpenedOnly, Answered(p, q)
  PROVE  HelloInv'
<1> USE DEF HelloInv
<1>1. \A r \in Sidecar : /\ tick'[r].pc = tick[r].pc /\ tick'[r].task = tick[r].task
                         /\ tick'[r].hellos = tick[r].hellos
  BY DEF PeerDone, TypeInv, TypeOK, Ticks
<1>2. /\ \A r \in Sidecar : r # p => tick'[r] = tick[r]
      /\ tick'[p].todo = tick[p].todo \ {q} /\ tick[p].pc = "peers"
  BY DEF PeerDone, Driving, TypeInv, TypeOK, Ticks
<1>3. SentEngaged'
  BY DEF SentEngaged, SentOnly
<1>4. TickShape'
  BY <1>1, <1>2 DEF TickShape
<1>5. OpenedReady'
  <2> SUFFICES ASSUME NEW r \in Sidecar, NEW s \in Sidecar, s < r, sessions'[r][s].got # {}
               PROVE  \E u \in Task : <<u, s>> \in ready'[r]
    BY DEF OpenedReady
  <2>1. CASE sessions[r][s].got # {}
    BY <2>1 DEF OpenedReady
  <2>2. CASE \E u \in Task : <<u, s>> \in ready'[r]
    BY <2>2
  <2>3. QED
    BY <2>1, <2>2 DEF OpenedOnly
<1>6. DrivenAnswered'
  <2> SUFFICES ASSUME NEW r \in Sidecar, NEW s \in Sidecar, s < r, tick[r].pc = "peers",
                      s \notin tick'[r].todo, HellosFrom(r, s) # {},
                      OnlyTask(s, r, tick[r].task)
               PROVE  <<tick[r].task, s>> \in ready'[r]
    <3>1. \A r, s \in Sidecar : /\ HellosFrom(r, s)' = HellosFrom(r, s)
                                /\ OnlyTask(s, r, tick[r].task)' => OnlyTask(s, r, tick[r].task)
      BY <1>1 DEF HellosFrom, OnlyTask
    <3>2. QED
      BY <1>1, <3>1 DEF DrivenAnswered
  <2>1. CASE r = p /\ s = q
    BY <2>1 DEF Answered
  <2>2. CASE ~(r = p /\ s = q)
    <3>1. s \notin tick[r].todo
      BY <1>2, <2>2
    <3>2. QED
      BY <3>1 DEF DrivenAnswered
  <2>3. QED
    BY <2>1, <2>2
<1>7. HelloKept'
  <2> SUFFICES ASSUME NEW r \in Sidecar, NEW s \in Sidecar, NEW t \in Task, r < s,
                      <<t, s>> \in helloSent'[r], OnlyTask(r, s, t)
               PROVE  HelloAtHand(r, s, t)' \/ <<t, r>> \in ready'[s]
    BY OnlyTaskBefore DEF HelloKept
  <2>1. CASE <<t, s>> \in helloSent[r]
    <3>1. HelloAtHand(r, s, t) => HelloAtHand(r, s, t)'
      BY <1>1 DEF HelloAtHand
    <3>2. QED
      BY <2>1, <3>1 DEF HelloKept
  <2>2. CASE r = p /\ s = q /\ t = tick[p].task /\ Hello(p, q) \in mail'
    BY <2>2 DEF HelloAtHand, Hello
  <2>3. QED
    BY <2>1, <2>2 DEF SentOnly
<1>8. QED
  BY <1>3, <1>4, <1>5, <1>6, <1>7

(* What the receiver's ratchet has opened: nothing when it is fresh.       *)
LEMMA ReceivingOpened ==
  ASSUME TypeInv, TogetherInv, HelloInv, NEW p \in Sidecar, NEW q \in Sidecar, Driving(p, q),
         q < p, HellosFrom(p, q) # {}, OnlyTask(q, p, tick[p].task),
         Opens(Receiving(p, q), tick[p].hellos, q) = {}
  PROVE  <<tick[p].task, q>> \in ready[p]
<1>1. PICK m \in tick[p].hellos : m.from = q
  BY DEF HellosFrom
<1>2. m.n \in Receiving(p, q).got
  BY <1>1 DEF Opens
<1>3. FreshRatchet.got = {}
  BY DEF FreshRatchet
<1>4. sessions[p][q].got # {}
  BY <1>2, <1>3 DEF Receiving
<1>5. PICK u \in Task : <<u, q>> \in ready[p]
  BY <1>4 DEF HelloInv, OpenedReady
<1>6. <<u, p>> \in engaged[q]
  BY <1>5 DEF TogetherInv, ReadyEngaged
<1>7. QED
  BY <1>5, <1>6 DEF OnlyTask

(* The sender's half changes the sender's ratchet only.                    *)
LEMMA SenderSessions ==
  ASSUME TypeInv, NEW p \in Sidecar, NEW q \in Sidecar, p < q, NEW s, SetSession(p, q, s),
         NEW r \in Sidecar, NEW x \in Sidecar, x < r
  PROVE  sessions'[r][x] = sessions[r][x]
<1>1. ~(r = p /\ x = q)
  BY SidecarAssumption
<1>2. sessions' = [sessions EXCEPT ![p][q] = s] /\ sessions \in [Sidecar -> [Sidecar -> Ratchets]]
  BY DEF SetSession, TypeInv, TypeOK
<1>3. QED
  BY <1>1, <1>2

LEMMA SenderKeepsHellos ==
  ASSUME TypeInv, TogetherInv, HelloInv, NEW p \in Sidecar, NEW q \in Sidecar, p < q,
         NEW s, CheckAcks(p, q, s), Driving(p, q), mail \subseteq mail',
         \A r \in Sidecar : engaged[r] \subseteq engaged'[r],
         SentOnly(p, q)
  PROVE  HelloInv'
<1>1. TypeOK
  BY DEF TypeInv
<1>2. /\ \A r \in Sidecar : ready[r] \subseteq ready'[r]
      /\ \E isReady \in BOOLEAN : PeerDone(p, q, isReady)
  BY <1>1, CheckAcksMarks
<1>3. PICK isReady \in BOOLEAN : PeerDone(p, q, isReady)
  BY <1>2
<1>4. \E x : SetSession(p, q, x)
  BY DEF CheckAcks
<1>5. \A r, x \in Sidecar : x < r => sessions'[r][x] = sessions[r][x]
  BY <1>4, SenderSessions
<1>6. Answered(p, q)
  <2>1. ~(q < p)
    BY SidecarAssumption
  <2>2. QED
    BY <2>1 DEF Answered
<1>7. OpenedOnly
  BY <1>5 DEF OpenedOnly
<1>8. QED
  BY <1>2, <1>3, <1>6, <1>7, DrivingKeepsHellos

LEMMA SendHelloSent ==
  ASSUME TypeInv, NEW p \in Sidecar, NEW q \in Sidecar, Hello(p, q) \in mail', Engage(p, q),
         helloSent' = [helloSent EXCEPT ![p] = @ \cup {<<tick[p].task, q>>}]
  PROVE  /\ \A r \in Sidecar : engaged[r] \subseteq engaged'[r]
         /\ SentOnly(p, q)
<1>1. TypeOK
  BY DEF TypeInv
<1>2. /\ \A r \in Sidecar : engaged[r] \subseteq engaged'[r]
      /\ <<tick[p].task, q>> \in engaged'[p]
  BY <1>1, EngageAdds
<1>3. \A r, x \in Sidecar, t \in Task : <<t, x>> \in helloSent'[r] =>
        <<t, x>> \in helloSent[r] \/ (r = p /\ x = q /\ t = tick[p].task)
  BY <1>1 DEF TypeOK
<1>4. QED
  BY <1>2, <1>3 DEF SentOnly

LEMMA AnswerKeepsHellos ==
  ASSUME TypeInv, TogetherInv, HelloInv, Repairable, NEW p \in Sidecar, NEW q \in Sidecar,
         AnswerHello(p, q)
  PROVE  HelloInv'
<1>1. TypeOK
  BY DEF TypeInv
<1>2. /\ Driving(p, q) /\ q < p /\ Engage(p, q) /\ helloSent' = helloSent
      /\ \E x : SetSession(p, q, x)
  BY DEF AnswerHello
<1>3. ~Fault("ack") /\ ~Fault("ackAnswer")
  BY DEF Repairable, Fault
<1>4. mail \subseteq mail' /\ MarkReady(p, q) /\ PeerDone(p, q, TRUE)
  BY <1>3 DEF AnswerHello
<1>5. /\ \A r \in Sidecar : ready[r] \subseteq ready'[r]
      /\ <<tick[p].task, q>> \in ready'[p]
  BY <1>1, <1>4, MarkReadyAdds
<1>6. \A r \in Sidecar : engaged[r] \subseteq engaged'[r]
  BY <1>1, <1>2, EngageAdds
<1>7. tick[p].task \in Task
  BY <1>2 DEF TypeInv, TickRuns, Driving
<1>8. OpenedOnly
  <2> SUFFICES ASSUME NEW r \in Sidecar, NEW x \in Sidecar, ~(r = p /\ x = q)
               PROVE  sessions'[r][x] = sessions[r][x]
    BY <1>5, <1>7 DEF OpenedOnly
  <2>1. QED
    BY <1>1, <1>2 DEF SetSession, TypeOK
<1>9. SentOnly(p, q) /\ Answered(p, q)
  BY <1>2, <1>5 DEF SentOnly, Answered
<1>10. QED
  BY <1>2, <1>4, <1>5, <1>6, <1>8, <1>9, DrivingKeepsHellos

LEMMA DriveKeepsHellos ==
  ASSUME TypeInv, TogetherInv, HelloInv, Repairable, NEW p \in Sidecar, NEW q \in Sidecar,
         DrivePeer(p, q)
  PROVE  HelloInv'
<1> USE DEF channelVars, historyVars, budgetVars
<1>a. /\ helloSent' = helloSent => SentOnly(p, q)
      /\ sessions' = sessions => OpenedOnly
  BY DEF SentOnly, OpenedOnly
<1>1. CASE AlreadyReady(p, q)
  <2>1. /\ Driving(p, q) /\ PeerDone(p, q, TRUE) /\ <<tick[p].task, q>> \in ready'[p]
        /\ UNCHANGED <<mail, sessions, ready, helloSent, engaged>>
    BY <1>1 DEF AlreadyReady, Ready
  <2>2. Answered(p, q)
    BY <2>1 DEF Answered
  <2>3. QED
    BY <1>a, <2>1, <2>2, DrivingKeepsHellos
<1>2. CASE SendHello(p, q)
  <2>1. /\ Driving(p, q) /\ p < q /\ Engage(p, q)
        /\ mail' = mail \cup {Hello(p, q)}
        /\ helloSent' = [helloSent EXCEPT ![p] = @ \cup {<<tick[p].task, q>>}]
        /\ CheckAcks(p, q, [FreshRatchet EXCEPT !.sent = 1])
    BY <1>2 DEF SendHello
  <2>2. mail \subseteq mail' /\ Hello(p, q) \in mail'
    BY <2>1
  <2>3. QED
    BY <2>1, <2>2, SendHelloSent, SenderKeepsHellos
<1>3. CASE SendHelloFails(p, q)
  <2>1. /\ Driving(p, q) /\ p < q /\ Engage(p, q) /\ PeerDone(p, q, FALSE)
        /\ mail \subseteq mail' /\ UNCHANGED <<ready, helloSent>>
        /\ SetSession(p, q, [FreshRatchet EXCEPT !.sent = 1])
    BY <1>3 DEF SendHelloFails
  <2>2. \A r \in Sidecar : engaged[r] \subseteq engaged'[r]
    BY <2>1, EngageAdds DEF TypeInv
  <2>3. \A r, x \in Sidecar : x < r => sessions'[r][x] = sessions[r][x]
    BY <2>1, SenderSessions
  <2>4. Answered(p, q) /\ OpenedOnly
    BY <2>1, <2>3, SidecarAssumption DEF Answered, OpenedOnly
  <2>5. QED
    BY <1>a, <2>1, <2>2, <2>4, DrivingKeepsHellos
<1>4. CASE AwaitAck(p, q)
  <2>1. /\ Driving(p, q) /\ p < q /\ CheckAcks(p, q, sessions[p][q])
        /\ UNCHANGED <<mail, helloSent, engaged>>
    BY <1>4 DEF AwaitAck
  <2>2. QED
    BY <1>a, <2>1, SenderKeepsHellos
<1>5. CASE NoHello(p, q)
  <2>1. /\ Driving(p, q) /\ PeerDone(p, q, FALSE) /\ HellosFrom(p, q) = {}
        /\ UNCHANGED <<mail, sessions, ready, helloSent, engaged>>
    BY <1>5 DEF NoHello
  <2>2. Answered(p, q)
    BY <2>1 DEF Answered
  <2>3. QED
    BY <1>a, <2>1, <2>2, DrivingKeepsHellos
<1>6. CASE HelloUnreadable(p, q)
  <2>1. /\ Driving(p, q) /\ PeerDone(p, q, FALSE) /\ q < p
        /\ Opens(Receiving(p, q), tick[p].hellos, q) = {}
        /\ SetSession(p, q, Receiving(p, q))
        /\ UNCHANGED <<mail, ready, helloSent, engaged>>
    BY <1>6 DEF HelloUnreadable
  <2>2. Answered(p, q)
    BY <2>1, ReceivingOpened DEF Answered
  <2>3. FreshRatchet.got = {}
    BY DEF FreshRatchet
  <2>4. \A r, x \in Sidecar : sessions'[r][x].got # {} => sessions[r][x].got # {}
    BY <2>1, <2>3 DEF SetSession, Receiving, TypeInv, TypeOK
  <2>5. OpenedOnly
    BY <2>4 DEF OpenedOnly
  <2>6. QED
    BY <1>a, <2>1, <2>2, <2>5, DrivingKeepsHellos
<1>7. CASE AnswerHello(p, q)
  BY <1>7, AnswerKeepsHellos
<1>8. QED
  BY <1>1, <1>2, <1>3, <1>4, <1>5, <1>6, <1>7 DEF DrivePeer

(* The other steps of a tick send nothing and mark nobody.                 *)
AnsweredMessage(p, m) ==
  m.from < p /\ m.from \in Sidecar /\ OnlyTask(m.from, p, m.task) =>
    <<m.task, m.from>> \in ready[p]

LEMMA TickKeepsHellos ==
  ASSUME HelloInv, NEW p \in Sidecar, UNCHANGED <<sessions, ready, helloSent, engaged>>,
         \A r \in Sidecar : r # p => tick'[r] = tick[r],
         tick'[p].pc \in {"idle", "hellos"} => tick'[p].hellos = {},
         tick'[p].pc \in {"hellos", "acks"} => tick'[p].todo = Sidecar \ {p},
         tick'[p].pc = "peers" => tick'[p].todo = Sidecar \ {p},
         \A m \in mail \cup tick[p].hellos :
           \/ m.round # "hello"
           \/ m \in mail' \/ (m \in tick'[p].hellos /\ m.to = p)
           \/ m \notin mail /\ AnsweredMessage(p, m)
  PROVE  HelloInv'
<1> USE DEF HelloInv
<1>1. SentEngaged' /\ OpenedReady' /\ TickShape'
  BY DEF SentEngaged, OpenedReady, TickShape
<1>2. DrivenAnswered'
  <2> SUFFICES ASSUME NEW r \in Sidecar, NEW s \in Sidecar, r < s, tick'[s].pc = "peers",
                      r \notin tick'[s].todo, HellosFrom(s, r)' # {},
                      OnlyTask(r, s, tick[s].task)'
               PROVE  <<tick'[s].task, r>> \in ready[s]
    BY DEF DrivenAnswered
  <2>1. r # s
    BY SidecarAssumption
  <2>2. s # p
    BY <2>1
  <2>3. QED
    BY <2>2 DEF DrivenAnswered, HellosFrom, OnlyTask
<1>3. HelloKept'
  <2> SUFFICES ASSUME NEW r \in Sidecar, NEW s \in Sidecar, NEW t \in Task, r < s,
                      <<t, s>> \in helloSent[r], OnlyTask(r, s, t),
                      <<t, r>> \notin ready[s]
               PROVE  HelloAtHand(r, s, t)'
    BY OnlyTaskBefore DEF HelloKept
  <2>1. PICK m \in mail \cup tick[s].hellos :
          m.round = "hello" /\ m.from = r /\ m.to = s /\ m.task = t
    BY DEF HelloKept, HelloAtHand
  <2>2. CASE s = p
    <3>1. ~AnsweredMessage(p, m)
      BY <2>1, <2>2 DEF AnsweredMessage
    <3>2. m \in mail' \/ m \in tick'[s].hellos
      BY <2>1, <2>2, <3>1
    <3>3. QED
      BY <2>1, <3>2 DEF HelloAtHand
  <2>3. CASE s # p
    <3>1. m \in mail' \/ m \in tick'[s].hellos
      BY <2>1, <2>3
    <3>2. QED
      BY <2>1, <3>1 DEF HelloAtHand
  <2>4. QED
    BY <2>2, <2>3
<1>4. QED
  BY <1>1, <1>2, <1>3

LEMMA HelloStep ==
  ASSUME TypeInv, TypeInv', TogetherInv, HelloInv, Repairable, restarts' = restarts,
         [Next]_vars
  PROVE  HelloInv'
<1> USE DEF channelVars, historyVars, budgetVars
<1>a. TypeOK
  BY DEF TypeInv
<1>1. ASSUME NEW p \in Sidecar, NEW t \in Task, BeginTask(p, t) PROVE HelloInv'
  <2>1. /\ tick'[p].pc = "hellos" /\ tick'[p].hellos = {} /\ tick'[p].todo = Sidecar \ {p}
        /\ \A r \in Sidecar : r # p => tick'[r] = tick[r]
        /\ UNCHANGED <<mail, sessions, ready, helloSent, engaged>>
    BY <1>1, <1>a DEF BeginTask, TypeOK, IdleTick
  <2>2. tick[p].hellos = {}
    BY <1>1 DEF BeginTask, HelloInv, TickShape
  <2>3. QED
    BY <2>1, <2>2, TickKeepsHellos
<1>2. ASSUME UNCHANGED <<mail, sessions, ready, helloSent, tick, engaged>> PROVE HelloInv'
  BY <1>2 DEF HelloInv, SentEngaged, TickShape, OpenedReady, DrivenAnswered, HelloKept,
              HelloAtHand, HellosFrom, OnlyTask
<1>3. ASSUME NEW p \in Sidecar, FetchHellos(p) PROVE HelloInv'
  <2> DEFINE got == Inbox(p, tick[p].task, "hello")
  <2>1. tick[p].pc = "hellos" /\ tick[p].hellos = {} /\ tick[p].todo = Sidecar \ {p}
    BY <1>3 DEF FetchHellos, HelloInv, TickShape
  <2>2. /\ tick'[p].pc = "acks" /\ tick'[p].todo = tick[p].todo
        /\ \A r \in Sidecar : r # p => tick'[r] = tick[r]
        /\ UNCHANGED <<sessions, ready, helloSent, engaged>>
    BY <1>3, <1>a DEF FetchHellos, TypeOK, Ticks
  <2>3. ~Fault("getAnswer")
    BY DEF Repairable, Fault
  <2>4. \/ mail' = mail \ got /\ tick'[p].hellos = got
        \/ mail' = mail
    BY <1>3, <1>a, <2>3 DEF FetchHellos, TypeOK, Ticks
  <2>5. \A m \in mail : m \in mail' \/ (m \in tick'[p].hellos /\ m.to = p)
    BY <2>4 DEF Inbox
  <2>6. QED
    BY <2>1, <2>2, <2>5, TickKeepsHellos
<1>4. ASSUME NEW p \in Sidecar, FetchAcks(p) PROVE HelloInv'
  <2>1. tick[p].pc = "acks" /\ tick[p].todo = Sidecar \ {p}
    BY <1>4 DEF FetchAcks, HelloInv, TickShape
  <2>2. /\ tick'[p].pc = "peers" /\ tick'[p].todo = tick[p].todo
        /\ tick'[p].hellos = tick[p].hellos
        /\ \A r \in Sidecar : r # p => tick'[r] = tick[r]
        /\ UNCHANGED <<sessions, ready, helloSent, engaged>>
    BY <1>4, <1>a DEF FetchAcks, TypeOK, Ticks
  <2>3. \A m \in mail : m.round # "hello" \/ m \in mail'
    BY <1>4 DEF FetchAcks, Inbox
  <2>4. \A m \in tick[p].hellos : m \in tick'[p].hellos /\ m.to = p
    BY <2>2 DEF TogetherInv, FetchedEngaged
  <2>5. QED
    BY <2>1, <2>2, <2>3, <2>4, TickKeepsHellos
<1>5. ASSUME NEW p \in Sidecar, EndTask(p) PROVE HelloInv'
  <2>1. /\ tick'[p].pc = "idle" /\ tick'[p].hellos = {}
        /\ \A r \in Sidecar : r # p => tick'[r] = tick[r]
        /\ UNCHANGED <<mail, sessions, ready, helloSent, engaged>>
    BY <1>5, <1>a DEF EndTask, TypeOK, IdleTick
  <2>2. tick[p].pc = "peers" /\ tick[p].todo = {}
    BY <1>5 DEF EndTask
  <2>3. \A m \in tick[p].hellos : AnsweredMessage(p, m)
    <3> SUFFICES ASSUME NEW m \in tick[p].hellos, m.from < p, m.from \in Sidecar,
                        OnlyTask(m.from, p, m.task)
                 PROVE  <<m.task, m.from>> \in ready[p]
      BY DEF AnsweredMessage
    <3>1. m.task = tick[p].task
      BY DEF TogetherInv, FetchedEngaged
    <3>2. m \in HellosFrom(p, m.from)
      BY DEF HellosFrom
    <3>3. QED
      BY <2>2, <3>1, <3>2 DEF HelloInv, DrivenAnswered
  <2>4. QED
    BY <2>1, <2>3, TickKeepsHellos
<1>6. ASSUME NEW p \in Sidecar, NEW q \in Sidecar, DrivePeer(p, q) PROVE HelloInv'
  BY <1>6, DriveKeepsHellos
<1>7. ASSUME NEW p \in Sidecar PROVE ~Restart(p)
  BY <1>a DEF Restart, ForgetReady, TypeOK
<1>8. QED
  <2>1. CASE UNCHANGED vars
    BY <1>2, <2>1 DEF vars
  <2>2. CASE Next
    <3>1. PICK p \in Sidecar :
            \/ \E t \in Task : BeginTask(p, t)
            \/ IdentityFails(p) \/ Continue(p) \/ Restart(p)
      BY <2>2 DEF Next
    <3>2. CASE IdentityFails(p)
      BY <1>2, <3>2 DEF IdentityFails
    <3>3. CASE Continue(p)
      BY <1>3, <1>4, <1>5, <1>6, <3>3 DEF Continue
    <3>4. QED
      BY <1>1, <1>7, <3>1, <3>2, <3>3
  <2>3. QED
    BY <2>1, <2>2

LEMMA OneMoreRestart ==
  ASSUME [Next]_vars PROVE restarts' = restarts \/ restarts' = restarts + 1
<1> USE DEF budgetVars
<1>1. ASSUME NEW p \in Sidecar, NEW q \in Sidecar, DrivePeer(p, q)
      PROVE  restarts' = restarts
  BY <1>1 DEF DrivePeer, AlreadyReady, SendHello, SendHelloFails, AwaitAck, NoHello,
              HelloUnreadable, AnswerHello
<1>2. ASSUME NEW p \in Sidecar, Continue(p) PROVE restarts' = restarts
  BY <1>1, <1>2 DEF Continue, FetchHellos, FetchAcks, EndTask
<1>3. QED
  BY <1>2 DEF Next, vars, BeginTask, IdentityFails, Restart

(* While only repairable calls fail and nobody restarts, the hello of the  *)
(* first task of a pair is in the mail or with its receiver, or has been   *)
(* answered, whatever the ticks interleave (poll.ts:170-208,               *)
(* peer-channel.ts:169-273).                                               *)
THEOREM HellosKept == Spec => []NoHelloLost
<1> DEFINE Kept == Repairable /\ restarts = 0 => HelloInv
<1>1. Spec => []TypeInv
  BY TypeInitial, TypeStep, PTL DEF Spec
<1>2. Spec => []TogetherInv
  BY <1>1, TogetherInitial, TogetherStep, PTL DEF Spec
<1>3. Init => Kept
  BY HelloInitial
<1>4. TypeInv /\ TypeInv' /\ TogetherInv /\ Kept /\ [Next]_vars => Kept'
  <2> SUFFICES ASSUME TypeInv, TypeInv', TogetherInv, Kept, [Next]_vars, Repairable,
                      restarts' = 0
               PROVE  HelloInv'
    BY DEF Repairable
  <2>1. restarts' = restarts \/ restarts' = restarts + 1
    BY OneMoreRestart
  <2>2. restarts' = restarts
    BY <2>1 DEF TypeInv, TypeOK
  <2>3. QED
    BY <2>2, HelloStep
<1>5. Kept => NoHelloLost
  BY DEF HelloInv, HelloKept, HelloAtHand, NoHelloLost
<1> HIDE DEF Kept
<1>6. QED
  BY <1>1, <1>2, <1>3, <1>4, <1>5, PTL DEF Spec

===============================================================================
