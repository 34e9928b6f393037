-------------------------- MODULE WorkerBridgeProofs --------------------------
(***************************************************************************)
(* Proofs about the worker bridge: type correctness, one polling sidecar,  *)
(* answers that match their calls and failures that are told, for any      *)
(* number of calls and failures.                                           *)
(***************************************************************************)
EXTENDS WorkerBridge, FiniteSetTheorems, TLAPS

-------------------------------------------------------------------------------
(* Queues.                                                                 *)
LEMMA TailOfQueue ==
  ASSUME NEW S, NEW q \in Seq(S), q # <<>>
  PROVE  /\ Head(q) \in S /\ 1 \in DOMAIN q /\ Head(q) = q[1]
         /\ Tail(q) \in Seq(S)
         /\ \A k \in DOMAIN Tail(q) : k + 1 \in DOMAIN q /\ k + 1 # 1 /\ Tail(q)[k] = q[k + 1]
         /\ \A k \in DOMAIN Tail(q) : k \in Nat
OBVIOUS

LEMMA AppendToQueue ==
  ASSUME NEW S, NEW q \in Seq(S), NEW m \in S
  PROVE  /\ Append(q, m) \in Seq(S)
         /\ \A k \in DOMAIN Append(q, m) :
              \/ k \in DOMAIN q /\ Append(q, m)[k] = q[k]
              \/ k = Len(q) + 1 /\ k \notin DOMAIN q /\ Append(q, m)[k] = m
OBVIOUS

(* The ids that have been given out are counted by nextId.                 *)
Posted(table) == {c \in Calls : table[c].id # None}
IdsCounted ==
  /\ nextId = Cardinality(Posted(call)) + 1
  /\ \A c \in Calls : call[c].pc \in {"free", "booting"} => call[c].id = None

LEMMA PostedFinite ==
  ASSUME NEW T \in SUBSET Calls
  PROVE  IsFiniteSet(T) /\ Cardinality(T) \in Nat /\ Cardinality(T) <= MaxCalls
<1>1. MaxCalls \in Nat
  BY BoundsAssumption
<1>2. IsFiniteSet(1 .. MaxCalls) /\ Cardinality(1 .. MaxCalls) = MaxCalls
  BY <1>1, FS_Interval
<1>3. IsFiniteSet(T) /\ Cardinality(T) <= MaxCalls
  BY <1>2, FS_Subset DEF Calls
<1>4. QED
  BY <1>3, FS_CardinalityType

(* A new id is a place in the table of handlers.                           *)
LEMMA NextIdFree ==
  ASSUME TypeOK, IdsCounted, NEW c \in Calls, call[c].pc \in {"free", "booting"}
  PROVE  nextId \in Calls /\ Posted(call) \in SUBSET Calls /\ c \notin Posted(call)
         /\ Cardinality(Posted(call) \cup {c}) = nextId
<1>1. Posted(call) \in SUBSET Calls /\ Posted(call) \cup {c} \in SUBSET Calls
  BY DEF Posted
<1>2. c \notin Posted(call)
  BY DEF IdsCounted, Posted
<1>3. IsFiniteSet(Posted(call)) /\ Cardinality(Posted(call)) \in Nat
  BY <1>1, PostedFinite
<1>4. Cardinality(Posted(call) \cup {c}) = Cardinality(Posted(call)) + 1
  BY <1>2, <1>3, FS_AddElement
<1>5. Cardinality(Posted(call) \cup {c}) = nextId
  BY <1>4 DEF IdsCounted
<1>6. nextId <= MaxCalls
  BY <1>1, <1>5, PostedFinite
<1>7. nextId \in Nat /\ nextId >= 1
  BY <1>3 DEF IdsCounted
<1>8. nextId \in Calls
  BY <1>6, <1>7, BoundsAssumption DEF Calls
<1>9. QED
  BY <1>1, <1>2, <1>5, <1>8

(* A handler that starts a sidecar starts the one of its own request.      *)
StarterKnown ==
  \A i \in Calls : handler[i].pc = "starting" => handler[i].on = i /\ handler[i].method = "start"

TypeInv == TypeOK /\ IdsCounted /\ StarterKnown

LEMMA PostTypes ==
  ASSUME TypeInv, NEW c \in Calls, NEW method \in Method,
         call[c].pc \in {"free", "booting"}, Post(c, method)
  PROVE  /\ call' \in [Calls -> CallRecords]
         /\ nextId' \in 1 .. MaxCalls + 1
         /\ toWorker' \in Seq(Requests)
         /\ proxy' = proxy /\ toMain' = toMain
         /\ IdsCounted'
<1> USE DEF TypeInv
<1>1. nextId \in Calls /\ Cardinality(Posted(call) \cup {c}) = nextId
  BY NextIdFree
<1>2. call' = [call EXCEPT ![c] = PostedCall(method, nextId)]
  BY DEF Post
<1>3. PostedCall(method, nextId) \in CallRecords
  BY <1>1, BoundsAssumption DEF PostedCall, CallRecords, Calls, Method
<1>4. call' \in [Calls -> CallRecords]
  BY <1>2, <1>3 DEF TypeOK
<1>5. nextId' = nextId + 1 /\ nextId' \in 1 .. MaxCalls + 1
  BY <1>1, BoundsAssumption DEF Post, Calls
<1>6. [id |-> nextId, method |-> method] \in Requests
  BY <1>1 DEF Requests
<1>7. toWorker' \in Seq(Requests)
  BY <1>6, AppendToQueue DEF Post, TypeOK
<1>8. nextId # None
  BY <1>1, BoundsAssumption DEF Calls, None
<1>9. Posted(call') = Posted(call) \cup {c}
  BY <1>2, <1>8 DEF Posted, PostedCall, TypeOK
<1>10. IdsCounted'
  <2>1. nextId' = Cardinality(Posted(call')) + 1
    BY <1>1, <1>5, <1>9
  <2>2. \A b \in Calls : call'[b].pc \in {"free", "booting"} => call'[b].id = None
    BY <1>2 DEF IdsCounted, PostedCall, TypeOK
  <2>3. QED
    BY <2>1, <2>2 DEF IdsCounted
<1>11. QED
  BY <1>4, <1>5, <1>7, <1>10 DEF Post

LEMMA ReturnTypes ==
  ASSUME TypeInv, NEW c \in Calls, NEW method \in Method,
         call[c].pc = "free", Return(c, method)
  PROVE  call' \in [Calls -> CallRecords] /\ IdsCounted'
<1> USE DEF TypeInv
<1>1. call' = [call EXCEPT ![c] = ReturnedCall(method)]
  BY DEF Return
<1>2. ReturnedCall(method) \in CallRecords
  BY BoundsAssumption DEF ReturnedCall, CallRecords, None
<1>3. call' \in [Calls -> CallRecords]
  BY <1>1, <1>2 DEF TypeOK
<1>4. \A b \in Calls : call'[b].id = call[b].id
  BY <1>1 DEF IdsCounted, ReturnedCall, TypeOK
<1>5. Posted(call') = Posted(call)
  BY <1>4 DEF Posted
<1>6. \A b \in Calls : call'[b].pc \in {"free", "booting"} => call[b].pc \in {"free", "booting"}
  BY <1>1 DEF ReturnedCall, TypeOK
<1>7. nextId' = nextId
  BY DEF Return
<1>8. QED
  BY <1>3, <1>4, <1>5, <1>6, <1>7 DEF IdsCounted

LEMMA TypeInit == ASSUME Init PROVE TypeInv
<1>1. FreeCall \in CallRecords /\ Idle \in Handlers
  BY BoundsAssumption DEF FreeCall, CallRecords, Idle, Handlers, Method, None
<1>2. TypeOK
  <2>1. call \in [Calls -> CallRecords] /\ handler \in [Calls -> Handlers]
    BY <1>1 DEF Init
  <2>2. proxy \in [started : BOOLEAN, cached : BOOLEAN, terminated : BOOLEAN]
    BY DEF Init
  <2>3. /\ nextId \in 1 .. MaxCalls + 1 /\ sidecar \in 0 .. MaxCalls
        /\ faults \in 0 .. MaxFaults
    BY BoundsAssumption DEF Init, None
  <2>4. toWorker \in Seq(Requests) /\ toMain \in Seq(Responses)
    BY DEF Init
  <2>5. loaded \in BOOLEAN
    BY DEF Init
  <2>6. polling \subseteq Calls
    BY DEF Init
  <2>7. QED
    BY <2>1, <2>2, <2>3, <2>4, <2>5, <2>6 DEF TypeOK
<1>3. Posted(call) = {}
  BY DEF Init, Posted, FreeCall
<1>4. nextId = Cardinality(Posted(call)) + 1
  <2>1. Cardinality(Posted(call)) = 0
    BY <1>3, FS_EmptySet
  <2>2. nextId = 1
    BY DEF Init
  <2>3. QED
    BY <2>1, <2>2
<1>5. \A c \in Calls : call[c].id = None
  BY DEF Init, FreeCall
<1>6. StarterKnown
  BY DEF Init, Idle, StarterKnown
<1>7. QED
  BY <1>2, <1>4, <1>5, <1>6 DEF TypeInv, IdsCounted

(* Steps of the worker leave the calls alone.                              *)
LEMMA SameCalls ==
  ASSUME IdsCounted, call' = call, nextId' = nextId
  PROVE  IdsCounted'
BY DEF IdsCounted, Posted

LEMMA RespondType ==
  ASSUME TypeOK, NEW i \in Calls, NEW method \in Method, NEW ok \in BOOLEAN,
         Respond(i, method, ok)
  PROVE  toMain' \in Seq(Responses)
<1>1. [id |-> i, method |-> method, ok |-> ok] \in Responses
  BY DEF Responses
<1>2. QED
  BY <1>1, AppendToQueue DEF Respond, TypeOK

LEMMA DoneType ==
  ASSUME TypeOK, NEW i \in Calls, Done(i)
  PROVE  handler' \in [Calls -> Handlers]
<1>1. Idle \in Handlers
  BY BoundsAssumption DEF Idle, Handlers, Method, None
<1>2. QED
  BY <1>1 DEF Done, TypeOK

LEMMA HeadOfRequests ==
  ASSUME TypeOK, toWorker # <<>>
  PROVE  /\ Head(toWorker).id \in Calls /\ Head(toWorker).method \in Method
         /\ Tail(toWorker) \in Seq(Requests)
<1>1. Head(toWorker) \in Requests /\ Tail(toWorker) \in Seq(Requests)
  BY TailOfQueue DEF TypeOK
<1>2. QED
  BY <1>1 DEF Requests

LEMMA StarterStep == ASSUME TypeOK, StarterKnown, [Next]_vars PROVE StarterKnown'
<1>1. CASE UNCHANGED handler
  BY <1>1 DEF StarterKnown
<1>2. CASE Stop
  BY <1>2 DEF Stop, StarterKnown, Idle
<1>3. CASE FirstStart
  <2>1. Head(toWorker).id \in Calls
    BY <1>3, HeadOfRequests DEF FirstStart, Request
  <2>2. QED
    BY <1>3, <2>1 DEF FirstStart, StarterKnown, TypeOK
<1>4. CASE Ask
  <2>1. Head(toWorker).id \in Calls
    BY <1>4, HeadOfRequests DEF Ask, Request
  <2>2. QED
    BY <1>4, <2>1 DEF Ask, StarterKnown, TypeOK
<1>5. ASSUME NEW i \in Calls, Done(i) PROVE StarterKnown'
  BY <1>5 DEF Done, StarterKnown, Idle, TypeOK
<1>6. \/ UNCHANGED handler \/ Stop \/ FirstStart \/ Ask \/ \E i \in Calls : Done(i)
  <2>1. CASE \E c \in Calls : Start(c) \/ GetSidecarId(c) \/ Register(c)
    BY <2>1 DEF Start, GetSidecarId, Register, workerVars
  <2>2. CASE ClientStep
    BY <2>2 DEF ClientStep, WorkerReady, HandleMessage, workerVars
  <2>3. CASE ServerStep
    BY <2>3 DEF ServerStep, Load, NotStarted
  <2>4. CASE \E i \in Calls : HandlerStep(i) \/ StartFails(i) \/ AnswerFails(i)
    BY <2>4 DEF HandlerStep, Started, Answered, StartFails, AnswerFails
  <2>5. QED
    BY <2>1, <2>2, <2>3, <2>4 DEF Next, vars
<1>7. QED
  BY <1>1, <1>2, <1>3, <1>4, <1>5, <1>6

LEMMA TypeStep ==
  ASSUME TypeInv, [Next]_vars
  PROVE  TypeInv'
<1> SUFFICES TypeOK' /\ IdsCounted'
  BY StarterStep DEF TypeInv
<1> USE DEF TypeInv
<1>1. ASSUME NEW c \in Calls, Start(c) PROVE TypeOK' /\ IdsCounted'
  <2>1. CASE proxy.started
    <3>1. Return(c, "start") /\ call[c].pc = "free" /\ UNCHANGED workerVars
      BY <1>1, <2>1 DEF Start, NextCall
    <3>2. call' \in [Calls -> CallRecords] /\ IdsCounted'
      BY <3>1, ReturnTypes DEF Method
    <3>3. QED
      BY <3>1, <3>2 DEF Return, TypeOK, workerVars
  <2>2. CASE ~proxy.started
    <3>1. call' = [call EXCEPT ![c].pc = "booting"] /\ call[c].pc = "free"
          /\ UNCHANGED <<nextId, proxy, toWorker, toMain, workerVars>>
      BY <1>1, <2>2 DEF Start, NextCall
    <3>2. call' \in [Calls -> CallRecords]
      BY <3>1 DEF TypeOK, CallRecords
    <3>3. \A b \in Calls : call'[b].id = call[b].id
      BY <3>1 DEF TypeOK, CallRecords
    <3>4. Posted(call') = Posted(call)
      BY <3>3 DEF Posted
    <3>5. \A b \in Calls : call'[b].pc \in {"free", "booting"} =>
                              call[b].pc \in {"free", "booting"}
      BY <3>1 DEF TypeOK, CallRecords
    <3>6. IdsCounted'
      BY <3>1, <3>3, <3>4, <3>5 DEF IdsCounted
    <3>7. QED
      BY <3>1, <3>2, <3>6 DEF TypeOK, workerVars
  <2>3. QED
    BY <2>1, <2>2
<1>2. ASSUME NEW c \in Calls, GetSidecarId(c) PROVE TypeOK' /\ IdsCounted'
  <2>1. CASE proxy.cached
    <3>1. Return(c, "getSidecarId") /\ call[c].pc = "free" /\ UNCHANGED workerVars
      BY <1>2, <2>1 DEF GetSidecarId, NextCall
    <3>2. call' \in [Calls -> CallRecords] /\ IdsCounted'
      BY <3>1, ReturnTypes DEF Method
    <3>3. QED
      BY <3>1, <3>2 DEF Return, TypeOK, workerVars
  <2>2. CASE ~proxy.cached
    <3>1. Post(c, "getSidecarId") /\ call[c].pc = "free" /\ UNCHANGED workerVars
      BY <1>2, <2>2 DEF GetSidecarId, NextCall
    <3>2. QED
      BY <3>1, PostTypes DEF TypeOK, workerVars, Method
  <2>3. QED
    BY <2>1, <2>2
<1>3. ASSUME NEW c \in Calls, Register(c) PROVE TypeOK' /\ IdsCounted'
  <2>1. Post(c, "register") /\ call[c].pc = "free" /\ UNCHANGED workerVars
    BY <1>3 DEF Register, NextCall
  <2>2. QED
    BY <2>1, PostTypes DEF TypeOK, workerVars, Method
<1>4. ASSUME NEW c \in Calls, WorkerReady(c) PROVE TypeOK' /\ IdsCounted'
  <2>1. Post(c, "start") /\ call[c].pc = "booting" /\ UNCHANGED workerVars
    BY <1>4 DEF WorkerReady
  <2>2. QED
    BY <2>1, PostTypes DEF TypeOK, workerVars, Method
<1>5. ASSUME NEW c \in Calls, HandleMessage(c) PROVE TypeOK' /\ IdsCounted'
  <2> DEFINE msg == Head(toMain)
  <2>1. msg \in Responses /\ toMain' \in Seq(Responses)
    BY <1>5, TailOfQueue DEF HandleMessage, TypeOK
  <2>2. msg.method \in Method /\ msg.ok \in BOOLEAN
    BY <2>1 DEF Responses
  <2> DEFINE pc == IF msg.ok THEN "resolved" ELSE "rejected"
  <2>3. /\ call' = [call EXCEPT ![c].pc = pc, ![c].answer = msg.method]
        /\ UNCHANGED <<nextId, toWorker, workerVars>>
    BY <1>5 DEF HandleMessage
  <2>4. pc \in {"resolved", "rejected"}
    OBVIOUS
  <2>5. proxy' \in [started : BOOLEAN, cached : BOOLEAN, terminated : BOOLEAN]
    <3> DEFINE isStarted == proxy.started \/ (msg.ok /\ call[c].method = "start")
    <3> DEFINE isCached == proxy.cached \/ (msg.ok /\ call[c].method # "register")
    <3>1. proxy' = [proxy EXCEPT !.started = isStarted, !.cached = isCached]
      BY <1>5 DEF HandleMessage, TypeOK
    <3>2. isStarted \in BOOLEAN /\ isCached \in BOOLEAN
      OBVIOUS
    <3> HIDE DEF isStarted, isCached
    <3>3. QED
      BY <3>1, <3>2 DEF TypeOK
  <2> HIDE DEF msg, pc
  <2>6. call' \in [Calls -> CallRecords]
    BY <2>2, <2>3, <2>4 DEF TypeOK, CallRecords
  <2>7. \A b \in Calls : call'[b].id = call[b].id
    BY <2>3 DEF TypeOK, CallRecords
  <2>8. \A b \in Calls : call'[b].pc \in {"free", "booting"} =>
                            call[b].pc \in {"free", "booting"}
    BY <2>3, <2>4 DEF TypeOK, CallRecords
  <2>9. Posted(call') = Posted(call)
    BY <2>7 DEF Posted
  <2>10. IdsCounted'
    BY <2>3, <2>7, <2>8, <2>9 DEF IdsCounted
  <2>11. QED
    BY <2>1, <2>3, <2>5, <2>6, <2>10 DEF TypeOK, workerVars
<1>6. CASE Stop
  <2>1. Idle \in Handlers
    BY BoundsAssumption DEF Idle, Handlers, Method, None
  <2>2. QED
    BY <1>6, <2>1, SameCalls DEF Stop, TypeOK
<1>7. CASE Load
  BY <1>7, SameCalls DEF Load, mainVars, TypeOK
<1>8. CASE FirstStart
  <2> DEFINE i == Head(toWorker).id
  <2>1. i \in Calls /\ toWorker' \in Seq(Requests)
    BY <1>8, HeadOfRequests DEF FirstStart, Request, Take
  <2>2. /\ sidecar' = i
        /\ handler' = [handler EXCEPT ![i] = [pc |-> "starting", method |-> "start", on |-> i]]
        /\ UNCHANGED <<call, nextId, proxy, toMain, loaded, polling, faults>>
    BY <1>8 DEF FirstStart, mainVars
  <2> HIDE DEF i
  <2>3. i \in 0 .. MaxCalls
    BY <2>1, BoundsAssumption DEF Calls
  <2>4. [pc |-> "starting", method |-> "start", on |-> i] \in Handlers
    BY <2>3 DEF Handlers, Method
  <2>5. QED
    BY <2>1, <2>2, <2>3, <2>4, SameCalls DEF TypeOK
<1>9. CASE Ask
  <2> DEFINE i == Head(toWorker).id
  <2> DEFINE m == Head(toWorker).method
  <2>1. i \in Calls /\ m \in Method /\ toWorker' \in Seq(Requests)
    BY <1>9, HeadOfRequests DEF Ask, Request, Take
  <2>2. /\ handler' = [handler EXCEPT ![i] = [pc |-> "asking", method |-> m, on |-> sidecar]]
        /\ UNCHANGED <<call, nextId, proxy, toMain, loaded, sidecar, polling, faults>>
    BY <1>9 DEF Ask, mainVars
  <2> HIDE DEF i, m
  <2>3. [pc |-> "asking", method |-> m, on |-> sidecar] \in Handlers
    BY <2>1 DEF Handlers, TypeOK
  <2>4. QED
    BY <2>1, <2>2, <2>3, SameCalls DEF TypeOK
<1>10. CASE NotStarted
  <2>1. /\ Head(toWorker).id \in Calls /\ Head(toWorker).method \in Method
        /\ toWorker' \in Seq(Requests)
    BY <1>10, HeadOfRequests DEF NotStarted, Request, Take
  <2>2. toMain' \in Seq(Responses)
    BY <1>10, <2>1, RespondType DEF NotStarted
  <2>3. QED
    BY <1>10, <2>1, <2>2, SameCalls DEF NotStarted, mainVars, TypeOK
<1>11. ASSUME NEW i \in Calls, Started(i) PROVE TypeOK' /\ IdsCounted'
  <2>1. handler[i].on = i
    BY <1>11 DEF Started, StarterKnown
  <2>2. polling' \subseteq Calls
    BY <1>11, <2>1 DEF Started, TypeOK
  <2>3. toMain' \in Seq(Responses) /\ handler' \in [Calls -> Handlers]
    BY <1>11, RespondType, DoneType DEF Started, Method
  <2>4. QED
    BY <1>11, <2>2, <2>3, SameCalls DEF Started, mainVars, TypeOK
<1>12. ASSUME NEW i \in Calls, Answered(i) PROVE TypeOK' /\ IdsCounted'
  <2>1. handler[i].method \in Method
    BY DEF TypeOK, Handlers
  <2>2. toMain' \in Seq(Responses) /\ handler' \in [Calls -> Handlers]
    BY <1>12, <2>1, RespondType, DoneType DEF Answered
  <2>3. QED
    BY <1>12, <2>2, SameCalls DEF Answered, mainVars, TypeOK
<1>13. ASSUME NEW i \in Calls, StartFails(i) PROVE TypeOK' /\ IdsCounted'
  <2>1. toMain' \in Seq(Responses) /\ handler' \in [Calls -> Handlers]
    BY <1>13, RespondType, DoneType DEF StartFails, Method
  <2>2. faults' \in 0 .. MaxFaults /\ sidecar' \in 0 .. MaxCalls
    BY <1>13, BoundsAssumption DEF StartFails, None, TypeOK
  <2>3. QED
    BY <1>13, <2>1, <2>2, SameCalls DEF StartFails, mainVars, TypeOK
<1>14. ASSUME NEW i \in Calls, AnswerFails(i) PROVE TypeOK' /\ IdsCounted'
  <2>1. handler[i].method \in Method
    BY DEF TypeOK, Handlers
  <2>2. toMain' \in Seq(Responses) /\ handler' \in [Calls -> Handlers]
    BY <1>14, <2>1, RespondType, DoneType DEF AnswerFails
  <2>3. faults' \in 0 .. MaxFaults
    BY <1>14, BoundsAssumption DEF AnswerFails, TypeOK
  <2>4. QED
    BY <1>14, <2>2, <2>3, SameCalls DEF AnswerFails, mainVars, TypeOK
<1>15. CASE UNCHANGED vars
  BY <1>15, SameCalls DEF vars, TypeOK
<1>16. QED
  BY <1>1, <1>2, <1>3, <1>4, <1>5, <1>6, <1>7, <1>8, <1>9, <1>10, <1>11, <1>12, <1>13,
     <1>14, <1>15 DEF Next, ClientStep, ServerStep, HandlerStep

LEMMA TypeInvariant == Spec => []TypeInv
<1>1. Init => TypeInv
  BY TypeInit
<1>2. TypeInv /\ [Next]_vars => TypeInv'
  BY TypeStep
<1>3. QED
  BY <1>1, <1>2, PTL DEF Spec

(* Every variable of the bridge keeps its type; an id that is given out is *)
(* never beyond the number of calls.                                       *)
THEOREM TypeCorrect == Spec => []TypeOK
<1>1. TypeInv => TypeOK
  BY DEF TypeInv
<1>2. QED
  BY <1>1, TypeInvariant, PTL

-------------------------------------------------------------------------------
(* One sidecar.  The worker's variable names the sidecar that is starting  *)
(* or polling, so while there is one no request builds another.            *)
OneInv ==
  /\ \A i \in Calls : handler[i].pc = "starting" => sidecar = i /\ polling = {}
  /\ \A i \in polling : sidecar = i

LEMMA OneInit == ASSUME Init PROVE OneInv
BY DEF Init, OneInv, Idle

LEMMA OneStep == ASSUME TypeInv, OneInv, [Next]_vars PROVE OneInv'
<1>1. CASE UNCHANGED <<handler, sidecar, polling>>
  BY <1>1 DEF OneInv
<1>2. CASE Stop
  BY <1>2 DEF Stop, OneInv, Idle
<1>3. CASE FirstStart
  <2>1. Head(toWorker).id \in Calls
    BY <1>3, HeadOfRequests DEF FirstStart, Request, TypeInv
  <2>2. \A i \in Calls : i # None
    BY BoundsAssumption DEF Calls, None
  <2>3. polling = {} /\ \A i \in Calls : handler[i].pc # "starting"
    BY <1>3, <2>2 DEF FirstStart, OneInv, TypeInv, TypeOK
  <2>4. QED
    BY <1>3, <2>1, <2>3 DEF FirstStart, OneInv, TypeInv, TypeOK
<1>4. CASE Ask
  <2>1. Head(toWorker).id \in Calls
    BY <1>4, HeadOfRequests DEF Ask, Request, TypeInv
  <2>2. QED
    BY <1>4, <2>1 DEF Ask, OneInv, TypeInv, TypeOK
<1>5. ASSUME NEW i \in Calls, Started(i) PROVE OneInv'
  <2>1. handler[i].on = i /\ sidecar = i /\ polling = {}
    BY <1>5 DEF Started, OneInv, TypeInv, StarterKnown
  <2>2. polling' = {i} /\ sidecar' = i
    BY <1>5, <2>1 DEF Started
  <2>3. \A j \in Calls : handler'[j].pc # "starting"
    BY <1>5, <2>1 DEF Started, Done, Idle, OneInv, TypeInv, TypeOK
  <2>4. QED
    BY <2>2, <2>3 DEF OneInv
<1>6. ASSUME NEW i \in Calls, StartFails(i) PROVE OneInv'
  <2>1. sidecar = i /\ polling = {}
    BY <1>6 DEF StartFails, OneInv
  <2>2. \A j \in Calls : handler'[j].pc # "starting"
    BY <1>6, <2>1 DEF StartFails, Done, Idle, OneInv, TypeInv, TypeOK
  <2>3. QED
    BY <1>6, <2>1, <2>2 DEF StartFails, OneInv
<1>7. ASSUME NEW i \in Calls, Done(i), UNCHANGED <<sidecar, polling>> PROVE OneInv'
  BY <1>7 DEF Done, Idle, OneInv, TypeInv, TypeOK
<1>8. \/ UNCHANGED <<handler, sidecar, polling>> \/ Stop \/ FirstStart \/ Ask
      \/ \E i \in Calls : Started(i) \/ StartFails(i)
      \/ \E i \in Calls : Done(i) /\ UNCHANGED <<sidecar, polling>>
  <2>1. CASE \E c \in Calls : Start(c) \/ GetSidecarId(c) \/ Register(c)
    BY <2>1 DEF Start, GetSidecarId, Register, workerVars
  <2>2. CASE ClientStep
    BY <2>2 DEF ClientStep, WorkerReady, HandleMessage, workerVars
  <2>3. CASE ServerStep
    BY <2>3 DEF ServerStep, Load, NotStarted
  <2>4. CASE \E i \in Calls : HandlerStep(i) \/ StartFails(i) \/ AnswerFails(i)
    BY <2>4 DEF HandlerStep, Answered, AnswerFails
  <2>5. QED
    BY <2>1, <2>2, <2>3, <2>4 DEF Next, vars
<1>9. QED
  BY <1>1, <1>2, <1>3, <1>4, <1>5, <1>6, <1>7, <1>8

(* However many start requests overlap and fail, one sidecar polls.        *)
THEOREM OneSidecar == Spec => []OneSidecarPolls
<1>1. TypeInv /\ OneInv => OneSidecarPolls
  <2> SUFFICES ASSUME TypeInv, OneInv PROVE Cardinality(polling) <= 1
    BY DEF OneSidecarPolls
  <2>1. polling \in SUBSET {sidecar}
    BY DEF OneInv
  <2>2. IsFiniteSet({sidecar}) /\ Cardinality({sidecar}) = 1
    BY FS_Singleton
  <2>3. QED
    BY <2>1, <2>2, FS_Subset
<1>2. Init => OneInv
  BY OneInit
<1>3. TypeInv /\ OneInv /\ [Next]_vars => OneInv'
  BY OneStep
<1>4. QED
  BY <1>1, <1>2, <1>3, TypeInvariant, PTL DEF Spec

-------------------------------------------------------------------------------
(* Answers.  A request, then its handler, then its response: at any time   *)
(* one of them stands for an id, which is that of one pending call.        *)
PendingAs(table, i, method) ==
  \E c \in Calls : table[c].pc = "pending" /\ table[c].id = i /\ table[c].method = method
RequestsPending == \A k \in DOMAIN toWorker : PendingAs(call, toWorker[k].id, toWorker[k].method)
HandlersPending ==
  \A i \in Calls : handler[i].pc # "none" => PendingAs(call, i, handler[i].method)
ResponsesPending == \A k \in DOMAIN toMain : PendingAs(call, toMain[k].id, toMain[k].method)
IdsUnique ==
  \A b, c \in Calls :
    call[b].pc = "pending" /\ call[c].pc = "pending" /\ call[b].id = call[c].id => b = c
IdsFresh == \A c \in Calls : call[c].pc = "pending" => call[c].id < nextId
OneRequest ==
  /\ \A j, k \in DOMAIN toWorker : toWorker[j].id = toWorker[k].id => j = k
  /\ \A k \in DOMAIN toWorker : handler[toWorker[k].id].pc = "none"
OneResponse ==
  /\ \A j, k \in DOMAIN toMain : toMain[j].id = toMain[k].id => j = k
  /\ \A k \in DOMAIN toMain : handler[toMain[k].id].pc = "none"
NotBoth == \A j \in DOMAIN toWorker, k \in DOMAIN toMain : toWorker[j].id # toMain[k].id
AnsweredRight ==
  \A c \in Calls : call[c].pc \in {"resolved", "rejected"} => call[c].answer = call[c].method
MatchInv ==
  /\ RequestsPending /\ HandlersPending /\ ResponsesPending
  /\ IdsUnique /\ IdsFresh
  /\ OneRequest /\ OneResponse /\ NotBoth
  /\ AnsweredRight

LEMMA QueueTypes ==
  ASSUME TypeOK
  PROVE  /\ \A k \in DOMAIN toWorker : toWorker[k].id \in Calls /\ toWorker[k].method \in Method
         /\ \A k \in DOMAIN toMain : toMain[k].id \in Calls /\ toMain[k].method \in Method
<1>1. \A k \in DOMAIN toWorker : toWorker[k] \in Requests
  BY DEF TypeOK
<1>2. \A k \in DOMAIN toMain : toMain[k] \in Responses
  BY DEF TypeOK
<1>3. QED
  BY <1>1, <1>2 DEF Requests, Responses

LEMMA MatchInit == ASSUME Init PROVE MatchInv
<1>1. toWorker = <<>> /\ toMain = <<>> /\ DOMAIN toWorker = {} /\ DOMAIN toMain = {}
  BY DEF Init
<1>2. \A c \in Calls : call[c].pc = "free" /\ handler[c].pc = "none"
  BY DEF Init, FreeCall, Idle
<1>3. RequestsPending /\ ResponsesPending /\ OneRequest /\ OneResponse /\ NotBoth
  BY <1>1 DEF RequestsPending, ResponsesPending, OneRequest, OneResponse, NotBoth
<1>4. HandlersPending /\ IdsUnique /\ IdsFresh /\ AnsweredRight
  BY <1>2 DEF HandlersPending, IdsUnique, IdsFresh, AnsweredRight
<1>5. QED
  BY <1>3, <1>4 DEF MatchInv

(* A call that does not wait for an answer, before or after.               *)
LEMMA MatchAside ==
  ASSUME TypeInv, MatchInv, NEW c \in Calls, call[c].pc # "pending",
         \A b \in Calls \ {c} : call'[b] = call[b],
         call'[c].pc # "pending",
         call'[c].pc \in {"resolved", "rejected"} => call'[c].answer = call'[c].method,
         UNCHANGED <<nextId, toWorker, toMain, handler>>
  PROVE  MatchInv'
<1>1. \A i, method : PendingAs(call, i, method) => PendingAs(call', i, method)
  BY DEF PendingAs
<1>2. RequestsPending' /\ HandlersPending' /\ ResponsesPending'
  BY <1>1 DEF MatchInv, RequestsPending, HandlersPending, ResponsesPending
<1>3. IdsUnique' /\ IdsFresh' /\ AnsweredRight'
  BY DEF MatchInv, IdsUnique, IdsFresh, AnsweredRight
<1>4. OneRequest' /\ OneResponse' /\ NotBoth'
  BY DEF MatchInv, OneRequest, OneResponse, NotBoth
<1>5. QED
  BY <1>2, <1>3, <1>4 DEF MatchInv

LEMMA MatchReturn ==
  ASSUME TypeInv, MatchInv, NEW c \in Calls, NEW method \in Method, call[c].pc = "free",
         Return(c, method), UNCHANGED workerVars
  PROVE  MatchInv'
<1>1. call' = [call EXCEPT ![c] = ReturnedCall(method)]
  BY DEF Return
<1>2. /\ \A b \in Calls \ {c} : call'[b] = call[b]
      /\ call'[c].pc = "resolved" /\ call'[c].answer = call'[c].method
  BY <1>1 DEF TypeInv, TypeOK, ReturnedCall
<1>3. QED
  BY <1>2, MatchAside DEF Return, workerVars

LEMMA MatchPost ==
  ASSUME TypeInv, MatchInv, NEW c \in Calls, NEW method \in Method,
         call[c].pc \in {"free", "booting"}, Post(c, method), UNCHANGED workerVars
  PROVE  MatchInv'
<1> DEFINE i == nextId
<1>1. i \in Calls /\ i \in Nat
  <2>1. i \in Calls
    BY NextIdFree DEF TypeInv
  <2>2. QED
    BY <2>1, BoundsAssumption DEF Calls
<1>2. call' = [call EXCEPT ![c] = PostedCall(method, i)] /\ nextId' = i + 1
  BY DEF Post
<1>3. /\ \A b \in Calls \ {c} : call'[b] = call[b]
      /\ call'[c].pc = "pending" /\ call'[c].id = i /\ call'[c].method = method
  BY <1>2 DEF PostedCall, TypeInv, TypeOK
<1>4. \A j, m : PendingAs(call, j, m) => PendingAs(call', j, m)
  BY <1>3 DEF PendingAs
<1>5. PendingAs(call', i, method)
  BY <1>3 DEF PendingAs
<1>6. \A m : \A j \in Nat : PendingAs(call, j, m) => j # i
  BY <1>1 DEF PendingAs, MatchInv, IdsFresh
<1>7. /\ \A k \in DOMAIN toWorker : toWorker[k].id # i
      /\ \A k \in DOMAIN toMain : toMain[k].id # i
      /\ handler[i].pc = "none"
  <2>1. \A k \in DOMAIN toWorker : toWorker[k].id # i
    BY <1>6, QueueTypes DEF MatchInv, RequestsPending, TypeInv, Calls
  <2>2. \A k \in DOMAIN toMain : toMain[k].id # i
    BY <1>6, QueueTypes DEF MatchInv, ResponsesPending, TypeInv, Calls
  <2>3. handler[i].pc = "none"
    BY <1>1, <1>6 DEF MatchInv, HandlersPending
  <2>4. QED
    BY <2>1, <2>2, <2>3
<1>8. \A k \in DOMAIN toWorker' :
        \/ k \in DOMAIN toWorker /\ toWorker'[k] = toWorker[k]
        \/ /\ k = Len(toWorker) + 1 /\ k \notin DOMAIN toWorker
           /\ toWorker'[k] = [id |-> i, method |-> method]
  <2>1. CASE proxy.terminated
    BY <2>1 DEF Post
  <2>2. CASE ~proxy.terminated
    <3>1. [id |-> i, method |-> method] \in Requests
      BY <1>1 DEF Requests
    <3>2. toWorker' = Append(toWorker, [id |-> i, method |-> method])
      BY <2>2 DEF Post
    <3>3. QED
      BY <3>1, <3>2, AppendToQueue DEF TypeInv, TypeOK
  <2>3. QED
    BY <2>1, <2>2
<1>9. UNCHANGED <<toMain, handler>>
  BY DEF Post, workerVars
<1> HIDE DEF i
<1>10. RequestsPending'
  BY <1>4, <1>5, <1>8 DEF MatchInv, RequestsPending
<1>11. HandlersPending' /\ ResponsesPending'
  BY <1>4, <1>9 DEF MatchInv, HandlersPending, ResponsesPending
<1>12. IdsUnique'
  <2>1. \A b \in Calls : call[b].id \in Int
    BY DEF TypeInv, TypeOK, CallRecords
  <2>2. \A b \in Calls : call[b].pc = "pending" => call[b].id # i
    BY <1>1, <2>1 DEF MatchInv, IdsFresh, i
  <2>3. QED
    BY <1>3, <2>2 DEF MatchInv, IdsUnique
<1>13. IdsFresh'
  <2>1. \A b \in Calls : call[b].id \in Int
    BY DEF TypeInv, TypeOK, CallRecords
  <2>2. QED
    BY <1>1, <1>2, <1>3, <2>1 DEF MatchInv, IdsFresh, i
<1>14. OneRequest'
  BY <1>7, <1>8, <1>9 DEF MatchInv, OneRequest
<1>15. OneResponse'
  BY <1>9 DEF MatchInv, OneResponse
<1>16. NotBoth'
  BY <1>7, <1>8, <1>9 DEF MatchInv, NotBoth
<1>17. AnsweredRight'
  BY <1>3 DEF MatchInv, AnsweredRight
<1>18. QED
  BY <1>10, <1>11, <1>12, <1>13, <1>14, <1>15, <1>16, <1>17 DEF MatchInv

LEMMA MatchHandle ==
  ASSUME TypeInv, MatchInv, NEW c \in Calls, HandleMessage(c)
  PROVE  MatchInv'
<1> DEFINE msg == Head(toMain)
<1>1. /\ toMain # <<>> /\ 1 \in DOMAIN toMain /\ msg = toMain[1] /\ toMain' = Tail(toMain)
      /\ \A k \in DOMAIN Tail(toMain) :
           k + 1 \in DOMAIN toMain /\ k + 1 # 1 /\ Tail(toMain)[k] = toMain[k + 1] /\ k \in Nat
  BY TailOfQueue DEF HandleMessage, TypeInv, TypeOK
<1>2. call[c].pc = "pending" /\ call[c].id = msg.id
  BY DEF HandleMessage, Waiting
<1>3. call[c].method = msg.method
  <2>1. PendingAs(call, msg.id, msg.method)
    BY <1>1 DEF MatchInv, ResponsesPending
  <2>2. QED
    BY <1>2, <2>1 DEF PendingAs, MatchInv, IdsUnique
<1>4. UNCHANGED <<nextId, toWorker, handler>>
  BY DEF HandleMessage, workerVars
<1>5. /\ \A b \in Calls \ {c} : call'[b] = call[b]
      /\ call'[c].pc \in {"resolved", "rejected"}
      /\ call'[c].answer = msg.method /\ call'[c].method = call[c].method
  <2> DEFINE pc == IF msg.ok THEN "resolved" ELSE "rejected"
  <2>1. call' = [call EXCEPT ![c].pc = pc, ![c].answer = msg.method]
    BY DEF HandleMessage
  <2>2. pc \in {"resolved", "rejected"}
    OBVIOUS
  <2> HIDE DEF pc, msg
  <2>3. QED
    BY <2>1, <2>2 DEF TypeInv, TypeOK, CallRecords
<1>6. \A k \in DOMAIN toMain' : toMain'[k].id # msg.id
  BY <1>1 DEF MatchInv, OneResponse
<1>7. \A k \in DOMAIN toWorker : toWorker[k].id # msg.id
  BY <1>1 DEF MatchInv, NotBoth
<1>8. handler[msg.id].pc = "none"
  BY <1>1 DEF MatchInv, OneResponse
<1> HIDE DEF msg
<1>9. \A i, method : i # msg.id /\ PendingAs(call, i, method) => PendingAs(call', i, method)
  BY <1>2, <1>5 DEF PendingAs
<1>10. RequestsPending'
  BY <1>4, <1>7, <1>9 DEF MatchInv, RequestsPending
<1>11. HandlersPending'
  BY <1>4, <1>8, <1>9 DEF MatchInv, HandlersPending
<1>12. ResponsesPending'
  BY <1>1, <1>6, <1>9 DEF MatchInv, ResponsesPending
<1>13. IdsUnique' /\ IdsFresh'
  BY <1>4, <1>5 DEF MatchInv, IdsUnique, IdsFresh
<1>14. OneRequest'
  BY <1>4 DEF MatchInv, OneRequest
<1>15. OneResponse'
  <2>1. \A j, k \in DOMAIN toMain' : toMain'[j].id = toMain'[k].id => j = k
    <3> SUFFICES ASSUME NEW j \in DOMAIN toMain', NEW k \in DOMAIN toMain',
                        toMain'[j].id = toMain'[k].id
                 PROVE  j = k
      OBVIOUS
    <3>1. j + 1 = k + 1
      BY <1>1 DEF MatchInv, OneResponse
    <3>2. QED
      BY <1>1, <3>1
  <2>2. \A k \in DOMAIN toMain' : handler'[toMain'[k].id].pc = "none"
    BY <1>1, <1>4 DEF MatchInv, OneResponse
  <2>3. QED
    BY <2>1, <2>2 DEF OneResponse
<1>16. NotBoth'
  BY <1>1, <1>4 DEF MatchInv, NotBoth
<1>17. AnsweredRight'
  BY <1>3, <1>5 DEF MatchInv, AnsweredRight
<1>18. QED
  BY <1>10, <1>11, <1>12, <1>13, <1>14, <1>15, <1>16, <1>17 DEF MatchInv

LEMMA MatchStop ==
  ASSUME TypeInv, MatchInv, Stop
  PROVE  MatchInv'
<1>1. toWorker' = <<>> /\ toMain' = <<>> /\ DOMAIN toWorker' = {} /\ DOMAIN toMain' = {}
      /\ UNCHANGED <<call, nextId>>
  BY DEF Stop
<1>2. \A c \in Calls : handler'[c].pc = "none"
  BY DEF Stop, Idle
<1>3. RequestsPending' /\ ResponsesPending' /\ OneRequest' /\ OneResponse' /\ NotBoth'
  BY <1>1 DEF RequestsPending, ResponsesPending, OneRequest, OneResponse, NotBoth
<1>4. HandlersPending' /\ IdsUnique' /\ IdsFresh' /\ AnsweredRight'
  BY <1>1, <1>2 DEF MatchInv, HandlersPending, IdsUnique, IdsFresh, AnsweredRight
<1>5. QED
  BY <1>3, <1>4 DEF MatchInv

(* A request becomes a handler of the same id and method.                  *)
LEMMA MatchTake ==
  ASSUME TypeInv, MatchInv, toWorker # <<>>, Take, NEW h, h.method = Head(toWorker).method,
         handler' = [handler EXCEPT ![Head(toWorker).id] = h],
         UNCHANGED <<call, nextId, toMain>>
  PROVE  MatchInv'
<1> DEFINE i == Head(toWorker).id
<1>1. /\ i \in Calls /\ 1 \in DOMAIN toWorker /\ Head(toWorker) = toWorker[1]
      /\ toWorker' = Tail(toWorker)
      /\ \A k \in DOMAIN Tail(toWorker) :
           k + 1 \in DOMAIN toWorker /\ k + 1 # 1 /\ Tail(toWorker)[k] = toWorker[k + 1]
           /\ k \in Nat
  BY TailOfQueue, HeadOfRequests DEF Take, TypeInv, TypeOK
<1>2. \A k \in DOMAIN toWorker' : toWorker'[k].id # i
  BY <1>1 DEF MatchInv, OneRequest
<1>3. \A k \in DOMAIN toMain : toMain[k].id # i
  BY <1>1 DEF MatchInv, NotBoth
<1>4. PendingAs(call, i, h.method)
  BY <1>1 DEF MatchInv, RequestsPending
<1> HIDE DEF i
<1>5. handler'[i] = h /\ \A j \in Calls \ {i} : handler'[j] = handler[j]
  BY <1>1 DEF i, TypeInv, TypeOK
<1>6. RequestsPending' /\ ResponsesPending'
  BY <1>1 DEF MatchInv, RequestsPending, ResponsesPending
<1>7. HandlersPending'
  BY <1>1, <1>4, <1>5 DEF MatchInv, HandlersPending
<1>8. IdsUnique' /\ IdsFresh' /\ AnsweredRight'
  BY DEF MatchInv, IdsUnique, IdsFresh, AnsweredRight
<1>9. OneRequest'
  <2>1. \A j, k \in DOMAIN toWorker' : toWorker'[j].id = toWorker'[k].id => j = k
    <3> SUFFICES ASSUME NEW j \in DOMAIN toWorker', NEW k \in DOMAIN toWorker',
                        toWorker'[j].id = toWorker'[k].id
                 PROVE  j = k
      OBVIOUS
    <3>1. j + 1 = k + 1
      BY <1>1 DEF MatchInv, OneRequest
    <3>2. QED
      BY <1>1, <3>1
  <2>2. \A k \in DOMAIN toWorker' : toWorker'[k].id \in Calls
    BY <1>1, QueueTypes DEF TypeInv
  <2>3. \A k \in DOMAIN toWorker' : handler'[toWorker'[k].id].pc = "none"
    BY <1>1, <1>2, <1>5, <2>2 DEF MatchInv, OneRequest
  <2>4. QED
    BY <2>1, <2>3 DEF OneRequest
<1>10. OneResponse'
  <2>1. \A k \in DOMAIN toMain : toMain[k].id \in Calls
    BY QueueTypes DEF TypeInv
  <2>2. QED
    BY <1>3, <1>5, <2>1 DEF MatchInv, OneResponse
<1>11. NotBoth'
  BY <1>1 DEF MatchInv, NotBoth
<1>12. QED
  BY <1>6, <1>7, <1>8, <1>9, <1>10, <1>11 DEF MatchInv

(* A response for an id that is in neither queue, with its method.         *)
LEMMA MatchRespond ==
  ASSUME TypeInv, MatchInv, NEW i \in Calls, NEW method \in Method, NEW ok \in BOOLEAN,
         Respond(i, method, ok), PendingAs(call, i, method),
         UNCHANGED <<call, nextId>>,
         \A k \in DOMAIN toMain : toMain[k].id # i,
         RequestsPending', HandlersPending', OneRequest',
         \A k \in DOMAIN toWorker' : toWorker'[k].id # i,
         \A j \in DOMAIN toWorker', k \in DOMAIN toMain : toWorker'[j].id # toMain[k].id,
         handler'[i].pc = "none",
         \A j \in Calls : handler[j].pc = "none" => handler'[j].pc = "none"
  PROVE  MatchInv'
<1>1. \A k \in DOMAIN toMain' :
        \/ k \in DOMAIN toMain /\ toMain'[k] = toMain[k]
        \/ /\ k = Len(toMain) + 1 /\ k \notin DOMAIN toMain
           /\ toMain'[k] = [id |-> i, method |-> method, ok |-> ok]
  <2>1. [id |-> i, method |-> method, ok |-> ok] \in Responses
    BY DEF Responses
  <2>2. QED
    BY <2>1, AppendToQueue DEF Respond, TypeInv, TypeOK
<1>2. ResponsesPending'
  BY <1>1 DEF MatchInv, ResponsesPending
<1>3. IdsUnique' /\ IdsFresh' /\ AnsweredRight'
  BY DEF MatchInv, IdsUnique, IdsFresh, AnsweredRight
<1>4. OneResponse'
  <2>1. \A k \in DOMAIN toMain : toMain[k].id \in Calls
    BY QueueTypes DEF TypeInv
  <2>2. QED
    BY <1>1, <2>1 DEF MatchInv, OneResponse
<1>5. NotBoth'
  BY <1>1 DEF NotBoth
<1>6. QED
  BY <1>2, <1>3, <1>4, <1>5 DEF MatchInv

LEMMA MatchNotStarted ==
  ASSUME TypeInv, MatchInv, NotStarted
  PROVE  MatchInv'
<1> DEFINE i == Head(toWorker).id
<1> DEFINE m == Head(toWorker).method
<1>1. /\ i \in Calls /\ m \in Method /\ 1 \in DOMAIN toWorker /\ Head(toWorker) = toWorker[1]
      /\ toWorker' = Tail(toWorker)
      /\ \A k \in DOMAIN Tail(toWorker) :
           k + 1 \in DOMAIN toWorker /\ k + 1 # 1 /\ Tail(toWorker)[k] = toWorker[k + 1]
           /\ k \in Nat
  BY TailOfQueue, HeadOfRequests DEF NotStarted, Request, Take, TypeInv, TypeOK
<1>2. Respond(i, m, FALSE) /\ UNCHANGED <<call, nextId, handler>>
  BY DEF NotStarted, mainVars
<1>3. PendingAs(call, i, m) /\ handler[i].pc = "none"
  BY <1>1 DEF MatchInv, RequestsPending, OneRequest
<1>4. \A k \in DOMAIN toMain : toMain[k].id # i
  BY <1>1 DEF MatchInv, NotBoth
<1>5. \A k \in DOMAIN toWorker' : toWorker'[k].id # i
  BY <1>1 DEF MatchInv, OneRequest
<1>6. RequestsPending' /\ HandlersPending'
  BY <1>1, <1>2 DEF MatchInv, RequestsPending, HandlersPending
<1>7. OneRequest'
  <2>1. \A j, k \in DOMAIN toWorker' : toWorker'[j].id = toWorker'[k].id => j = k
    <3> SUFFICES ASSUME NEW j \in DOMAIN toWorker', NEW k \in DOMAIN toWorker',
                        toWorker'[j].id = toWorker'[k].id
                 PROVE  j = k
      OBVIOUS
    <3>1. j + 1 = k + 1
      BY <1>1 DEF MatchInv, OneRequest
    <3>2. QED
      BY <1>1, <3>1
  <2>2. \A k \in DOMAIN toWorker' : handler'[toWorker'[k].id].pc = "none"
    BY <1>1, <1>2 DEF MatchInv, OneRequest
  <2>3. QED
    BY <2>1, <2>2 DEF OneRequest
<1>8. \A j \in DOMAIN toWorker', k \in DOMAIN toMain : toWorker'[j].id # toMain[k].id
  BY <1>1 DEF MatchInv, NotBoth
<1> HIDE DEF i, m
<1>9. QED
  BY <1>1, <1>2, <1>3, <1>4, <1>5, <1>6, <1>7, <1>8, MatchRespond

LEMMA MatchHandler ==
  ASSUME TypeInv, MatchInv, NEW i \in Calls, NEW ok \in BOOLEAN, handler[i].pc # "none",
         Respond(i, handler[i].method, ok), Done(i), UNCHANGED <<call, nextId, toWorker>>
  PROVE  MatchInv'
<1>1. handler[i].method \in Method
  BY DEF TypeInv, TypeOK, Handlers
<1>2. handler'[i].pc = "none" /\ \A j \in Calls \ {i} : handler'[j] = handler[j]
  BY DEF Done, Idle, TypeInv, TypeOK
<1>3. PendingAs(call, i, handler[i].method)
  BY DEF MatchInv, HandlersPending
<1>4. \A k \in DOMAIN toMain : toMain[k].id # i
  BY DEF MatchInv, OneResponse
<1>5. \A k \in DOMAIN toWorker : toWorker[k].id # i
  BY DEF MatchInv, OneRequest
<1>6. RequestsPending' /\ HandlersPending'
  BY <1>2 DEF MatchInv, RequestsPending, HandlersPending
<1>7. OneRequest'
  <2>1. \A k \in DOMAIN toWorker : toWorker[k].id \in Calls
    BY QueueTypes DEF TypeInv
  <2>2. QED
    BY <1>2, <2>1 DEF MatchInv, OneRequest
<1>8. \A j \in DOMAIN toWorker', k \in DOMAIN toMain : toWorker'[j].id # toMain[k].id
  BY DEF MatchInv, NotBoth
<1>9. \A j \in Calls : handler[j].pc = "none" => handler'[j].pc = "none"
  BY <1>2
<1> DEFINE m == handler[i].method
<1> HIDE DEF m
<1>10. m \in Method /\ Respond(i, m, ok) /\ PendingAs(call, i, m)
  BY <1>1, <1>3 DEF m
<1>11. QED
  BY <1>2, <1>4, <1>5, <1>6, <1>7, <1>8, <1>9, <1>10, MatchRespond

LEMMA MatchStep == ASSUME TypeInv, MatchInv, [Next]_vars PROVE MatchInv'
<1>1. ASSUME NEW c \in Calls, Start(c) PROVE MatchInv'
  <2>1. CASE proxy.started
    BY <1>1, <2>1, MatchReturn DEF Start, NextCall, Method
  <2>2. CASE ~proxy.started
    <3>1. /\ call[c].pc = "free" /\ call'[c].pc = "booting"
          /\ \A b \in Calls \ {c} : call'[b] = call[b]
          /\ UNCHANGED <<nextId, toWorker, toMain, handler>>
      BY <1>1, <2>2 DEF Start, NextCall, workerVars, TypeInv, TypeOK, CallRecords
    <3>2. QED
      BY <3>1, MatchAside
  <2>3. QED
    BY <2>1, <2>2
<1>2. ASSUME NEW c \in Calls, GetSidecarId(c) PROVE MatchInv'
  <2>1. CASE proxy.cached
    BY <1>2, <2>1, MatchReturn DEF GetSidecarId, NextCall, Method
  <2>2. CASE ~proxy.cached
    BY <1>2, <2>2, MatchPost DEF GetSidecarId, NextCall, Method
  <2>3. QED
    BY <2>1, <2>2
<1>3. ASSUME NEW c \in Calls, Register(c) PROVE MatchInv'
  BY <1>3, MatchPost DEF Register, NextCall, Method
<1>4. ASSUME NEW c \in Calls, WorkerReady(c) PROVE MatchInv'
  BY <1>4, MatchPost DEF WorkerReady, Method
<1>5. ASSUME NEW c \in Calls, HandleMessage(c) PROVE MatchInv'
  BY <1>5, MatchHandle
<1>6. CASE Stop
  BY <1>6, MatchStop
<1>7. CASE FirstStart
  <2> DEFINE h == [pc |-> "starting", method |-> "start", on |-> Head(toWorker).id]
  <2>1. h.method = Head(toWorker).method
    BY <1>7 DEF FirstStart, Request
  <2>2. handler' = [handler EXCEPT ![Head(toWorker).id] = h]
    BY <1>7 DEF FirstStart
  <2> HIDE DEF h
  <2>3. QED
    BY <1>7, <2>1, <2>2, MatchTake DEF FirstStart, Request, mainVars
<1>8. CASE Ask
  <2> DEFINE h == [pc |-> "asking", method |-> Head(toWorker).method, on |-> sidecar]
  <2>1. h.method = Head(toWorker).method
    OBVIOUS
  <2>2. handler' = [handler EXCEPT ![Head(toWorker).id] = h]
    BY <1>8 DEF Ask
  <2> HIDE DEF h
  <2>3. QED
    BY <1>8, <2>1, <2>2, MatchTake DEF Ask, Request, mainVars
<1>9. CASE NotStarted
  BY <1>9, MatchNotStarted
<1>10. ASSUME NEW i \in Calls, Started(i) PROVE MatchInv'
  <2>1. handler[i].method = "start"
    BY <1>10 DEF Started, TypeInv, StarterKnown
  <2>2. QED
    BY <1>10, <2>1, MatchHandler DEF Started, mainVars
<1>11. ASSUME NEW i \in Calls, StartFails(i) PROVE MatchInv'
  <2>1. handler[i].method = "start"
    BY <1>11 DEF StartFails, TypeInv, StarterKnown
  <2>2. QED
    BY <1>11, <2>1, MatchHandler DEF StartFails, mainVars
<1>12. ASSUME NEW i \in Calls, Answered(i) PROVE MatchInv'
  BY <1>12, MatchHandler DEF Answered, mainVars
<1>13. ASSUME NEW i \in Calls, AnswerFails(i) PROVE MatchInv'
  BY <1>13, MatchHandler DEF AnswerFails, mainVars
<1>14. CASE Load \/ UNCHANGED vars
  <2>1. UNCHANGED <<call, nextId, toWorker, toMain, handler>>
    BY <1>14 DEF Load, vars, mainVars
  <2>2. RequestsPending' /\ HandlersPending' /\ ResponsesPending'
    BY <2>1 DEF MatchInv, RequestsPending, HandlersPending, ResponsesPending
  <2>3. IdsUnique' /\ IdsFresh' /\ AnsweredRight'
    BY <2>1 DEF MatchInv, IdsUnique, IdsFresh, AnsweredRight
  <2>4. OneRequest' /\ OneResponse' /\ NotBoth'
    BY <2>1 DEF MatchInv, OneRequest, OneResponse, NotBoth
  <2>5. QED
    BY <2>2, <2>3, <2>4 DEF MatchInv
<1>15. QED
  BY <1>1, <1>2, <1>3, <1>4, <1>5, <1>6, <1>7, <1>8, <1>9, <1>10, <1>11, <1>12, <1>13,
     <1>14 DEF Next, ClientStep, ServerStep, HandlerStep

LEMMA MatchInvariant == Spec => [](TypeInv /\ MatchInv)
<1>1. Init => MatchInv
  BY MatchInit
<1>2. TypeInv /\ MatchInv /\ [Next]_vars => MatchInv'
  BY MatchStep
<1>3. QED
  BY <1>1, <1>2, TypeInvariant, PTL DEF Spec

(* However the handlers overtake each other, a call gets the answer to its *)
(* own request, and no response is left over.                              *)
THEOREM AnswersMatch == Spec => []AnswersMatchCalls
<1>1. MatchInv => AnswersMatchCalls
  <2> SUFFICES ASSUME MatchInv PROVE AnswersMatchCalls
    OBVIOUS
  <2>1. \A k \in DOMAIN toMain : \E c \in Calls : Waiting(c, toMain[k])
    BY DEF MatchInv, ResponsesPending, PendingAs, Waiting
  <2>2. QED
    BY <2>1 DEF MatchInv, AnsweredRight, AnswersMatchCalls
<1>2. QED
  BY <1>1, MatchInvariant, PTL

-------------------------------------------------------------------------------
(* Failures.  Whatever says that the sidecar has started, on its way to    *)
(* the proxy or there, was said of a sidecar that polls or of one whose    *)
(* failure is on its way to the call that built it.                        *)
Told ==
  \/ \E c \in Calls : call[c].method = "start" /\ call[c].pc = "rejected"
  \/ \E k \in DOMAIN toMain : toMain[k].method = "start" /\ ~toMain[k].ok
  \/ \E i \in Calls : handler[i].pc = "starting"
Sound == polling # {} \/ Told
TerminatedEmpty == proxy.terminated => toWorker = <<>>
ToldInv ==
  /\ TerminatedEmpty
  /\ sidecar # None => proxy.terminated \/ Sound
  /\ \A i \in Calls : handler[i].pc = "asking" /\ handler[i].method = "start" => Sound
  /\ \A k \in DOMAIN toMain : toMain[k].method = "start" /\ toMain[k].ok => Sound
  /\ proxy.started => Sound

LEMMA ToldInit == ASSUME Init PROVE ToldInv
<1>1. /\ sidecar = None /\ ~proxy.started /\ ~proxy.terminated /\ DOMAIN toMain = {}
      /\ \A i \in Calls : handler[i].pc = "none"
  BY DEF Init, Idle
<1>2. QED
  BY <1>1 DEF ToldInv, TerminatedEmpty

(* A step that is no stop undoes neither a polling sidecar nor a failure.  *)
LEMMA SoundStep ==
  ASSUME TypeInv, MatchInv, Sound, Next, ~Stop
  PROVE  Sound'
<1>1. CASE \E c \in Calls : Start(c) \/ GetSidecarId(c) \/ Register(c) \/ WorkerReady(c)
  <2> PICK c \in Calls : Start(c) \/ GetSidecarId(c) \/ Register(c) \/ WorkerReady(c)
    BY <1>1
  <2>1. /\ call[c].pc \in {"free", "booting"}
        /\ \A b \in Calls \ {c} : call'[b] = call[b]
        /\ UNCHANGED <<toMain, handler, polling>>
    BY DEF Start, GetSidecarId, Register, WorkerReady, NextCall, Post, Return, workerVars,
           TypeInv, TypeOK
  <2>2. QED
    BY <2>1 DEF Sound, Told
<1>2. ASSUME NEW c \in Calls, HandleMessage(c) PROVE Sound'
  <2> DEFINE msg == Head(toMain)
  <2>1. /\ 1 \in DOMAIN toMain /\ msg = toMain[1] /\ toMain' = Tail(toMain)
        /\ toMain \in Seq(Responses)
    BY <1>2, TailOfQueue DEF HandleMessage, TypeInv, TypeOK
  <2>2. call[c].pc = "pending" /\ call[c].id = msg.id /\ call[c].method = msg.method
    <3>1. call[c].pc = "pending" /\ call[c].id = msg.id
      BY <1>2 DEF HandleMessage, Waiting
    <3>2. PendingAs(call, msg.id, msg.method)
      BY <2>1 DEF MatchInv, ResponsesPending
    <3>3. QED
      BY <3>1, <3>2 DEF PendingAs, MatchInv, IdsUnique
  <2>3. UNCHANGED <<handler, polling>>
    BY <1>2 DEF HandleMessage, workerVars
  <2>4. /\ \A b \in Calls \ {c} : call'[b] = call[b]
        /\ ~msg.ok => call'[c].pc = "rejected"
        /\ call'[c].method = call[c].method
    <3> DEFINE pc == IF msg.ok THEN "resolved" ELSE "rejected"
    <3>1. call' = [call EXCEPT ![c].pc = pc, ![c].answer = msg.method]
      BY <1>2 DEF HandleMessage
    <3>2. ~msg.ok => pc = "rejected"
      OBVIOUS
    <3> HIDE DEF pc, msg
    <3>3. QED
      BY <3>1, <3>2 DEF TypeInv, TypeOK, CallRecords
  <2> HIDE DEF msg
  <2>5. CASE \E k \in DOMAIN toMain : toMain[k].method = "start" /\ ~toMain[k].ok
    <3> PICK k \in DOMAIN toMain : toMain[k].method = "start" /\ ~toMain[k].ok
      BY <2>5
    <3>1. CASE k = 1
      BY <2>1, <2>2, <2>4, <3>1 DEF Sound, Told
    <3>2. CASE k # 1
      <4>1. k - 1 \in DOMAIN toMain' /\ toMain'[k - 1] = toMain[k]
        BY <2>1, <3>2
      <4>2. QED
        BY <4>1 DEF Sound, Told
    <3>3. QED
      BY <3>1, <3>2
  <2>6. CASE polling # {} \/ \E i \in Calls : handler[i].pc = "starting"
    BY <2>3, <2>6 DEF Sound, Told
  <2>7. CASE \E b \in Calls : call[b].method = "start" /\ call[b].pc = "rejected"
    BY <2>2, <2>4, <2>7 DEF Sound, Told
  <2>8. QED
    BY <2>5, <2>6, <2>7 DEF Sound, Told
<1>3. CASE Load
  BY <1>3 DEF Load, mainVars, Sound, Told
<1>4. CASE FirstStart \/ Ask
  <2> DEFINE i == Head(toWorker).id
  <2>1. /\ i \in Calls /\ UNCHANGED <<call, toMain, polling>>
        /\ \A j \in Calls \ {i} : handler'[j] = handler[j]
    BY <1>4, HeadOfRequests DEF FirstStart, Ask, Request, mainVars, TypeInv, TypeOK
  <2>2. handler[i].pc = "none"
    <3>1. toWorker # <<>> /\ toWorker[1] = Head(toWorker) /\ 1 \in DOMAIN toWorker
      BY <1>4, TailOfQueue DEF FirstStart, Ask, Request, TypeInv, TypeOK
    <3>2. QED
      BY <3>1 DEF MatchInv, OneRequest
  <2> HIDE DEF i
  <2>3. QED
    BY <2>1, <2>2 DEF Sound, Told
<1>5. ASSUME NEW i \in Calls, NEW method \in Method, NEW ok \in BOOLEAN,
             Respond(i, method, ok), UNCHANGED call, polling \subseteq polling',
             \A j \in Calls : handler[j].pc = "starting" => handler'[j].pc = "starting"
      PROVE  Sound'
  <2>1. [id |-> i, method |-> method, ok |-> ok] \in Responses
    BY <1>5 DEF Responses
  <2>2. \A k \in DOMAIN toMain : k \in DOMAIN toMain' /\ toMain'[k] = toMain[k]
    BY <1>5, <2>1 DEF Respond, TypeInv, TypeOK
  <2>3. QED
    BY <1>5, <2>2 DEF Sound, Told
<1>6. CASE NotStarted
  <2>1. Head(toWorker).id \in Calls /\ Head(toWorker).method \in Method
    BY <1>6, HeadOfRequests DEF NotStarted, Request, TypeInv
  <2>2. QED
    BY <1>6, <1>5, <2>1 DEF NotStarted, mainVars
<1>7. ASSUME NEW i \in Calls, Started(i) PROVE Sound'
  BY <1>7 DEF Started, Sound
<1>8. ASSUME NEW i \in Calls, StartFails(i) PROVE Sound'
  <2>1. /\ Len(toMain) + 1 \in DOMAIN toMain'
        /\ toMain'[Len(toMain) + 1] = [id |-> i, method |-> "start", ok |-> FALSE]
    <3>1. [id |-> i, method |-> "start", ok |-> FALSE] \in Responses
      BY DEF Responses, Method
    <3>2. QED
      BY <1>8, <3>1 DEF StartFails, Respond, TypeInv, TypeOK
  <2>2. QED
    BY <2>1 DEF Sound, Told
<1>9. ASSUME NEW i \in Calls, Answered(i) \/ AnswerFails(i) PROVE Sound'
  <2>1. handler[i].method \in Method
    BY DEF TypeInv, TypeOK, Handlers
  <2>2. \A j \in Calls : handler[j].pc = "starting" => handler'[j].pc = "starting"
    BY <1>9 DEF Answered, AnswerFails, Done, TypeInv, TypeOK
  <2>3. QED
    BY <1>5, <1>9, <2>1, <2>2 DEF Answered, AnswerFails, mainVars
<1>10. QED
  BY <1>1, <1>2, <1>3, <1>4, <1>6, <1>7, <1>8, <1>9
     DEF Next, ClientStep, ServerStep, HandlerStep

(* A terminated worker is posted nothing.                                  *)
LEMMA TerminatedStep ==
  ASSUME TypeInv, TerminatedEmpty, Next, ~Stop
  PROVE  TerminatedEmpty' /\ proxy'.terminated = proxy.terminated
<1>1. CASE \E c \in Calls : Start(c) \/ GetSidecarId(c) \/ Register(c) \/ WorkerReady(c)
  BY <1>1 DEF Start, GetSidecarId, Register, WorkerReady, Post, Return, TerminatedEmpty
<1>2. ASSUME NEW c \in Calls, HandleMessage(c)
      PROVE  TerminatedEmpty' /\ proxy'.terminated = proxy.terminated
  BY <1>2 DEF HandleMessage, TerminatedEmpty, TypeInv, TypeOK
<1>3. CASE FirstStart \/ Ask \/ NotStarted
  BY <1>3 DEF FirstStart, Ask, NotStarted, Request, mainVars, TerminatedEmpty
<1>4. CASE UNCHANGED <<toWorker, proxy>>
  BY <1>4 DEF TerminatedEmpty
<1>5. CASE Load \/ \E i \in Calls : HandlerStep(i) \/ StartFails(i) \/ AnswerFails(i)
  BY <1>4, <1>5 DEF Load, HandlerStep, Started, Answered, StartFails, AnswerFails, mainVars
<1>6. QED
  BY <1>1, <1>2, <1>3, <1>5 DEF Next, ClientStep, ServerStep

(* While nothing polls and no failure is told, nothing says "started".     *)
LEMMA SilentStep ==
  ASSUME TypeInv, MatchInv, ToldInv, Next, ~Stop, ~Sound
  PROVE  \/ Sound'
         \/ /\ sidecar' # None => proxy.terminated
            /\ \A i \in Calls : ~(handler'[i].pc = "asking" /\ handler'[i].method = "start")
            /\ \A k \in DOMAIN toMain' : ~(toMain'[k].method = "start" /\ toMain'[k].ok)
            /\ ~proxy'.started
<1>1. /\ sidecar # None => proxy.terminated
      /\ \A i \in Calls : ~(handler[i].pc = "asking" /\ handler[i].method = "start")
      /\ \A i \in Calls : handler[i].pc # "starting"
      /\ \A k \in DOMAIN toMain : ~(toMain[k].method = "start" /\ toMain[k].ok)
      /\ ~proxy.started
  BY DEF ToldInv, Sound, Told
<1>2. CASE \E c \in Calls : Start(c) \/ GetSidecarId(c) \/ Register(c) \/ WorkerReady(c)
  <2>1. UNCHANGED <<proxy, toMain, handler, sidecar>>
    BY <1>2 DEF Start, GetSidecarId, Register, WorkerReady, Post, Return, workerVars
  <2>2. QED
    BY <1>1, <2>1
<1>3. ASSUME NEW c \in Calls, HandleMessage(c)
      PROVE  /\ UNCHANGED <<handler, sidecar>>
             /\ \A k \in DOMAIN toMain' : ~(toMain'[k].method = "start" /\ toMain'[k].ok)
             /\ ~proxy'.started
  <2> DEFINE msg == Head(toMain)
  <2>1. /\ 1 \in DOMAIN toMain /\ msg = toMain[1] /\ toMain' = Tail(toMain)
        /\ \A k \in DOMAIN Tail(toMain) :
             k + 1 \in DOMAIN toMain /\ Tail(toMain)[k] = toMain[k + 1]
    BY <1>3, TailOfQueue DEF HandleMessage, TypeInv, TypeOK
  <2>2. call[c].pc = "pending" /\ call[c].id = msg.id
    BY <1>3 DEF HandleMessage, Waiting
  <2>3. call[c].method = msg.method
    <3>1. PendingAs(call, msg.id, msg.method)
      BY <2>1 DEF MatchInv, ResponsesPending
    <3>2. QED
      BY <2>2, <3>1 DEF PendingAs, MatchInv, IdsUnique
  <2>4. ~(msg.ok /\ call[c].method = "start")
    BY <1>1, <2>1, <2>3
  <2>5. proxy' = [proxy EXCEPT !.started = @ \/ (msg.ok /\ call[c].method = "start"),
                               !.cached = @ \/ (msg.ok /\ call[c].method # "register")]
    BY <1>3 DEF HandleMessage
  <2> HIDE DEF msg
  <2>6. ~proxy'.started
    BY <1>1, <2>4, <2>5 DEF TypeInv, TypeOK
  <2>7. \A k \in DOMAIN toMain' : ~(toMain'[k].method = "start" /\ toMain'[k].ok)
    BY <1>1, <2>1
  <2>8. QED
    BY <1>3, <2>6, <2>7 DEF HandleMessage, workerVars
<1>4. CASE Load
  BY <1>1, <1>4 DEF Load, mainVars
<1>5. CASE FirstStart
  <2>1. Head(toWorker).id \in Calls
    BY <1>5, HeadOfRequests DEF FirstStart, Request, TypeInv
  <2>2. handler'[Head(toWorker).id].pc = "starting"
    BY <1>5, <2>1 DEF FirstStart, TypeInv, TypeOK
  <2>3. QED
    BY <2>1, <2>2 DEF Sound, Told
<1>6. CASE Ask
  <2>1. proxy.terminated
    BY <1>1, <1>6 DEF Ask
  <2>2. toWorker = <<>>
    BY <2>1 DEF ToldInv, TerminatedEmpty
  <2>3. QED
    BY <1>6, <2>2 DEF Ask, Request
<1>7. ASSUME NEW i \in Calls, NEW method \in Method, NEW ok \in BOOLEAN,
             Respond(i, method, ok), ~(method = "start" /\ ok)
      PROVE  \A k \in DOMAIN toMain' : ~(toMain'[k].method = "start" /\ toMain'[k].ok)
  <2>1. [id |-> i, method |-> method, ok |-> ok] \in Responses
    BY <1>7 DEF Responses
  <2>2. \A k \in DOMAIN toMain' :
          \/ k \in DOMAIN toMain /\ toMain'[k] = toMain[k]
          \/ toMain'[k] = [id |-> i, method |-> method, ok |-> ok]
    BY <1>7, <2>1, AppendToQueue DEF Respond, TypeInv, TypeOK
  <2>3. QED
    BY <1>1, <1>7, <2>2
<1>8. CASE NotStarted
  <2>1. Head(toWorker).id \in Calls /\ Head(toWorker).method \in Method
    BY <1>8, HeadOfRequests DEF NotStarted, Request, TypeInv
  <2>2. \A k \in DOMAIN toMain' : ~(toMain'[k].method = "start" /\ toMain'[k].ok)
    BY <1>7, <1>8, <2>1 DEF NotStarted
  <2>3. UNCHANGED <<proxy, handler, sidecar>>
    BY <1>8 DEF NotStarted, mainVars
  <2>4. QED
    BY <1>1, <2>2, <2>3
<1>9. ASSUME NEW i \in Calls, Started(i) \/ StartFails(i) PROVE FALSE
  BY <1>1, <1>9 DEF Started, StartFails
<1>10. ASSUME NEW i \in Calls, Answered(i) \/ AnswerFails(i)
       PROVE  /\ UNCHANGED <<proxy, sidecar>>
              /\ \A j \in Calls : ~(handler'[j].pc = "asking" /\ handler'[j].method = "start")
              /\ \A k \in DOMAIN toMain' : ~(toMain'[k].method = "start" /\ toMain'[k].ok)
  <2>1. handler[i].method \in Method /\ handler[i].pc = "asking"
    BY <1>10 DEF Answered, AnswerFails, TypeInv, TypeOK, Handlers
  <2>2. \A k \in DOMAIN toMain' : ~(toMain'[k].method = "start" /\ toMain'[k].ok)
    BY <1>1, <1>7, <1>10, <2>1 DEF Answered, AnswerFails
  <2>3. \A j \in Calls : ~(handler'[j].pc = "asking" /\ handler'[j].method = "start")
    <3>1. handler' = [handler EXCEPT ![i] = Idle] /\ handler \in [Calls -> Handlers]
      BY <1>10 DEF Answered, AnswerFails, Done, TypeInv, TypeOK
    <3>2. handler'[i].pc = "none" /\ \A j \in Calls \ {i} : handler'[j] = handler[j]
      BY <3>1 DEF Idle
    <3>3. QED
      BY <1>1, <3>2
  <2>4. QED
    BY <1>10, <2>2, <2>3 DEF Answered, AnswerFails, mainVars
<1>11. QED
  BY <1>1, <1>2, <1>3, <1>4, <1>5, <1>6, <1>8, <1>9, <1>10
     DEF Next, ClientStep, ServerStep, HandlerStep

LEMMA ToldStep == ASSUME TypeInv, MatchInv, ToldInv, [Next]_vars PROVE ToldInv'
<1>1. CASE UNCHANGED vars
  BY <1>1 DEF vars, ToldInv, TerminatedEmpty, Sound, Told
<1>2. CASE Stop
  <2>1. /\ toWorker' = <<>> /\ DOMAIN toMain' = {}
        /\ \A i \in Calls : handler'[i].pc = "none"
    BY <1>2 DEF Stop, Idle
  <2>2. proxy'.terminated /\ ~proxy'.started
    BY <1>2 DEF Stop
  <2>3. QED
    BY <2>1, <2>2 DEF ToldInv, TerminatedEmpty
<1>3. CASE Next /\ ~Stop /\ Sound
  <2>1. Sound' /\ TerminatedEmpty'
    BY <1>3, SoundStep, TerminatedStep DEF ToldInv
  <2>2. QED
    BY <2>1 DEF ToldInv
<1>4. CASE Next /\ ~Stop /\ ~Sound
  <2>1. TerminatedEmpty' /\ proxy'.terminated = proxy.terminated
    BY <1>4, TerminatedStep DEF ToldInv
  <2>2. QED
    BY <1>4, <2>1, SilentStep DEF ToldInv
<1>5. QED
  BY <1>1, <1>2, <1>3, <1>4

(* A proxy that says it has started has a polling sidecar behind it, or    *)
(* some caller of start is told of the failure.                            *)
THEOREM FailuresTold == Spec => []FailuresAreTold
<1>1. ToldInv => FailuresAreTold
  BY DEF ToldInv, Sound, Told, FailuresAreTold
<1>2. Init => ToldInv
  BY ToldInit
<1>3. TypeInv /\ MatchInv /\ ToldInv /\ [Next]_vars => ToldInv'
  BY ToldStep
<1>4. QED
  BY <1>1, <1>2, <1>3, MatchInvariant, PTL DEF Spec

===============================================================================
