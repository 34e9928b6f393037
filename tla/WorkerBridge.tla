---------------------------- MODULE WorkerBridge ----------------------------
(***************************************************************************)
(* A WorkerSidecar on the main thread, the RpcClient and RpcServer under   *)
(* it, and the sidecar worker at the other end.                            *)
(*                                                                         *)
(* The worker's handlers are asynchronous: a request is taken from the     *)
(* port when the one before it has suspended, not when it is answered, so  *)
(* answers leave in another order than requests came in, and a second      *)
(* start is served while the first is still under way.                     *)
(*                                                                         *)
(* WorkerSidecar.start waits for the ready event or for two seconds,       *)
(* whichever comes first, and goes on in both cases: it goes on whenever   *)
(* it will.  The port keeps what is posted before the worker has loaded.   *)
(* A sidecar is named after the request that built it; what Sidecar.start  *)
(* does inside is the business of SidecarLifecycle, and here it succeeds   *)
(* or fails.  The worker's stop handler has no caller, because the proxy   *)
(* terminates the worker.                                                  *)
(***************************************************************************)
EXTENDS Naturals, Sequences, FiniteSets

CONSTANTS
  MaxCalls,   \* bound: calls of the proxy's methods
  MaxFaults   \* bound: starts, storage and registrations that fail

ASSUME BoundsAssumption == MaxCalls \in Nat /\ MaxFaults \in Nat

VARIABLES
  call,      \* the calls of start, getSidecarId and register
  nextId,    \* RpcClient.nextId
  proxy,     \* WorkerSidecar.started, cachedSidecarId, and whether it has terminated
  toWorker,  \* requests posted and not yet taken
  toMain,    \* responses posted and not yet taken
  loaded,    \* worker: the module body has run
  sidecar,   \* worker: the variable of this name
  handler,   \* worker: the handlers that are suspended
  polling,   \* worker: the sidecars that have started
  faults

vars == <<call, nextId, proxy, toWorker, toMain, loaded, sidecar, handler, polling, faults>>

Calls == 1 .. MaxCalls
Method == {"start", "getSidecarId", "register"}
None == 0
FreeCall == [pc |-> "free", method |-> "start", id |-> None, answer |-> "start"]
PostedCall(method, i) ==
  [pc |-> "pending", method |-> method, id |-> i, answer |-> "start"]
ReturnedCall(method) ==
  [pc |-> "resolved", method |-> method, id |-> None, answer |-> method]
Idle == [pc |-> "none", method |-> "start", on |-> None]

Init ==
  /\ call = [c \in Calls |-> FreeCall]
  /\ nextId = 1
  /\ proxy = [started |-> FALSE, cached |-> FALSE, terminated |-> FALSE]
  /\ toWorker = <<>>
  /\ toMain = <<>>
  /\ loaded = FALSE
  /\ sidecar = None
  /\ handler = [i \in Calls |-> Idle]
  /\ polling = {}
  /\ faults = MaxFaults

workerVars == <<loaded, sidecar, handler, polling, faults>>

-------------------------------------------------------------------------------
(* The main thread.                                                        *)

NextCall(c) == /\ call[c].pc = "free"
               /\ \A b \in 1 .. c - 1 : call[b].pc # "free"

(* RpcClient.call: a terminated worker takes nothing.                      *)
Post(c, method) ==
  /\ call' = [call EXCEPT ![c] = PostedCall(method, nextId)]
  /\ nextId' = nextId + 1
  /\ toWorker' = IF proxy.terminated THEN toWorker
                 ELSE Append(toWorker, [id |-> nextId, method |-> method])
  /\ UNCHANGED <<proxy, toMain>>

Return(c, method) ==
  /\ call' = [call EXCEPT ![c] = ReturnedCall(method)]
  /\ UNCHANGED <<nextId, proxy, toWorker, toMain>>

Start(c) ==
  /\ NextCall(c)
  /\ IF proxy.started THEN Return(c, "start")
     ELSE /\ call' = [call EXCEPT ![c].pc = "booting"]
          /\ UNCHANGED <<nextId, proxy, toWorker, toMain>>
  /\ UNCHANGED workerVars

WorkerReady(c) ==
  /\ call[c].pc = "booting"
  /\ Post(c, "start")
  /\ UNCHANGED workerVars

GetSidecarId(c) ==
  /\ NextCall(c)
  /\ IF proxy.cached THEN Return(c, "getSidecarId") ELSE Post(c, "getSidecarId")
  /\ UNCHANGED workerVars

Register(c) ==
  /\ NextCall(c)
  /\ Post(c, "register")
  /\ UNCHANGED workerVars

(* The call a response is for.                                             *)
\* mutant: the oldest call that waits
WaitingLongest(c, msg) ==
  /\ call[c].pc = "pending"
  /\ \A b \in Calls : call[b].pc = "pending" => call[c].id <= call[b].id
Waiting(c, msg) == call[c].pc = "pending" /\ call[c].id = msg.id

(* RpcClient.handleMessage, and what the caller does with the answer.      *)
HandleMessage(c) ==
  /\ toMain # <<>>
  /\ Waiting(c, Head(toMain))
  /\ LET msg == Head(toMain) IN
       /\ toMain' = Tail(toMain)
       /\ call' = [call EXCEPT ![c].pc = IF msg.ok THEN "resolved" ELSE "rejected",
                               ![c].answer = msg.method]
       /\ proxy' = [proxy EXCEPT
            !.started = @ \/ (msg.ok /\ call[c].method = "start"),
            !.cached = @ \/ (msg.ok /\ call[c].method # "register")]
  /\ UNCHANGED <<nextId, toWorker, workerVars>>

(* WorkerSidecar.stop: the ports are emptied, and nothing in the worker    *)
(* goes on.                                                                *)
Stop ==
  /\ proxy.started
  /\ proxy' = [started |-> FALSE, cached |-> FALSE, terminated |-> TRUE]
  /\ toWorker' = <<>>
  /\ toMain' = <<>>
  /\ handler' = [i \in Calls |-> Idle]
  /\ polling' = {}
  /\ UNCHANGED <<call, nextId, loaded, sidecar, faults>>

-------------------------------------------------------------------------------
(* The worker.                                                             *)

mainVars == <<call, nextId, proxy>>

Load ==
  /\ ~loaded
  /\ loaded' = TRUE
  /\ UNCHANGED <<mainVars, toWorker, toMain, sidecar, handler, polling, faults>>

Respond(i, method, ok) == toMain' = Append(toMain, [id |-> i, method |-> method, ok |-> ok])

(* RpcServer.handleMessage, up to the handler's first await.               *)
Request(method) == loaded /\ toWorker # <<>> /\ Head(toWorker).method = method
Take == toWorker' = Tail(toWorker)

\* mutant: the variable is set when start has returned
FirstStartUnmarked ==
  /\ Request("start") /\ sidecar = None /\ Take
  /\ LET i == Head(toWorker).id IN
       handler' = [handler EXCEPT ![i] = [pc |-> "starting", method |-> "start", on |-> i]]
  /\ UNCHANGED <<mainVars, toMain, loaded, sidecar, polling, faults>>
FirstStart ==
  /\ Request("start") /\ sidecar = None /\ Take
  /\ LET i == Head(toWorker).id IN
       /\ sidecar' = i
       /\ handler' = [handler EXCEPT ![i] = [pc |-> "starting", method |-> "start", on |-> i]]
  /\ UNCHANGED <<mainVars, toMain, loaded, polling, faults>>

(* A start that finds a sidecar, and the other methods: they ask it.       *)
Ask ==
  /\ \E method \in Method : Request(method)
  /\ sidecar # None
  /\ Take
  /\ handler' = [handler EXCEPT ![Head(toWorker).id] =
       [pc |-> "asking", method |-> Head(toWorker).method, on |-> sidecar]]
  /\ UNCHANGED <<mainVars, toMain, loaded, sidecar, polling, faults>>

(* requireStarted throws.                                                  *)
NotStarted ==
  /\ Request("getSidecarId") \/ Request("register")
  /\ sidecar = None
  /\ Take
  /\ Respond(Head(toWorker).id, Head(toWorker).method, FALSE)
  /\ UNCHANGED <<mainVars, loaded, sidecar, handler, polling, faults>>

Done(i) == handler' = [handler EXCEPT ![i] = Idle]

Started(i) ==
  /\ handler[i].pc = "starting"
  /\ polling' = polling \cup {handler[i].on}
  /\ Respond(i, "start", TRUE)
  /\ Done(i)
  /\ UNCHANGED <<mainVars, toWorker, loaded, sidecar, faults>>

\* mutant: the handler's catch does not throw again
StartSwallowed(i) ==
  /\ handler[i].pc = "starting" /\ faults > 0 /\ faults' = faults - 1
  /\ sidecar' = None
  /\ Respond(i, "start", TRUE)
  /\ Done(i)
  /\ UNCHANGED <<mainVars, toWorker, loaded, polling>>
StartFails(i) ==
  /\ handler[i].pc = "starting" /\ faults > 0 /\ faults' = faults - 1
  /\ sidecar' = None
  /\ Respond(i, "start", FALSE)
  /\ Done(i)
  /\ UNCHANGED <<mainVars, toWorker, loaded, polling>>

Answered(i) ==
  /\ handler[i].pc = "asking"
  /\ Respond(i, handler[i].method, TRUE)
  /\ Done(i)
  /\ UNCHANGED <<mainVars, toWorker, loaded, sidecar, polling, faults>>

\* mutant: RpcServer answers only what succeeds
AnswerForgotten(i) ==
  /\ handler[i].pc = "asking" /\ faults > 0 /\ faults' = faults - 1
  /\ Done(i)
  /\ UNCHANGED <<mainVars, toWorker, toMain, loaded, sidecar, polling>>
AnswerFails(i) ==
  /\ handler[i].pc = "asking" /\ faults > 0 /\ faults' = faults - 1
  /\ Respond(i, handler[i].method, FALSE)
  /\ Done(i)
  /\ UNCHANGED <<mainVars, toWorker, loaded, sidecar, polling>>

-------------------------------------------------------------------------------
ClientStep == \E c \in Calls : WorkerReady(c) \/ HandleMessage(c)
ServerStep == Load \/ FirstStart \/ Ask \/ NotStarted
HandlerStep(i) == Started(i) \/ Answered(i)

Next ==
  \/ \E c \in Calls : Start(c) \/ GetSidecarId(c) \/ Register(c)
  \/ Stop
  \/ ClientStep
  \/ ServerStep
  \/ \E i \in Calls : HandlerStep(i) \/ StartFails(i) \/ AnswerFails(i)

Spec == Init /\ [][Next]_vars
FairSpec ==
  /\ Spec
  /\ WF_vars(ClientStep)
  /\ WF_vars(ServerStep)
  /\ \A i \in Calls : WF_vars(HandlerStep(i))

-------------------------------------------------------------------------------
CallRecords ==
  [pc : {"free", "booting", "pending", "resolved", "rejected"}, method : Method,
   id : 0 .. MaxCalls, answer : Method]
Requests == [id : Calls, method : Method]
Responses == [id : Calls, method : Method, ok : BOOLEAN]
Handlers == [pc : {"none", "starting", "asking"}, method : Method, on : 0 .. MaxCalls]

TypeOK ==
  /\ call \in [Calls -> CallRecords]
  /\ nextId \in 1 .. MaxCalls + 1
  /\ proxy \in [started : BOOLEAN, cached : BOOLEAN, terminated : BOOLEAN]
  /\ toWorker \in Seq(Requests)
  /\ toMain \in Seq(Responses)
  /\ loaded \in BOOLEAN
  /\ sidecar \in 0 .. MaxCalls
  /\ handler \in [Calls -> Handlers]
  /\ polling \subseteq Calls
  /\ faults \in 0 .. MaxFaults

(* However the handlers overtake each other, a call gets the answer to its *)
(* own request and no response is left over (rpc.ts: requests correlated   *)
(* by id).                                                                 *)
AnswersMatchCalls ==
  /\ \A c \in Calls : call[c].pc \in {"resolved", "rejected"} => call[c].answer = call[c].method
  /\ \A k \in DOMAIN toMain : \E c \in Calls : Waiting(c, toMain[k])

(* However many start requests overlap, fail and are repeated, the worker  *)
(* has one sidecar that polls (sidecar-worker.ts: `if (sidecar)').         *)
OneSidecarPolls == Cardinality(polling) <= 1

(* A proxy that says it has started has a polling sidecar behind it, or    *)
(* some caller of start is told of the failure.                            *)
FailuresAreTold ==
  proxy.started /\ polling = {} =>
    \/ \E c \in Calls : call[c].method = "start" /\ call[c].pc = "rejected"
    \/ \E k \in DOMAIN toMain : toMain[k].method = "start" /\ ~toMain[k].ok
    \/ \E i \in Calls : handler[i].pc = "starting"

(* Every call is settled, unless the worker is terminated, which leaves    *)
(* its pending calls unsettled for ever.                                   *)
EveryCallSettles ==
  \A c \in Calls :
    call[c].pc \in {"booting", "pending"} ~>
      (call[c].pc \in {"resolved", "rejected"} \/ proxy.terminated)

(* sidecar-worker.ts:128, "Idempotent: calling start() twice is fine.":    *)
(* once a start has returned, and no other is pending, the sidecar polls.  *)
SecondStartIsFine ==
  proxy.started =>
    \/ polling # {}
    \/ \E c \in Calls : call[c].method = "start" /\ call[c].pc = "pending"

===============================================================================
