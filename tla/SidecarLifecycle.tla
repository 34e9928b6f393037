--------------------------- MODULE SidecarLifecycle ---------------------------
(***************************************************************************)
(* The life of an in-process Sidecar: the guarded start of the application *)
(* object that owns it (Qkms.ensureSidecarStarted, QkmsClient.             *)
(* ensureStarted), Sidecar.start and stop, the creation of the identity in *)
(* a storage that the applications share (two tabs, two processes with one *)
(* data directory), and the poll loops.                                    *)
(*                                                                         *)
(* Sidecar.start is asynchronous, and sets `started' at its very end:      *)
(*                                                                         *)
(*   wasm --> read --> write --> register --> [resolved -->] done          *)
(*                                       \--> [rejected -->] failed        *)
(*                                                                         *)
(* The guard reacts to the outcome in a microtask of its own (the handlers *)
(* of its `then'), so a start called through it is resolved, or rejected,  *)
(* before the guard knows; logout and stop are synchronous and fit in      *)
(* between.  Every call of start is an invocation of its own here, numbered   *)
(* in the order of the calls; the poll loop it makes bears the same        *)
(* number, and an identity is named after the invocation that generated it.*)
(*                                                                         *)
(* The work of a tick is reduced to one task whose rounds are dispatched   *)
(* through TaskDispatcher's cache.                                         *)
(***************************************************************************)
EXTENDS Naturals

CONSTANTS
  App,             \* the application objects; all use the same storage
  MaxStarts,       \* bound: calls of Sidecar.start per application
  MaxRound,        \* bound: rounds of the task
  MaxFaults,       \* bound: failed storage, register and poll calls
  MaxStops,        \* bound: calls of logout / stop
  MaxReloads,      \* bound: page reloads, process restarts
  DirectStarts,    \* callers may call sidecar.start() besides the guarded one
  ImpatientStops,  \* callers may stop while a start is in flight
  ClearsOnFailure  \* a rejected start is forgotten: TRUE in Qkms, FALSE in QkmsClient

ASSUME BoundsAssumption ==
  /\ MaxStarts \in Nat
  /\ MaxRound \in Nat
  /\ MaxFaults \in Nat
  /\ MaxStops \in Nat
  /\ MaxReloads \in Nat
ASSUME CallersAssumption ==
  /\ DirectStarts \in BOOLEAN
  /\ ImpatientStops \in BOOLEAN
  /\ ClearsOnFailure \in BOOLEAN

VARIABLES
  stored,      \* storage: the identity record
  registered,  \* server: the registered identities
  app,         \* the guard: sidecarStarted and sidecarStartPromise
  sidecar,     \* the Sidecar's own fields
  start,       \* the invocations of Sidecar.start
  loop,        \* the PollLoop each invocation may have made
  submitted,   \* TaskDispatcher.submittedRounds
  round,       \* server: the round of the application's task
  wanted,      \* history: started and not stopped since
  overtaken,   \* history: a stop came before the guard learned of a start that was over
  budget       \* the faults, stops and reloads so far

vars == <<stored, registered, app, sidecar, start, loop, submitted, round, wanted, overtaken,
          budget>>

Invocation == 1 .. MaxStarts
None == 0
Identity == App \X Invocation
NoIdentity == <<>>

Apps == [started : BOOLEAN, promise : Invocation \cup {None}]
Sidecars == [started : BOOLEAN, identity : Identity \cup {NoIdentity},
             loop : Invocation \cup {None}]
Starts == [pc : {"free", "wasm", "read", "write", "register", "resolved", "rejected",
                 "done", "failed"},
           guarded : BOOLEAN, id : Identity \cup {NoIdentity}]
Loops == [running : BOOLEAN, timer : BOOLEAN, tick : {"none", "list", "process"},
          round : 0 .. MaxRound, id : Identity \cup {NoIdentity}]

FreshApp == [started |-> FALSE, promise |-> None]
FreshSidecar == [started |-> FALSE, identity |-> NoIdentity, loop |-> None]
FreeStart == [pc |-> "free", guarded |-> FALSE, id |-> NoIdentity]
NoLoop == [running |-> FALSE, timer |-> FALSE, tick |-> "none", round |-> 0,
           id |-> NoIdentity]

Init ==
  /\ stored = NoIdentity
  /\ registered = {}
  /\ app = [a \in App |-> FreshApp]
  /\ sidecar = [a \in App |-> FreshSidecar]
  /\ start = [a \in App |-> [s \in Invocation |-> FreeStart]]
  /\ loop = [a \in App |-> [s \in Invocation |-> NoLoop]]
  /\ submitted = [a \in App |-> {}]
  /\ round = [a \in App |-> 0]
  /\ wanted = [a \in App |-> FALSE]
  /\ overtaken = [a \in App |-> FALSE]
  /\ budget = [faults |-> MaxFaults, stops |-> MaxStops, reloads |-> MaxReloads]

Spend(kind) ==
  /\ budget[kind] > 0
  /\ budget' = [budget EXCEPT ![kind] = @ - 1]

-------------------------------------------------------------------------------
(* Sidecar.start, one action per stretch between two awaits.               *)

(* Under way, or over without the guard's knowledge.                       *)
InFlight(a, s) ==
  start[a][s].pc \in {"wasm", "read", "write", "register", "resolved", "rejected"}
NextInvocation(a, s) ==
  /\ start[a][s].pc = "free"
  /\ \A r \in 1 .. s - 1 : start[a][r].pc # "free"

(* The end of a start: the guard is yet to react to one of its own.        *)
Over(guarded) == IF guarded THEN "resolved" ELSE "done"
Thrown(guarded) == IF guarded THEN "rejected" ELSE "failed"

(* A call of Sidecar.start: it returns at once if the sidecar has started. *)
Call(a, s, guarded) ==
  start' = [start EXCEPT ![a][s] =
              [FreeStart EXCEPT !.pc = IF sidecar[a].started THEN Over(guarded) ELSE "wasm",
                                !.guarded = guarded]]

(* Mutant: the promise of a start under way is not kept.                   *)
EnsureStartedUnshared(a, s) ==
  /\ ~app[a].started
  /\ NextInvocation(a, s)
  /\ Call(a, s, TRUE)
  /\ wanted' = [wanted EXCEPT ![a] = TRUE]
  /\ UNCHANGED <<stored, registered, app, sidecar, loop, submitted, round, overtaken, budget>>

(* ensureSidecarStarted: one call of start as long as its promise lives.   *)
EnsureStarted(a, s) ==
  /\ ~app[a].started
  /\ app[a].promise = None
  /\ NextInvocation(a, s)
  /\ Call(a, s, TRUE)
  /\ app' = [app EXCEPT ![a].promise = s]
  /\ wanted' = [wanted EXCEPT ![a] = TRUE]
  /\ UNCHANGED <<stored, registered, sidecar, loop, submitted, round, overtaken, budget>>

(* qkms.sidecar.start(), past the guard.                                   *)
StartDirectly(a, s) ==
  /\ DirectStarts
  /\ NextInvocation(a, s)
  /\ Call(a, s, FALSE)
  /\ wanted' = [wanted EXCEPT ![a] = TRUE]
  /\ UNCHANGED <<stored, registered, app, sidecar, loop, submitted, round, overtaken, budget>>

(* initAllWasm is done; getIdentity answers from the field if it is set.   *)
WasmLoaded(a, s) ==
  /\ start[a][s].pc = "wasm"
  /\ start' = [start EXCEPT
       ![a][s].pc = IF sidecar[a].identity = NoIdentity THEN "read" ELSE "register",
       ![a][s].id = sidecar[a].identity]
  /\ UNCHANGED <<stored, registered, app, sidecar, loop, submitted, round, wanted, overtaken,
                 budget>>

(* loadOrCreateIdentity: the stored identity, or a new one to be stored.   *)
FindIdentity(a, s) ==
  /\ start[a][s].pc = "read"
  /\ stored # NoIdentity
  /\ start' = [start EXCEPT ![a][s].pc = "register", ![a][s].id = stored]
  /\ sidecar' = [sidecar EXCEPT ![a].identity = stored]
  /\ UNCHANGED <<stored, registered, app, loop, submitted, round, wanted, overtaken,
                 budget>>

GenerateIdentity(a, s) ==
  /\ start[a][s].pc = "read"
  /\ stored = NoIdentity
  /\ start' = [start EXCEPT ![a][s].pc = "write", ![a][s].id = <<a, s>>]
  /\ UNCHANGED <<stored, registered, app, sidecar, loop, submitted, round, wanted, overtaken,
                 budget>>

(* Mutant: a new identity is used without being stored.                    *)
StoreIdentityLater(a, s) ==
  /\ start[a][s].pc = "write"
  /\ sidecar' = [sidecar EXCEPT ![a].identity = start[a][s].id]
  /\ start' = [start EXCEPT ![a][s].pc = "register"]
  /\ UNCHANGED <<stored, registered, app, loop, submitted, round, wanted, overtaken,
                 budget>>

StoreIdentity(a, s) ==
  /\ start[a][s].pc = "write"
  /\ stored' = start[a][s].id
  /\ sidecar' = [sidecar EXCEPT ![a].identity = start[a][s].id]
  /\ start' = [start EXCEPT ![a][s].pc = "register"]
  /\ UNCHANGED <<registered, app, loop, submitted, round, wanted, overtaken, budget>>

(* PollLoop.start: the first tick follows at once.                         *)
StartedLoop(i) == [running |-> TRUE, timer |-> TRUE, tick |-> "none", round |-> 0, id |-> i]

(* The rest of start: a new loop, armed at once, replaces the field        *)
(* pollLoop, whatever that held.                                           *)
BeginPolling(a, s) ==
  /\ loop' = [loop EXCEPT ![a][s] = StartedLoop(start[a][s].id)]
  /\ sidecar' = [sidecar EXCEPT ![a].started = TRUE, ![a].loop = s]
  /\ start' = [start EXCEPT ![a][s].pc = Over(start[a][s].guarded)]
  /\ overtaken' = [overtaken EXCEPT ![a] = FALSE]

(* RegisterSidecar succeeds or reports that the identity is known.         *)
Register(a, s) ==
  /\ start[a][s].pc = "register"
  /\ registered' = registered \cup {start[a][s].id}
  /\ BeginPolling(a, s)
  /\ UNCHANGED <<stored, app, submitted, round, wanted, budget>>

(* A start that rejects.                                                   *)
Reject(a, s) ==
  /\ Spend("faults")
  /\ start' = [start EXCEPT ![a][s].pc = Thrown(start[a][s].guarded)]
  /\ UNCHANGED <<stored, app, sidecar, loop, submitted, round, wanted, overtaken>>

StorageFails(a, s) ==
  /\ start[a][s].pc \in {"read", "write"}
  /\ Reject(a, s)
  /\ UNCHANGED registered

(* Mutant: whatever the server answers counts as registered.               *)
RegisterFailsIgnored(a, s) ==
  /\ start[a][s].pc = "register"
  /\ Spend("faults")
  /\ BeginPolling(a, s)
  /\ UNCHANGED <<stored, registered, app, submitted, round, wanted>>

(* The call fails before or after the server registered the identity.      *)
RegisterFails(a, s) ==
  /\ start[a][s].pc = "register"
  /\ registered' \in {registered, registered \cup {start[a][s].id}}
  /\ Reject(a, s)

(* The guard's handlers.  They set its fields whatever has happened since  *)
(* the start was over: a logout, or a later start.                         *)
Settle(a, s) ==
  /\ start[a][s].pc = "resolved"
  /\ start' = [start EXCEPT ![a][s].pc = "done"]
  /\ app' = [app EXCEPT ![a].started = TRUE]
  /\ UNCHANGED <<stored, registered, sidecar, loop, submitted, round, wanted, overtaken,
                 budget>>

(* Mutant: a rejected start stays the answer to every later call.          *)
RejectKept(a, s) ==
  /\ start[a][s].pc = "rejected"
  /\ start' = [start EXCEPT ![a][s].pc = "failed"]
  /\ UNCHANGED <<stored, registered, app, sidecar, loop, submitted, round, wanted, overtaken,
                 budget>>

(* Qkms drops the promise it holds, which may be that of a later start.    *)
SettleRejected(a, s) ==
  /\ start[a][s].pc = "rejected"
  /\ start' = [start EXCEPT ![a][s].pc = "failed"]
  /\ app' = IF ClearsOnFailure THEN [app EXCEPT ![a].promise = None] ELSE app
  /\ UNCHANGED <<stored, registered, sidecar, loop, submitted, round, wanted, overtaken,
                 budget>>

-------------------------------------------------------------------------------
(* PollLoop.                                                               *)

(* The timer fires; a loop that was stopped returns from tick at once.     *)
BeginTick(a, s) ==
  /\ loop[a][s].timer
  /\ loop' = [loop EXCEPT ![a][s].timer = FALSE,
                          ![a][s].tick = IF loop[a][s].running THEN "list" ELSE "none"]
  /\ UNCHANGED <<stored, registered, app, sidecar, start, submitted, round, wanted, overtaken,
                 budget>>

(* Mutant: the loop is re-armed whether or not it was stopped.             *)
RearmedAlways(l) == [l EXCEPT !.tick = "none", !.timer = TRUE, !.running = TRUE]

(* The finally of tick: scheduleNext re-arms the timer of a running loop.  *)
Rearmed(l) == [l EXCEPT !.tick = "none", !.timer = l.running]

EndTick(a, s) == loop' = [loop EXCEPT ![a][s] = Rearmed(loop[a][s])]

(* ListTasks answers; a round in the dispatcher's cache is skipped.        *)
NothingToDo(a, s) ==
  /\ loop[a][s].tick = "list"
  /\ round[a] = MaxRound \/ round[a] \in submitted[a]
  /\ EndTick(a, s)
  /\ UNCHANGED <<stored, registered, app, sidecar, start, submitted, round, wanted, overtaken,
                 budget>>

Dispatch(a, s) ==
  /\ loop[a][s].tick = "list"
  /\ round[a] < MaxRound
  /\ round[a] \notin submitted[a]
  /\ loop' = [loop EXCEPT ![a][s].tick = "process", ![a][s].round = round[a]]
  /\ UNCHANGED <<stored, registered, app, sidecar, start, submitted, round, wanted, overtaken,
                 budget>>

(* The session has processed the round and the server moves on.            *)
Processed(a, s) ==
  /\ loop[a][s].tick = "process"
  /\ submitted' = [submitted EXCEPT ![a] = @ \cup {loop[a][s].round}]
  /\ round' = [round EXCEPT ![a] = IF @ = loop[a][s].round THEN @ + 1 ELSE @]
  /\ EndTick(a, s)
  /\ UNCHANGED <<stored, registered, app, sidecar, start, wanted, overtaken, budget>>

(* Mutant: scheduleNext outside the finally, skipped by an exception.      *)
TickFailsUnarmed(a, s) ==
  /\ loop[a][s].tick # "none"
  /\ Spend("faults")
  /\ loop' = [loop EXCEPT ![a][s].tick = "none"]
  /\ UNCHANGED <<stored, registered, app, sidecar, start, submitted, round, wanted, overtaken>>

(* ListTasks or the session throws: caught and logged, nothing cached.     *)
TickFails(a, s) ==
  /\ loop[a][s].tick # "none"
  /\ Spend("faults")
  /\ EndTick(a, s)
  /\ UNCHANGED <<stored, registered, app, sidecar, start, submitted, round, wanted, overtaken>>

(* A start of the guard is over, and the guard has not learned of it.      *)
LateGuard(a) == \E s \in Invocation : start[a][s].pc = "resolved"

(* Mutant: logout leaves sidecarStarted set.                               *)
StopStillStarted(a) ==
  /\ Spend("stops")
  /\ ImpatientStops \/ \A s \in Invocation : ~InFlight(a, s)
  /\ loop' = IF sidecar[a].started
             THEN [loop EXCEPT ![a][sidecar[a].loop].running = FALSE,
                               ![a][sidecar[a].loop].timer = FALSE]
             ELSE loop
  /\ sidecar' = [sidecar EXCEPT ![a].started = FALSE,
                                ![a].loop = IF sidecar[a].started THEN None ELSE @]
  /\ app' = [app EXCEPT ![a].promise = None]
  /\ wanted' = [wanted EXCEPT ![a] = FALSE]
  /\ overtaken' = [overtaken EXCEPT ![a] = LateGuard(a)]
  /\ UNCHANGED <<stored, registered, start, submitted, round>>

-------------------------------------------------------------------------------
(* auth.logout, QkmsClient.stop: Sidecar.stop does nothing unless started; *)
(* otherwise it stops the loop it knows, whose tick may be suspended.      *)
Stop(a) ==
  /\ Spend("stops")
  /\ ImpatientStops \/ \A s \in Invocation : ~InFlight(a, s)
  /\ loop' = IF sidecar[a].started
             THEN [loop EXCEPT ![a][sidecar[a].loop].running = FALSE,
                               ![a][sidecar[a].loop].timer = FALSE]
             ELSE loop
  /\ sidecar' = [sidecar EXCEPT ![a].started = FALSE,
                                ![a].loop = IF sidecar[a].started THEN None ELSE @]
  /\ app' = [app EXCEPT ![a] = FreshApp]
  /\ wanted' = [wanted EXCEPT ![a] = FALSE]
  /\ overtaken' = [overtaken EXCEPT ![a] = LateGuard(a)]
  /\ UNCHANGED <<stored, registered, start, submitted, round>>

(* A new page or process: only the storage and the server remember.        *)
Reload(a) ==
  /\ Spend("reloads")
  /\ app' = [app EXCEPT ![a] = FreshApp]
  /\ sidecar' = [sidecar EXCEPT ![a] = FreshSidecar]
  /\ start' = [start EXCEPT ![a] = [s \in Invocation |->
       IF InFlight(a, s) THEN [start[a][s] EXCEPT !.pc = "failed"] ELSE start[a][s]]]
  /\ loop' = [loop EXCEPT ![a] = [s \in Invocation |-> NoLoop]]
  /\ submitted' = [submitted EXCEPT ![a] = {}]
  /\ wanted' = [wanted EXCEPT ![a] = FALSE]
  /\ overtaken' = [overtaken EXCEPT ![a] = FALSE]
  /\ UNCHANGED <<stored, registered, round>>

StartStep(a, s) ==
  \/ WasmLoaded(a, s)
  \/ FindIdentity(a, s)
  \/ GenerateIdentity(a, s)
  \/ StoreIdentity(a, s)
  \/ Register(a, s)
  \/ StorageFails(a, s)
  \/ RegisterFails(a, s)
  \/ Settle(a, s)
  \/ SettleRejected(a, s)

TickStep(a, s) ==
  \/ BeginTick(a, s)
  \/ NothingToDo(a, s)
  \/ Dispatch(a, s)
  \/ Processed(a, s)
  \/ TickFails(a, s)

Next ==
  \E a \in App :
    \/ Stop(a)
    \/ Reload(a)
    \/ \E s \in Invocation :
         \/ EnsureStarted(a, s)
         \/ StartDirectly(a, s)
         \/ StartStep(a, s)
         \/ TickStep(a, s)

Spec == Init /\ [][Next]_vars

(* Promises settle and timers fire.  Applications call ensureSidecarStarted *)
(* on every use, so it is called again as long as it has not succeeded.    *)
Fairness ==
  \A a \in App : \A s \in Invocation :
    /\ WF_vars(EnsureStarted(a, s))
    /\ WF_vars(StartStep(a, s))
    /\ WF_vars(TickStep(a, s))

FairSpec == Spec /\ Fairness

-------------------------------------------------------------------------------
Budgets == [faults : 0 .. MaxFaults, stops : 0 .. MaxStops, reloads : 0 .. MaxReloads]

(* Every variable has its type: the fields of Qkms and Sidecar, the calls  *)
(* of start and the loops.                                                 *)
TypeOK ==
  /\ stored \in Identity \cup {NoIdentity}
  /\ registered \subseteq Identity
  /\ app \in [App -> Apps]
  /\ sidecar \in [App -> Sidecars]
  /\ start \in [App -> [Invocation -> Starts]]
  /\ loop \in [App -> [Invocation -> Loops]]
  /\ submitted \in [App -> SUBSET (0 .. MaxRound)]
  /\ round \in [App -> 0 .. MaxRound]
  /\ wanted \in [App -> BOOLEAN]
  /\ overtaken \in [App -> BOOLEAN]
  /\ budget \in Budgets

Armed(l) == l.timer \/ l.tick # "none"

Polling(a) ==
  /\ sidecar[a].started
  /\ sidecar[a].loop # None
  /\ LET l == loop[a][sidecar[a].loop] IN l.running /\ Armed(l)

(* Whoever is told that the sidecar has started (the early return of       *)
(* ensureSidecarStarted) has one whose loop is running and will tick again,*)
(* however starts, stops, failures and reloads interleave; except that a   *)
(* stop which came between the end of a start and the guard's reaction to  *)
(* it leaves a guard that says `started', until the next stop or start.    *)
StartedIsPolling ==
  \A a \in App : app[a].started /\ ~overtaken[a] => Polling(a)

(* Without the exception: "Start the in-process sidecar so DKG and signing *)
(* tasks are processed. Idempotent" (client.ts:162-163 of the Node client).*)
StartedPollsAnyway == \A a \in App : app[a].started => Polling(a)

(* A loop polls only as an identity the server has registered, although    *)
(* start swallows some errors of RegisterSidecar.                          *)
PollsAsRegistered ==
  \A a \in App : \A s \in Invocation :
    Armed(loop[a][s]) => loop[a][s].id \in registered

(* A loop that was stopped never lists tasks again: neither a timer that   *)
(* was armed nor a tick that was suspended revives it.                     *)
StoppedStep ==
  \A a \in App : \A s \in Invocation :
    start[a][s].pc \in {"resolved", "done"} /\ ~loop[a][s].running =>
      /\ ~loop'[a][s].running
      /\ loop'[a][s].tick = "list" => loop[a][s].tick = "list"

StoppedStaysStopped == [][StoppedStep]_vars

(* At most one loop of a sidecar runs, the one that stop would stop.       *)
(* Holds for callers that use the guarded start and wait for it.           *)
OneLoop ==
  \A a \in App : \A s \in Invocation :
    loop[a][s].running => sidecar[a].loop = s

(* Every loop polls as the one identity in the storage: "Generated once on *)
(* first run, then reused" (storage/adapter.ts:6).                         *)
OneIdentity ==
  \A a \in App : \A s \in Invocation :
    loop[a][s].running => loop[a][s].id = stored

(* No tick lists tasks for an application that has stopped its sidecar:    *)
(* "Stop the sidecar polling loop and release resources" (QkmsClient.stop).*)
StopStops ==
  [][\A a \in App : \A s \in Invocation :
       loop[a][s].tick = "none" /\ loop'[a][s].tick = "list" => wanted[a]]_vars

(* No round is in the hands of two ticks of one dispatcher at once: the    *)
(* cache is there "to avoid corrupting protocol state when the server      *)
(* re-issues the same task round" (dispatch.ts:10-11).                     *)
ProcessedOnce ==
  \A a \in App : \A s, t \in Invocation :
    s # t /\ loop[a][s].tick = "process" /\ loop[a][t].tick = "process"
      => loop[a][s].round # loop[a][t].round

(* An application that keeps asking gets a started sidecar, failures of    *)
(* earlier starts notwithstanding, unless it stops or reloads.             *)
EventuallyStarted == \A a \in App : wanted[a] ~> (app[a].started \/ ~wanted[a])

(* A started sidecar lists its tasks again and again, whatever its ticks   *)
(* ran into.                                                               *)
KeepsPolling ==
  \A a \in App : []<>(app[a].started => loop[a][sidecar[a].loop].tick = "list")

===============================================================================
