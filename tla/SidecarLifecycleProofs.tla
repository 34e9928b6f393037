------------------------ MODULE SidecarLifecycleProofs ------------------------
(***************************************************************************)
(* Proofs about SidecarLifecycle, for any set of applications and any      *)
(* bounds.                                                                 *)
(***************************************************************************)
EXTENDS SidecarLifecycle, TLAPS

USE BoundsAssumption, CallersAssumption

(* The values that fields start from and are reset to.                     *)
LEMMA DefaultTypes ==
  /\ FreshApp \in Apps
  /\ FreshSidecar \in Sidecars
  /\ FreeStart \in Starts
  /\ NoLoop \in Loops
BY DEF FreshApp, Apps, FreshSidecar, Sidecars, FreeStart, Starts, NoLoop, Loops, None

(* A start that stores or registers an identity has one.                   *)
IdentityKnown ==
  \A a \in App : \A s \in Invocation :
    start[a][s].pc \in {"write", "register"} => start[a][s].id \in Identity

(* A round in process is one the task has.                                 *)
RoundsExist ==
  \A a \in App : \A s \in Invocation :
    loop[a][s].tick = "process" => loop[a][s].round < MaxRound

TypeInv == TypeOK /\ IdentityKnown /\ RoundsExist

LEMMA InitType == Init => TypeInv
<1> SUFFICES ASSUME Init PROVE TypeInv
  OBVIOUS
<1>1. app \in [App -> Apps] /\ sidecar \in [App -> Sidecars]
  BY DefaultTypes DEF Init
<1>2. start \in [App -> [Invocation -> Starts]] /\ loop \in [App -> [Invocation -> Loops]]
  BY DefaultTypes DEF Init
<1>3. budget \in Budgets
  BY DEF Init, Budgets
<1>4. /\ stored \in Identity \cup {NoIdentity}
      /\ registered \subseteq Identity
      /\ submitted \in [App -> SUBSET (0 .. MaxRound)]
      /\ round \in [App -> 0 .. MaxRound]
      /\ wanted \in [App -> BOOLEAN]
      /\ overtaken \in [App -> BOOLEAN]
  BY DEF Init
<1>5. IdentityKnown
  BY DEF Init, IdentityKnown, FreeStart
<1>6. RoundsExist
  BY DEF Init, RoundsExist, NoLoop
<1> QED BY <1>1, <1>2, <1>3, <1>4, <1>5, <1>6 DEF TypeOK, TypeInv

(* Replacing one invocation, or one loop, of one application.              *)
LEMMA StartUpdate ==
  ASSUME TypeOK, NEW a \in App, NEW s \in Invocation, NEW v \in Starts,
         start' = [start EXCEPT ![a][s] = v]
  PROVE  /\ start' \in [App -> [Invocation -> Starts]]
         /\ start'[a][s] = v
         /\ \A b \in App, t \in Invocation :
              b # a \/ t # s => start'[b][t] = start[b][t]
BY DEF TypeOK

LEMMA LoopUpdate ==
  ASSUME TypeOK, NEW a \in App, NEW s \in Invocation, NEW v \in Loops,
         loop' = [loop EXCEPT ![a][s] = v]
  PROVE  /\ loop' \in [App -> [Invocation -> Loops]]
         /\ loop'[a][s] = v
         /\ \A b \in App, t \in Invocation :
              b # a \/ t # s => loop'[b][t] = loop[b][t]
BY DEF TypeOK

LEMMA SpendType ==
  ASSUME TypeOK, NEW kind \in {"faults", "stops", "reloads"}, Spend(kind)
  PROVE  budget' \in Budgets
BY DEF TypeOK, Spend, Budgets

LEMMA StartTypes ==
  ASSUME TypeOK, NEW a \in App, NEW s \in Invocation
  PROVE  /\ start[a][s] \in Starts
         /\ loop[a][s] \in Loops
         /\ sidecar[a] \in Sidecars
         /\ app[a] \in Apps
BY DEF TypeOK

(* Editing one record.                                                     *)
LEMMA StartEdits ==
  ASSUME NEW v \in Starts,
         NEW p \in {"free", "wasm", "read", "write", "register", "resolved", "rejected",
                    "done", "failed"},
         NEW i \in Identity \cup {NoIdentity}
  PROVE  [v EXCEPT !.pc = p, !.id = i] \in Starts
BY DEF Starts

(* The end of a start in the invocation's record.                          *)
LEMMA EndTypes ==
  ASSUME NEW v \in Starts
  PROVE  /\ [v EXCEPT !.pc = Over(v.guarded)] \in Starts
         /\ [v EXCEPT !.pc = Thrown(v.guarded)] \in Starts
         /\ [v EXCEPT !.pc = "done"] \in Starts
         /\ [v EXCEPT !.pc = "failed"] \in Starts
BY DEF Starts, Over, Thrown

LEMMA StartedLoopType ==
  ASSUME NEW i \in Identity \cup {NoIdentity}
  PROVE  StartedLoop(i) \in Loops
<1>1. 0 \in 0 .. MaxRound
  OBVIOUS
<1> QED BY <1>1 DEF StartedLoop, Loops

(* The shapes of the steps of a start.                                     *)
LEMMA CallType ==
  ASSUME TypeOK, NEW a \in App, NEW s \in Invocation, NEW g \in BOOLEAN, Call(a, s, g)
  PROVE  /\ start' \in [App -> [Invocation -> Starts]]
         /\ start'[a][s].pc \in {"wasm", "resolved", "done"}
         /\ start'[a][s].pc = "resolved" => sidecar[a].started
         /\ start'[a][s].guarded = g
         /\ \A b \in App, t \in Invocation :
              b # a \/ t # s => start'[b][t] = start[b][t]
<1> DEFINE v == [FreeStart EXCEPT !.pc = IF sidecar[a].started THEN Over(g) ELSE "wasm",
                                  !.guarded = g]
<1>0. v \in Starts
  BY DEF FreeStart, Starts, Over
<1>1. /\ v.pc \in {"wasm", "resolved", "done"}
      /\ v.pc = "resolved" => sidecar[a].started
      /\ v.guarded = g
  BY DEF FreeStart, Over
<1>2. start' = [start EXCEPT ![a][s] = v]
  BY DEF Call
<1> HIDE DEF v
<1>3. /\ start' \in [App -> [Invocation -> Starts]]
      /\ start'[a][s] = v
      /\ \A b \in App, t \in Invocation : b # a \/ t # s => start'[b][t] = start[b][t]
  BY <1>0, <1>2, StartUpdate
<1> QED BY <1>1, <1>3

LEMMA BeginPollingType ==
  ASSUME TypeOK, NEW a \in App, NEW s \in Invocation, BeginPolling(a, s)
  PROVE  /\ loop' \in [App -> [Invocation -> Loops]]
         /\ sidecar' \in [App -> Sidecars]
         /\ start' \in [App -> [Invocation -> Starts]]
         /\ overtaken' \in [App -> BOOLEAN]
<1> DEFINE l == StartedLoop(start[a][s].id)
           v == [start[a][s] EXCEPT !.pc = Over(start[a][s].guarded)]
           c == [sidecar[a] EXCEPT !.started = TRUE, !.loop = s]
<1>0. start[a][s].id \in Identity \cup {NoIdentity}
  BY StartTypes DEF Starts
<1>1. l \in Loops
  BY <1>0, StartedLoopType
<1>2. v \in Starts
  BY StartTypes, EndTypes
<1>3. c \in Sidecars
  BY StartTypes DEF Sidecars
<1>4. overtaken' \in [App -> BOOLEAN]
  BY DEF BeginPolling, TypeOK
<1>5. /\ loop' = [loop EXCEPT ![a][s] = l]
      /\ start' = [start EXCEPT ![a][s] = v]
      /\ sidecar' = [sidecar EXCEPT ![a] = c]
  BY DEF BeginPolling, TypeOK
<1> HIDE DEF l, v, c
<1>6. loop' \in [App -> [Invocation -> Loops]]
  BY <1>1, <1>5, LoopUpdate
<1>7. start' \in [App -> [Invocation -> Starts]]
  BY <1>2, <1>5, StartUpdate
<1> QED BY <1>3, <1>4, <1>5, <1>6, <1>7 DEF TypeOK

LEMMA RejectType ==
  ASSUME TypeOK, NEW a \in App, NEW s \in Invocation, Reject(a, s),
         registered' \subseteq Identity
  PROVE  TypeOK'
<1> DEFINE v == [start[a][s] EXCEPT !.pc = Thrown(start[a][s].guarded)]
<1>1. v \in Starts
  BY StartTypes, EndTypes
<1>2. start' = [start EXCEPT ![a][s] = v]
  BY DEF Reject, TypeOK
<1> HIDE DEF v
<1>3. start' \in [App -> [Invocation -> Starts]]
  BY <1>1, <1>2, StartUpdate
<1>4. budget' \in Budgets
  BY SpendType DEF Reject
<1> QED BY <1>3, <1>4 DEF Reject, TypeOK

LEMMA SettleType ==
  ASSUME TypeOK, NEW a \in App, NEW s \in Invocation, Settle(a, s) \/ SettleRejected(a, s)
  PROVE  TypeOK'
<1> DEFINE v == [start[a][s] EXCEPT !.pc = "done"]
           w == [start[a][s] EXCEPT !.pc = "failed"]
           g == [app[a] EXCEPT !.started = TRUE]
           h == [app[a] EXCEPT !.promise = None]
<1>1. v \in Starts /\ w \in Starts
  BY StartTypes, EndTypes
<1>2. g \in Apps /\ h \in Apps
  BY StartTypes DEF Apps, None
<1>3. start' = [start EXCEPT ![a][s] = v] \/ start' = [start EXCEPT ![a][s] = w]
  BY DEF Settle, SettleRejected, TypeOK
<1>4. app' = app \/ app' = [app EXCEPT ![a] = g] \/ app' = [app EXCEPT ![a] = h]
  BY DEF Settle, SettleRejected, TypeOK
<1>5. UNCHANGED <<stored, registered, sidecar, loop, submitted, round, wanted, overtaken, budget>>
  BY DEF Settle, SettleRejected
<1> HIDE DEF v, w, g, h
<1>6. start' \in [App -> [Invocation -> Starts]]
  BY <1>1, <1>3, StartUpdate
<1>7. app' \in [App -> Apps]
  BY <1>2, <1>4 DEF TypeOK
<1> QED BY <1>5, <1>6, <1>7 DEF TypeOK

LEMMA EndTickType ==
  ASSUME TypeOK, NEW a \in App, NEW s \in Invocation, EndTick(a, s)
  PROVE  loop' \in [App -> [Invocation -> Loops]]
<1> DEFINE l == Rearmed(loop[a][s])
<1>1. l \in Loops
  BY StartTypes DEF Rearmed, Loops
<1>2. loop' = [loop EXCEPT ![a][s] = l]
  BY DEF EndTick
<1> HIDE DEF l
<1> QED BY <1>1, <1>2, LoopUpdate

LEMMA StartStepType ==
  ASSUME TypeInv, NEW a \in App, NEW s \in Invocation, StartStep(a, s)
  PROVE  TypeOK'
<1>0. TypeOK
  BY DEF TypeInv
<1>1. CASE WasmLoaded(a, s)
  <2> DEFINE p == IF sidecar[a].identity = NoIdentity THEN "read" ELSE "register"
             v == [start[a][s] EXCEPT !.pc = p, !.id = sidecar[a].identity]
  <2>0. sidecar[a].identity \in Identity \cup {NoIdentity}
    BY <1>0, StartTypes DEF Sidecars
  <2>1. v \in Starts
    BY <1>0, <2>0, StartTypes, StartEdits
  <2>2. start' = [start EXCEPT ![a][s] = v]
    BY <1>0, <1>1 DEF WasmLoaded, TypeOK
  <2> HIDE DEF v
  <2>3. start' \in [App -> [Invocation -> Starts]]
    BY <2>1, <2>2, <1>0, StartUpdate
  <2> QED BY <1>0, <2>3, <1>1 DEF WasmLoaded, TypeOK
<1>2. CASE FindIdentity(a, s)
  <2> DEFINE v == [start[a][s] EXCEPT !.pc = "register", !.id = stored]
             c == [sidecar[a] EXCEPT !.identity = stored]
  <2>0. stored \in Identity \cup {NoIdentity}
    BY <1>0 DEF TypeOK
  <2>1. v \in Starts /\ c \in Sidecars
    BY <1>0, <2>0, StartTypes, StartEdits DEF Sidecars
  <2>2. start' = [start EXCEPT ![a][s] = v] /\ sidecar' = [sidecar EXCEPT ![a] = c]
    BY <1>0, <1>2 DEF FindIdentity, TypeOK
  <2> HIDE DEF v, c
  <2>3. start' \in [App -> [Invocation -> Starts]]
    BY <2>1, <2>2, <1>0, StartUpdate
  <2>4. sidecar' \in [App -> Sidecars]
    BY <1>0, <2>1, <2>2 DEF TypeOK
  <2> QED BY <1>0, <2>3, <2>4, <1>2 DEF FindIdentity, TypeOK
<1>3. CASE GenerateIdentity(a, s)
  <2> DEFINE i == <<a, s>>
             v == [start[a][s] EXCEPT !.pc = "write", !.id = i]
  <2>1. i \in Identity
    BY DEF Identity
  <2>2. v \in Starts
    <3> HIDE DEF i
    <3> QED BY <1>0, <2>1, StartTypes DEF Starts
  <2>3. start' = [start EXCEPT ![a][s] = v]
    BY <1>0, <1>3 DEF GenerateIdentity, TypeOK
  <2> HIDE DEF v
  <2>4. start' \in [App -> [Invocation -> Starts]]
    BY <2>2, <2>3, <1>0, StartUpdate
  <2> QED BY <1>0, <2>4, <1>3 DEF GenerateIdentity, TypeOK
<1>4. CASE StoreIdentity(a, s)
  <2> DEFINE v == [start[a][s] EXCEPT !.pc = "register"]
             c == [sidecar[a] EXCEPT !.identity = start[a][s].id]
  <2>1. v \in Starts /\ c \in Sidecars
    BY <1>0, StartTypes DEF Starts, Sidecars
  <2>2. start' = [start EXCEPT ![a][s] = v] /\ sidecar' = [sidecar EXCEPT ![a] = c]
    BY <1>0, <1>4 DEF StoreIdentity, TypeOK
  <2> HIDE DEF v, c
  <2>3. start' \in [App -> [Invocation -> Starts]]
    BY <2>1, <2>2, <1>0, StartUpdate
  <2>4. sidecar' \in [App -> Sidecars]
    BY <1>0, <2>1, <2>2 DEF TypeOK
  <2>5. stored' \in Identity \cup {NoIdentity}
    BY <1>0, <1>4, StartTypes DEF StoreIdentity, Starts
  <2> QED BY <1>0, <2>3, <2>4, <2>5, <1>4 DEF StoreIdentity, TypeOK
<1>5. CASE Register(a, s)
  <2>1. start[a][s].id \in Identity
    BY <1>5 DEF Register, TypeInv, IdentityKnown
  <2> QED BY <1>0, <2>1, <1>5, BeginPollingType DEF Register, TypeOK
<1>6. CASE StorageFails(a, s)
  BY <1>0, <1>6, RejectType DEF StorageFails, TypeOK
<1>7. CASE RegisterFails(a, s)
  <2>1. start[a][s].id \in Identity
    BY <1>7 DEF RegisterFails, TypeInv, IdentityKnown
  <2> QED BY <1>0, <2>1, <1>7, RejectType DEF RegisterFails, TypeOK
<1>8. CASE Settle(a, s) \/ SettleRejected(a, s)
  BY <1>0, <1>8, SettleType
<1> QED BY <1>1, <1>2, <1>3, <1>4, <1>5, <1>6, <1>7, <1>8 DEF StartStep

LEMMA TickStepType ==
  ASSUME TypeOK, RoundsExist, NEW a \in App, NEW s \in Invocation, TickStep(a, s)
  PROVE  TypeOK'
<1>1. CASE BeginTick(a, s)
  <2> DEFINE t == IF loop[a][s].running THEN "list" ELSE "none"
             l == [loop[a][s] EXCEPT !.timer = FALSE, !.tick = t]
  <2>1. l \in Loops
    BY StartTypes DEF Loops
  <2>2. loop' = [loop EXCEPT ![a][s] = l]
    BY <1>1 DEF BeginTick, TypeOK
  <2> HIDE DEF l
  <2>3. loop' \in [App -> [Invocation -> Loops]]
    BY <2>1, <2>2, LoopUpdate
  <2> QED BY <2>3, <1>1 DEF BeginTick, TypeOK
<1>2. CASE NothingToDo(a, s)
  BY <1>2, EndTickType DEF NothingToDo, TypeOK
<1>3. CASE Dispatch(a, s)
  <2> DEFINE l == [loop[a][s] EXCEPT !.tick = "process", !.round = round[a]]
  <2>0. round[a] \in 0 .. MaxRound
    BY DEF TypeOK
  <2>1. l \in Loops
    BY <2>0, StartTypes DEF Loops
  <2>2. loop' = [loop EXCEPT ![a][s] = l]
    BY <1>3 DEF Dispatch, TypeOK
  <2> HIDE DEF l
  <2>3. loop' \in [App -> [Invocation -> Loops]]
    BY <2>1, <2>2, LoopUpdate
  <2> QED BY <2>3, <1>3 DEF Dispatch, TypeOK
<1>4. CASE Processed(a, s)
  <2>1. loop[a][s].round \in 0 .. MaxRound
    BY StartTypes DEF Loops
  <2>2. loop[a][s].round < MaxRound
    BY <1>4 DEF Processed, RoundsExist
  <2>3. round' \in [App -> 0 .. MaxRound]
    BY <2>1, <2>2, <1>4 DEF Processed, TypeOK
  <2>4. submitted' \in [App -> SUBSET (0 .. MaxRound)]
    BY <2>1, <1>4 DEF Processed, TypeOK
  <2> QED BY <2>3, <2>4, <1>4, EndTickType DEF Processed, TypeOK
<1>5. CASE TickFails(a, s)
  BY <1>5, EndTickType, SpendType DEF TickFails, TypeOK
<1> QED BY <1>1, <1>2, <1>3, <1>4, <1>5 DEF TickStep

LEMMA StopType ==
  ASSUME TypeOK, NEW a \in App, Stop(a), sidecar[a].started => sidecar[a].loop # None
  PROVE  TypeOK'
<1>0. overtaken' \in [App -> BOOLEAN]
  BY DEF Stop, LateGuard, TypeOK
<1> DEFINE n == sidecar[a].loop
           l == [loop[a][n] EXCEPT !.running = FALSE, !.timer = FALSE]
           m == IF sidecar[a].started THEN None ELSE n
           c == [sidecar[a] EXCEPT !.started = FALSE, !.loop = m]
<1>1. sidecar[a] \in Sidecars
  BY DEF TypeOK
<1>2. c \in Sidecars
  <2>1. m \in Invocation \cup {None}
    BY <1>1 DEF Sidecars
  <2> HIDE DEF m
  <2> QED BY <2>1, <1>1 DEF Sidecars
<1>3. sidecar' = [sidecar EXCEPT ![a] = c]
  BY DEF Stop, TypeOK
<1>4. sidecar' \in [App -> Sidecars]
  <2> HIDE DEF c
  <2> QED BY <1>2, <1>3 DEF TypeOK
<1>5. CASE sidecar[a].started
  <2>1. n \in Invocation
    BY <1>1, <1>5 DEF Sidecars
  <2>2. l \in Loops
    <3>1. loop[a][n] \in Loops
      BY <2>1, StartTypes
    <3> HIDE DEF n
    <3> QED BY <3>1 DEF Loops
  <2>3. loop' = [loop EXCEPT ![a][n] = l]
    BY <2>1, <1>5 DEF Stop, TypeOK
  <2> HIDE DEF n, l
  <2>4. loop' \in [App -> [Invocation -> Loops]]
    BY <2>1, <2>2, <2>3, LoopUpdate
  <2> QED BY <2>4, <1>0, <1>4, DefaultTypes, SpendType DEF Stop, TypeOK
<1>6. CASE ~sidecar[a].started
  BY <1>6, <1>0, <1>4, DefaultTypes, SpendType DEF Stop, TypeOK
<1> QED BY <1>5, <1>6

(* Stop stops the loop the sidecar knows, and nothing else.                *)
LEMMA StopEffect ==
  ASSUME TypeOK, NEW a \in App, Stop(a), sidecar[a].started => sidecar[a].loop # None,
         NEW b \in App, NEW t \in Invocation
  PROVE  /\ sidecar[a].started /\ b = a /\ t = sidecar[a].loop => ~loop'[b][t].running
         /\ ~(sidecar[a].started /\ b = a /\ t = sidecar[a].loop) => loop'[b][t] = loop[b][t]
<1>1. CASE sidecar[a].started
  <2>1. PICK n \in Invocation : n = sidecar[a].loop
    BY <1>1 DEF TypeOK, Sidecars
  <2> DEFINE l == [loop[a][n] EXCEPT !.running = FALSE, !.timer = FALSE]
  <2>2. l \in Loops /\ ~l.running
    BY StartTypes DEF Loops
  <2>3. loop' = [loop EXCEPT ![a][n] = l]
    <3>1. loop' = [loop EXCEPT ![a][n].running = FALSE, ![a][n].timer = FALSE]
      BY <2>1, <1>1 DEF Stop
    <3>2. [loop EXCEPT ![a][n].running = FALSE, ![a][n].timer = FALSE]
            = [loop EXCEPT ![a][n] = l]
      BY DEF TypeOK
    <3> QED BY <3>1, <3>2
  <2> HIDE DEF l
  <2>4. loop'[a][n] = l /\ (b # a \/ t # n => loop'[b][t] = loop[b][t])
    BY <2>3 DEF TypeOK
  <2> QED BY <2>1, <2>2, <2>4, <1>1
<1>2. CASE ~sidecar[a].started
  BY <1>2 DEF Stop
<1> QED BY <1>1, <1>2

LEMMA ReloadType ==
  ASSUME TypeOK, NEW a \in App, Reload(a)
  PROVE  TypeOK'
<1> DEFINE f == [s \in Invocation |->
                   IF InFlight(a, s) THEN [start[a][s] EXCEPT !.pc = "failed"] ELSE start[a][s]]
<1>1. ASSUME NEW s \in Invocation PROVE [start[a][s] EXCEPT !.pc = "failed"] \in Starts
  BY StartTypes DEF Starts
<1>2. f \in [Invocation -> Starts]
  BY <1>1, StartTypes
<1>3. start' = [start EXCEPT ![a] = f]
  BY DEF Reload
<1>4. start' \in [App -> [Invocation -> Starts]]
  <2> HIDE DEF f
  <2> QED BY <1>2, <1>3 DEF TypeOK
<1>5. loop' \in [App -> [Invocation -> Loops]]
  BY DefaultTypes DEF Reload, TypeOK
<1> QED BY <1>4, <1>5, DefaultTypes, SpendType DEF Reload, TypeOK

LEMMA StartCallType ==
  ASSUME TypeOK, NEW a \in App, NEW s \in Invocation,
         EnsureStarted(a, s) \/ StartDirectly(a, s)
  PROVE  TypeOK'
<1>1. start' \in [App -> [Invocation -> Starts]]
  BY CallType DEF EnsureStarted, StartDirectly
<1>2. app' \in [App -> Apps]
  <2> DEFINE g == [app[a] EXCEPT !.promise = s]
  <2>1. g \in Apps
    BY StartTypes DEF Apps
  <2>2. app' = app \/ app' = [app EXCEPT ![a] = g]
    BY DEF EnsureStarted, StartDirectly, TypeOK
  <2> HIDE DEF g
  <2> QED BY <2>1, <2>2 DEF TypeOK
<1>3. wanted' \in [App -> BOOLEAN]
  BY DEF EnsureStarted, StartDirectly, TypeOK
<1> QED BY <1>1, <1>2, <1>3 DEF EnsureStarted, StartDirectly, TypeOK

(* IdentityKnown and RoundsExist under a step of a start.                  *)
LEMMA StartStepKnown ==
  ASSUME TypeInv, NEW a \in App, NEW s \in Invocation, StartStep(a, s)
  PROVE  IdentityKnown' /\ RoundsExist'
<1> USE DEF TypeInv
<1>1. CASE WasmLoaded(a, s)
  BY <1>1, StartTypes DEF WasmLoaded, TypeOK, IdentityKnown, RoundsExist, Sidecars
<1>2. CASE FindIdentity(a, s)
  BY <1>2 DEF FindIdentity, TypeOK, IdentityKnown, RoundsExist
<1>3. CASE GenerateIdentity(a, s)
  BY <1>3 DEF GenerateIdentity, TypeOK, IdentityKnown, RoundsExist, Identity
<1>4. CASE StoreIdentity(a, s)
  BY <1>4 DEF StoreIdentity, TypeOK, IdentityKnown, RoundsExist
<1>5. CASE Register(a, s)
  BY <1>5 DEF Register, BeginPolling, StartedLoop, Over, TypeOK, IdentityKnown, RoundsExist
<1>6. CASE StorageFails(a, s)
  BY <1>6 DEF StorageFails, Reject, Thrown, TypeOK, IdentityKnown, RoundsExist
<1>7. CASE RegisterFails(a, s)
  BY <1>7 DEF RegisterFails, Reject, Thrown, TypeOK, IdentityKnown, RoundsExist
<1>8. CASE Settle(a, s)
  BY <1>8 DEF Settle, TypeOK, IdentityKnown, RoundsExist
<1>9. CASE SettleRejected(a, s)
  BY <1>9 DEF SettleRejected, TypeOK, IdentityKnown, RoundsExist
<1> QED BY <1>1, <1>2, <1>3, <1>4, <1>5, <1>6, <1>7, <1>8, <1>9 DEF StartStep

LEMMA TickStepKnown ==
  ASSUME TypeInv, NEW a \in App, NEW s \in Invocation, TickStep(a, s)
  PROVE  IdentityKnown' /\ RoundsExist'
<1> USE DEF TypeInv
<1>0. start' = start
  BY DEF TickStep, BeginTick, NothingToDo, Dispatch, Processed, TickFails
<1>1. IdentityKnown'
  BY <1>0 DEF IdentityKnown
<1>2. CASE BeginTick(a, s)
  BY <1>1, <1>2 DEF BeginTick, TypeOK, RoundsExist
<1>3. CASE Dispatch(a, s)
  BY <1>1, <1>3 DEF Dispatch, TypeOK, RoundsExist
<1>4. CASE EndTick(a, s)
  BY <1>1, <1>4 DEF EndTick, Rearmed, TypeOK, RoundsExist
<1> QED BY <1>2, <1>3, <1>4 DEF TickStep, NothingToDo, Processed, TickFails

LEMMA StopKnown ==
  ASSUME TypeInv, NEW a \in App, Stop(a), sidecar[a].started => sidecar[a].loop # None
  PROVE  IdentityKnown' /\ RoundsExist'
<1> USE DEF TypeInv
<1>1. IdentityKnown'
  BY DEF Stop, IdentityKnown
<1>2. \A b \in App, t \in Invocation : /\ loop'[b][t].tick = loop[b][t].tick
                                       /\ loop'[b][t].round = loop[b][t].round
  BY DEF Stop, TypeOK, Loops
<1> QED BY <1>1, <1>2 DEF RoundsExist

LEMMA ReloadKnown ==
  ASSUME TypeInv, NEW a \in App, Reload(a)
  PROVE  IdentityKnown' /\ RoundsExist'
<1> USE DEF TypeInv
<1>1. \A b \in App, t \in Invocation :
        start'[b][t] = start[b][t] \/ start'[b][t].pc = "failed"
  BY DEF Reload, TypeOK, Starts
<1>2. IdentityKnown'
  BY <1>1 DEF IdentityKnown
<1>3. RoundsExist'
  BY DEF Reload, RoundsExist, NoLoop, TypeOK
<1> QED BY <1>2, <1>3

LEMMA StartCallKnown ==
  ASSUME TypeInv, NEW a \in App, NEW s \in Invocation,
         EnsureStarted(a, s) \/ StartDirectly(a, s)
  PROVE  IdentityKnown' /\ RoundsExist'
<1> USE DEF TypeInv
<1>1. \A b \in App, t \in Invocation :
        \/ start'[b][t] = start[b][t]
        \/ start'[b][t].pc \in {"wasm", "resolved", "done"}
  <2>1. PICK g \in BOOLEAN : Call(a, s, g)
    BY DEF EnsureStarted, StartDirectly
  <2> QED BY <2>1, CallType
<1>2. loop' = loop
  BY DEF EnsureStarted, StartDirectly
<1> QED BY <1>1, <1>2 DEF IdentityKnown, RoundsExist

-------------------------------------------------------------------------------
(* What a started sidecar guarantees.                                      *)

SidecarPolls ==
  \A a \in App : sidecar[a].started =>
    /\ sidecar[a].loop # None
    /\ loop[a][sidecar[a].loop].running
    /\ Armed(loop[a][sidecar[a].loop])

(* The guard knows, or is about to be told, of a sidecar that has started, *)
(* unless a stop has come in between.                                      *)
GuardKnows ==
  \A a \in App :
    ~overtaken[a] /\ (app[a].started \/ LateGuard(a)) => sidecar[a].started

PollInv == TypeInv /\ SidecarPolls /\ GuardKnows /\ PollsAsRegistered

LEMMA InitPolls == Init => PollInv
<1> SUFFICES ASSUME Init PROVE PollInv
  OBVIOUS
<1>1. SidecarPolls /\ GuardKnows
  BY DEF Init, SidecarPolls, GuardKnows, FreshSidecar, FreshApp, LateGuard, FreeStart
<1>2. PollsAsRegistered
  BY DEF Init, PollsAsRegistered, Armed, NoLoop
<1> QED BY <1>1, <1>2, InitType DEF PollInv

(* The started flags change only at the end of a start.                    *)
LEMMA StartStepPolls ==
  ASSUME PollInv, NEW a \in App, NEW s \in Invocation, StartStep(a, s)
  PROVE  SidecarPolls' /\ GuardKnows' /\ PollsAsRegistered'
<1> USE DEF PollInv, TypeInv
<1>1. CASE Register(a, s)
  <2>1. /\ sidecar'[a].started
        /\ sidecar'[a].loop = s
        /\ \A b \in App : b # a => /\ sidecar'[b] = sidecar[b]
                                   /\ app'[b] = app[b]
                                   /\ start'[b] = start[b]
                                   /\ overtaken'[b] = overtaken[b]
    BY <1>1 DEF Register, BeginPolling, TypeOK, Sidecars
  <2>2. /\ loop'[a][s] = StartedLoop(start[a][s].id)
        /\ \A b \in App, t \in Invocation : b # a \/ t # s => loop'[b][t] = loop[b][t]
    BY <1>1 DEF Register, BeginPolling, TypeOK
  <2>3. /\ loop'[a][s].running
        /\ Armed(loop'[a][s])
        /\ loop'[a][s].id = start[a][s].id
    BY <2>2 DEF StartedLoop, Armed
  <2>4. \A b \in App : sidecar[b].loop \in Invocation \cup {None}
    BY DEF TypeOK, Sidecars
  <2>5. SidecarPolls'
    BY <2>1, <2>2, <2>3, <2>4 DEF SidecarPolls, Invocation, None
  <2>6. GuardKnows'
    BY <2>1 DEF GuardKnows, LateGuard
  <2>7. registered' = registered \cup {start[a][s].id}
    BY <1>1 DEF Register
  <2>8. PollsAsRegistered'
    BY <2>2, <2>3, <2>7 DEF PollsAsRegistered
  <2> QED BY <2>5, <2>6, <2>8
<1>2. CASE ~Register(a, s)
  <2>1. loop' = loop
    BY <1>2 DEF StartStep, WasmLoaded, FindIdentity, GenerateIdentity, StoreIdentity,
                StorageFails, RegisterFails, Reject, Settle, SettleRejected
  <2>0. registered \subseteq registered'
    <3>1. CASE RegisterFails(a, s)
      BY <3>1 DEF RegisterFails
    <3>2. CASE ~RegisterFails(a, s)
      <4>1. registered' = registered
        BY <1>2, <3>2 DEF StartStep, WasmLoaded, FindIdentity, GenerateIdentity,
                          StoreIdentity, StorageFails, Settle, SettleRejected
      <4> QED BY <4>1
    <3> QED BY <3>1, <3>2
  <2>2. \A b \in App : /\ sidecar'[b].started = sidecar[b].started
                       /\ sidecar'[b].loop = sidecar[b].loop
    <3>1. CASE FindIdentity(a, s)
      BY <3>1 DEF FindIdentity, TypeOK, Sidecars
    <3>2. CASE StoreIdentity(a, s)
      BY <3>2 DEF StoreIdentity, TypeOK, Sidecars
    <3>3. CASE ~FindIdentity(a, s) /\ ~StoreIdentity(a, s)
      <4>1. sidecar' = sidecar
        BY <1>2, <3>3 DEF StartStep, WasmLoaded, GenerateIdentity, StorageFails,
                          RegisterFails, Reject, Settle, SettleRejected
      <4> QED BY <4>1
    <3> QED BY <3>1, <3>2, <3>3
  <2>3. ASSUME NEW b \in App, app'[b].started PROVE app[b].started \/ LateGuard(b)
    <3>1. CASE Settle(a, s)
      BY <2>3, <3>1 DEF Settle, TypeOK, Apps, LateGuard
    <3>2. CASE SettleRejected(a, s)
      BY <2>3, <3>2 DEF SettleRejected, TypeOK, Apps
    <3>3. CASE app' = app
      BY <2>3, <3>3
    <3> QED BY <1>2, <3>1, <3>2, <3>3 DEF StartStep, WasmLoaded, FindIdentity,
               GenerateIdentity, StoreIdentity, StorageFails, RegisterFails, Reject
  <2>4. ASSUME NEW b \in App, LateGuard(b)' PROVE LateGuard(b)
    <3>1. PICK t \in Invocation : start'[b][t].pc = "resolved"
      BY <2>4 DEF LateGuard
    <3>2. CASE WasmLoaded(a, s)
      BY <3>1, <3>2 DEF WasmLoaded, TypeOK, LateGuard
    <3>3. CASE FindIdentity(a, s)
      BY <3>1, <3>3 DEF FindIdentity, TypeOK, LateGuard
    <3>4. CASE GenerateIdentity(a, s)
      BY <3>1, <3>4 DEF GenerateIdentity, TypeOK, LateGuard
    <3>5. CASE StoreIdentity(a, s)
      BY <3>1, <3>5 DEF StoreIdentity, TypeOK, LateGuard
    <3>6. CASE Reject(a, s)
      BY <3>1, <3>6 DEF Reject, Thrown, TypeOK, LateGuard
    <3>7. CASE Settle(a, s)
      BY <3>1, <3>7 DEF Settle, TypeOK, LateGuard
    <3>8. CASE SettleRejected(a, s)
      BY <3>1, <3>8 DEF SettleRejected, TypeOK, LateGuard
    <3> QED BY <1>2, <3>2, <3>3, <3>6, <3>7, <3>8, <3>4, <3>5 DEF StartStep, StorageFails, RegisterFails
  <2>5. overtaken' = overtaken
    BY <1>2 DEF StartStep, WasmLoaded, FindIdentity, GenerateIdentity, StoreIdentity,
                StorageFails, RegisterFails, Reject, Settle, SettleRejected
  <2> QED BY <2>0, <2>1, <2>2, <2>3, <2>4, <2>5 DEF SidecarPolls, GuardKnows, PollsAsRegistered
<1> QED BY <1>1, <1>2

(* A tick keeps its loop armed as long as the loop runs.                   *)
LEMMA TickStepPolls ==
  ASSUME PollInv, NEW a \in App, NEW s \in Invocation, TickStep(a, s)
  PROVE  SidecarPolls' /\ GuardKnows' /\ PollsAsRegistered'
<1> USE DEF PollInv, TypeInv
<1>1. UNCHANGED <<registered, app, sidecar, start, overtaken>>
  BY DEF TickStep, BeginTick, NothingToDo, Dispatch, Processed, TickFails
<1>2. \A b \in App, t \in Invocation : b # a \/ t # s => loop'[b][t] = loop[b][t]
  BY DEF TickStep, BeginTick, NothingToDo, Dispatch, Processed, TickFails, EndTick, TypeOK
<1>3. /\ loop'[a][s].running = loop[a][s].running
      /\ loop'[a][s].id = loop[a][s].id
      /\ Armed(loop[a][s])
      /\ loop[a][s].running => Armed(loop'[a][s])
  <2>1. loop[a][s] \in Loops
    BY StartTypes
  <2>2. CASE BeginTick(a, s)
    BY <2>1, <2>2 DEF BeginTick, TypeOK, Loops, Armed
  <2>3. CASE Dispatch(a, s)
    BY <2>1, <2>3 DEF Dispatch, TypeOK, Loops, Armed
  <2>4. CASE EndTick(a, s) /\ loop[a][s].tick # "none"
    <3>1. loop'[a][s] = Rearmed(loop[a][s])
      BY <2>4 DEF EndTick, TypeOK
    <3> QED BY <2>1, <2>4, <3>1 DEF Rearmed, Loops, Armed
  <2> QED BY <2>2, <2>3, <2>4 DEF TickStep, NothingToDo, Processed, TickFails
<1>4. SidecarPolls'
  BY <1>1, <1>2, <1>3 DEF SidecarPolls, TypeOK, Sidecars
<1>5. PollsAsRegistered'
  BY <1>1, <1>2, <1>3 DEF PollsAsRegistered
<1>6. GuardKnows'
  BY <1>1 DEF GuardKnows, LateGuard
<1> QED BY <1>4, <1>5, <1>6

LEMMA OtherPolls ==
  ASSUME PollInv, NEW a \in App,
         \/ Stop(a) \/ Reload(a)
         \/ \E s \in Invocation : EnsureStarted(a, s) \/ StartDirectly(a, s)
  PROVE  SidecarPolls' /\ GuardKnows' /\ PollsAsRegistered'
<1> USE DEF PollInv, TypeInv
<1>1. CASE Stop(a)
  <2>1. /\ ~sidecar'[a].started /\ ~app'[a].started
        /\ overtaken'[a] = LateGuard(a) /\ start' = start
        /\ \A b \in App : b # a => /\ sidecar'[b] = sidecar[b]
                                   /\ app'[b] = app[b]
                                   /\ loop'[b] = loop[b]
                                   /\ overtaken'[b] = overtaken[b]
    BY <1>1 DEF Stop, TypeOK, Sidecars, FreshApp
  <2>2. \A b \in App, t \in Invocation :
          /\ loop'[b][t].id = loop[b][t].id
          /\ Armed(loop'[b][t]) => Armed(loop[b][t])
    BY <1>1 DEF Stop, TypeOK, Loops, Armed
  <2>3. registered' = registered
    BY <1>1 DEF Stop
  <2> QED BY <2>1, <2>2, <2>3 DEF SidecarPolls, GuardKnows, PollsAsRegistered, LateGuard
<1>2. CASE Reload(a)
  <2>1. /\ ~sidecar'[a].started /\ ~app'[a].started
        /\ \A b \in App : b # a => /\ sidecar'[b] = sidecar[b]
                                   /\ app'[b] = app[b]
                                   /\ loop'[b] = loop[b]
                                   /\ start'[b] = start[b]
                                   /\ overtaken'[b] = overtaken[b]
    BY <1>2 DEF Reload, TypeOK, FreshSidecar, FreshApp
  <2>2. \A t \in Invocation : ~Armed(loop'[a][t])
    BY <1>2 DEF Reload, TypeOK, NoLoop, Armed
  <2>3. registered' = registered
    BY <1>2 DEF Reload
  <2>4. ~LateGuard(a)'
    BY <1>2 DEF Reload, TypeOK, Starts, LateGuard, InFlight
  <2>5. \A b \in App : b # a => LateGuard(b)' = LateGuard(b)
    BY <2>1 DEF LateGuard
  <2> QED BY <2>1, <2>2, <2>3, <2>4, <2>5 DEF SidecarPolls, GuardKnows, PollsAsRegistered
<1>3. ASSUME NEW s \in Invocation, EnsureStarted(a, s) \/ StartDirectly(a, s)
      PROVE  SidecarPolls' /\ GuardKnows' /\ PollsAsRegistered'
  <2>1. UNCHANGED <<registered, sidecar, loop, overtaken>>
    BY <1>3 DEF EnsureStarted, StartDirectly
  <2>2. \A b \in App : app'[b].started = app[b].started
    <3>1. CASE EnsureStarted(a, s)
      BY <3>1 DEF EnsureStarted, TypeOK, Apps
    <3>2. CASE StartDirectly(a, s)
      BY <3>2 DEF StartDirectly
    <3> QED BY <1>3, <3>1, <3>2
  <2>3. ASSUME NEW b \in App, LateGuard(b)' PROVE LateGuard(b) \/ sidecar[b].started
    <3>1. PICK t \in Invocation : start'[b][t].pc = "resolved"
      BY <2>3 DEF LateGuard
    <3>2. PICK g \in BOOLEAN : Call(a, s, g)
      BY <1>3 DEF EnsureStarted, StartDirectly
    <3>3. start[b][t].pc = "resolved" \/ sidecar[b].started
      BY <3>1, <3>2, CallType
    <3> QED BY <3>3 DEF LateGuard
  <2> QED BY <2>1, <2>2, <2>3 DEF SidecarPolls, GuardKnows, PollsAsRegistered
<1> QED BY <1>1, <1>2, <1>3

LEMMA StepPolls == PollInv /\ [Next]_vars => PollInv'
<1> SUFFICES ASSUME PollInv, [Next]_vars PROVE PollInv'
  OBVIOUS
<1> USE DEF PollInv, TypeInv
<1>1. CASE UNCHANGED vars
  BY <1>1 DEF vars, TypeOK, IdentityKnown, RoundsExist, SidecarPolls, GuardKnows,
              LateGuard, PollsAsRegistered
<1>2. ASSUME NEW a \in App, Stop(a) PROVE PollInv'
  <2>1. sidecar[a].started => sidecar[a].loop # None
    BY DEF SidecarPolls
  <2> QED BY <1>2, <2>1, StopType, StopKnown, OtherPolls
<1>3. ASSUME NEW a \in App, Reload(a) PROVE PollInv'
  BY <1>3, ReloadType, ReloadKnown, OtherPolls
<1>4. ASSUME NEW a \in App, NEW s \in Invocation, EnsureStarted(a, s) \/ StartDirectly(a, s)
      PROVE PollInv'
  BY <1>4, StartCallType, StartCallKnown, OtherPolls
<1>5. ASSUME NEW a \in App, NEW s \in Invocation, StartStep(a, s) PROVE PollInv'
  BY <1>5, StartStepType, StartStepKnown, StartStepPolls
<1>6. ASSUME NEW a \in App, NEW s \in Invocation, TickStep(a, s) PROVE PollInv'
  BY <1>6, TickStepType, TickStepKnown, TickStepPolls
<1> QED BY <1>1, <1>2, <1>3, <1>4, <1>5, <1>6 DEF Next

THEOREM PollInvariant == Spec => []PollInv
BY InitPolls, StepPolls, PTL DEF Spec

(* Every variable keeps its type.                                          *)
THEOREM TypeCorrect == Spec => []TypeOK
<1>1. PollInv => TypeOK
  BY DEF PollInv, TypeInv
<1> QED BY <1>1, PollInvariant, PTL

(* Whoever is told that the sidecar has started has one that polls, unless *)
(* a stop overtook the guard.                                              *)
THEOREM StartedPolls == Spec => []StartedIsPolling
<1>1. PollInv => StartedIsPolling
  BY DEF PollInv, GuardKnows, SidecarPolls, StartedIsPolling, Polling
<1> QED BY <1>1, PollInvariant, PTL

(* No loop polls under an identity the server does not know.               *)
THEOREM OnlyRegisteredPoll == Spec => []PollsAsRegistered
<1>1. PollInv => PollsAsRegistered
  BY DEF PollInv
<1> QED BY <1>1, PollInvariant, PTL

(* Only the end of a start sets running, and a timer of a stopped loop     *)
(* does not begin a tick.                                                  *)
LEMMA StepStopped == PollInv /\ [Next]_vars => StoppedStep
<1> SUFFICES ASSUME PollInv, [Next]_vars, NEW a \in App, NEW s \in Invocation,
                    start[a][s].pc \in {"resolved", "done"}, ~loop[a][s].running
             PROVE  /\ ~loop'[a][s].running
                    /\ loop'[a][s].tick = "list" => loop[a][s].tick = "list"
  BY DEF StoppedStep
<1> USE DEF PollInv, TypeInv
<1>1. CASE loop' = loop
  BY <1>1
<1>2. ASSUME NEW b \in App, Stop(b)
      PROVE  loop'[a][s].running => loop[a][s].running
  <2>1. sidecar[b].started => sidecar[b].loop # None
    BY DEF SidecarPolls
  <2> QED BY <1>2, <2>1, StopEffect
<1>3. ASSUME NEW b \in App, Stop(b) PROVE loop'[a][s].tick = loop[a][s].tick
  BY <1>3 DEF Stop, TypeOK, Loops
<1>4. ASSUME NEW b \in App, Reload(b)
      PROVE  loop'[a][s] = loop[a][s] \/ loop'[a][s] = NoLoop
  BY <1>4 DEF Reload, TypeOK
<1>5. ASSUME NEW b \in App, NEW t \in Invocation, Register(b, t)
      PROVE  loop'[a][s] = loop[a][s]
  BY <1>5 DEF Register, BeginPolling, TypeOK
<1>6. ASSUME NEW b \in App, NEW t \in Invocation, TickStep(b, t)
      PROVE  /\ loop'[a][s].running = loop[a][s].running
             /\ loop'[a][s].tick = "list" => loop[a][s].tick = "list"
  <2>1. loop[a][s] \in Loops
    BY StartTypes
  <2>2. CASE BeginTick(b, t)
    BY <2>1, <2>2 DEF BeginTick, TypeOK, Loops
  <2>3. CASE Dispatch(b, t)
    BY <2>1, <2>3 DEF Dispatch, TypeOK, Loops
  <2>4. CASE EndTick(b, t)
    <3>1. loop'[a][s] = loop[a][s] \/ loop'[a][s] = Rearmed(loop[a][s])
      BY <2>4 DEF EndTick, TypeOK
    <3> QED BY <2>1, <3>1 DEF Rearmed, Loops
  <2> QED BY <1>6, <2>2, <2>3, <2>4 DEF TickStep, NothingToDo, Processed, TickFails
<1>7. ASSUME NEW b \in App, NEW t \in Invocation,
             EnsureStarted(b, t) \/ StartDirectly(b, t) \/ (StartStep(b, t) /\ ~Register(b, t))
      PROVE  loop' = loop
  <2>1. CASE EnsureStarted(b, t) \/ StartDirectly(b, t)
    BY <2>1 DEF EnsureStarted, StartDirectly
  <2>2. CASE StartStep(b, t) /\ ~Register(b, t)
    BY <2>2 DEF StartStep, WasmLoaded, FindIdentity, GenerateIdentity, StoreIdentity,
                StorageFails, RegisterFails, Reject, Settle, SettleRejected
  <2> QED BY <1>7, <2>1, <2>2
<1>8. CASE UNCHANGED vars
  BY <1>8 DEF vars
<1>9. CASE \E b \in App : Stop(b)
  BY <1>2, <1>3, <1>9
<1>10. CASE \E b \in App : Reload(b)
  BY <1>4, <1>10 DEF NoLoop
<1>11. CASE \E b \in App, t \in Invocation : TickStep(b, t)
  BY <1>6, <1>11
<1> QED BY <1>1, <1>5, <1>7, <1>8, <1>9, <1>10, <1>11 DEF Next

(* A stopped loop never lists tasks again.                                 *)
THEOREM StoppedStays == Spec => StoppedStaysStopped
<1>1. PollInv /\ [Next]_vars => [StoppedStep]_vars
  BY StepStopped
<1> QED BY <1>1, PollInvariant, PTL DEF Spec, StoppedStaysStopped

-------------------------------------------------------------------------------
(* Callers that go through the guard and do not stop a start in flight.    *)

(* The one start in flight is the one whose promise the guard holds, and   *)
(* the flags of guard and sidecar agree but for a start that is over.      *)
GuardedStart ==
  \A a \in App :
    /\ sidecar[a].started => app[a].started \/ LateGuard(a)
    /\ sidecar[a].loop # None => sidecar[a].started
    /\ \A s \in Invocation : InFlight(a, s) =>
         /\ app[a].promise = s
         /\ start[a][s].guarded
         /\ sidecar[a].started => start[a][s].pc = "resolved"

PatientInv == PollInv /\ OneLoop /\ GuardedStart

LEMMA InitPatient == Init => PatientInv
<1> SUFFICES ASSUME Init PROVE PatientInv
  OBVIOUS
<1>1. OneLoop
  BY DEF Init, OneLoop, NoLoop
<1>2. GuardedStart
  BY DEF Init, GuardedStart, FreshApp, FreshSidecar, FreeStart, InFlight
<1> QED BY <1>1, <1>2, InitPolls DEF PatientInv

LEMMA NoneIsNoInvocation == None \notin Invocation
BY DEF None, Invocation

LEMMA LateInFlight ==
  ASSUME NEW a \in App, LateGuard(a)
  PROVE  \E s \in Invocation : InFlight(a, s)
BY DEF LateGuard, InFlight

LEMMA StartCallPatient ==
  ASSUME PatientInv, ~DirectStarts, NEW a \in App, NEW s \in Invocation,
         EnsureStarted(a, s) \/ StartDirectly(a, s)
  PROVE  OneLoop' /\ GuardedStart'
<1> USE DEF PatientInv, PollInv, TypeInv
<1>1. EnsureStarted(a, s)
  BY DEF StartDirectly
<1>2. Call(a, s, TRUE)
  BY <1>1 DEF EnsureStarted
<1>3. /\ start'[a][s].guarded
      /\ \A b \in App, t \in Invocation : b # a \/ t # s => start'[b][t] = start[b][t]
  BY <1>2, CallType
<1>4. \A t \in Invocation : ~InFlight(a, t)
  BY <1>1, NoneIsNoInvocation DEF EnsureStarted, GuardedStart
<1>5. ~sidecar[a].started
  BY <1>1, <1>4, LateInFlight DEF EnsureStarted, GuardedStart
<1>6. /\ app'[a].promise = s
      /\ \A b \in App : app'[b].started = app[b].started
      /\ \A b \in App : b # a => app'[b].promise = app[b].promise
  BY <1>1 DEF EnsureStarted, TypeOK, Apps
<1>7. UNCHANGED <<sidecar, loop>>
  BY <1>1 DEF EnsureStarted
<1>8. OneLoop'
  BY <1>7 DEF OneLoop
<1>9. \A b \in App : b # a => LateGuard(b)' = LateGuard(b)
  BY <1>3 DEF LateGuard
<1>10. GuardedStart'
  BY <1>3, <1>4, <1>5, <1>6, <1>7, <1>9 DEF GuardedStart, InFlight
<1> QED BY <1>8, <1>10

(* What a step of a start leaves alone.                                    *)
LEMMA StartStepFrame ==
  ASSUME TypeOK, NEW a \in App, NEW s \in Invocation, StartStep(a, s)
  PROVE  /\ InFlight(a, s)
         /\ start'[a][s].guarded = start[a][s].guarded
         /\ \A b \in App, t \in Invocation : b # a \/ t # s => start'[b][t] = start[b][t]
         /\ \A b \in App : b # a => LateGuard(b)' = LateGuard(b)
<1>1. InFlight(a, s)
  BY DEF StartStep, WasmLoaded, FindIdentity, GenerateIdentity, StoreIdentity, Register,
         StorageFails, RegisterFails, Settle, SettleRejected, InFlight
<1>2. \A b \in App, t \in Invocation : b # a \/ t # s => start'[b][t] = start[b][t]
  BY DEF StartStep, WasmLoaded, FindIdentity, GenerateIdentity, StoreIdentity, Register,
         BeginPolling, StorageFails, RegisterFails, Reject, Settle, SettleRejected, TypeOK
<1>3. start'[a][s].guarded = start[a][s].guarded
  <2>1. CASE WasmLoaded(a, s)
    BY <2>1 DEF WasmLoaded, TypeOK, Starts
  <2>2. CASE FindIdentity(a, s)
    BY <2>2 DEF FindIdentity, TypeOK, Starts
  <2>3. CASE GenerateIdentity(a, s)
    BY <2>3 DEF GenerateIdentity, TypeOK, Starts
  <2>4. CASE StoreIdentity(a, s)
    BY <2>4 DEF StoreIdentity, TypeOK, Starts
  <2>5. CASE BeginPolling(a, s)
    BY <2>5 DEF BeginPolling, TypeOK, Starts
  <2>6. CASE Reject(a, s)
    BY <2>6 DEF Reject, TypeOK, Starts
  <2>7. CASE Settle(a, s)
    BY <2>7 DEF Settle, TypeOK, Starts
  <2>8. CASE SettleRejected(a, s)
    BY <2>8 DEF SettleRejected, TypeOK, Starts
  <2> QED BY <2>1, <2>2, <2>3, <2>4, <2>5, <2>6, <2>7, <2>8 DEF StartStep, Register, StorageFails,
                                                          RegisterFails
<1>4. \A b \in App : b # a => LateGuard(b)' = LateGuard(b)
  BY <1>2 DEF LateGuard
<1> QED BY <1>1, <1>2, <1>3, <1>4

(* GuardedStart is a matter of one application at a time.                  *)
GuardedStartOf(a) ==
  /\ sidecar[a].started => app[a].started \/ LateGuard(a)
  /\ sidecar[a].loop # None => sidecar[a].started
  /\ \A s \in Invocation : InFlight(a, s) =>
       /\ app[a].promise = s
       /\ start[a][s].guarded
       /\ sidecar[a].started => start[a][s].pc = "resolved"

LEMMA GuardedStartLocal ==
  ASSUME TypeOK, GuardedStart, NEW a \in App, NEW s \in Invocation, StartStep(a, s),
         \A b \in App : b # a => sidecar'[b].started = sidecar[b].started
                              /\ sidecar'[b].loop = sidecar[b].loop
                              /\ app'[b] = app[b],
         GuardedStartOf(a)'
  PROVE  GuardedStart'
<1>1. ASSUME NEW b \in App, b # a PROVE GuardedStartOf(b)'
  <2>1. GuardedStartOf(b)
    BY DEF GuardedStart, GuardedStartOf
  <2>2. \A t \in Invocation : start'[b][t] = start[b][t]
    BY <1>1, StartStepFrame
  <2>3. \A t \in Invocation : InFlight(b, t)' = InFlight(b, t)
    BY <2>2 DEF InFlight
  <2>4. LateGuard(b)' = LateGuard(b)
    BY <1>1, StartStepFrame
  <2> QED BY <1>1, <2>1, <2>2, <2>3, <2>4 DEF GuardedStartOf
<1> QED BY <1>1 DEF GuardedStart, GuardedStartOf

LEMMA StartStepPatient ==
  ASSUME PatientInv, NEW a \in App, NEW s \in Invocation, StartStep(a, s)
  PROVE  OneLoop' /\ GuardedStart'
<1> USE DEF PatientInv, PollInv, TypeInv
<1>1. /\ InFlight(a, s)
      /\ start'[a][s].guarded = start[a][s].guarded
      /\ \A b \in App, t \in Invocation : b # a \/ t # s => start'[b][t] = start[b][t]
      /\ \A b \in App : b # a => LateGuard(b)' = LateGuard(b)
  BY StartStepFrame
<1>2. /\ app[a].promise = s /\ start[a][s].guarded
      /\ sidecar[a].started => start[a][s].pc = "resolved"
      /\ \A t \in Invocation : t # s => ~InFlight(a, t)
  BY <1>1 DEF GuardedStart
<1>0. /\ \A t \in Invocation : t # s => ~InFlight(a, t)'
      /\ start'[a][s].guarded
  BY <1>1, <1>2 DEF InFlight
<1>3. CASE Register(a, s)
  <2>1. /\ sidecar'[a].started /\ sidecar'[a].loop = s
        /\ \A b \in App : b # a => sidecar'[b] = sidecar[b]
    BY <1>3 DEF Register, BeginPolling, TypeOK, Sidecars
  <2>2. app' = app
    BY <1>3 DEF Register
  <2>3. \A b \in App, t \in Invocation : b # a \/ t # s => loop'[b][t] = loop[b][t]
    BY <1>3 DEF Register, BeginPolling, TypeOK
  <2>4. ~sidecar[a].started
    BY <1>2, <1>3 DEF Register
  <2>5. \A t \in Invocation : ~loop[a][t].running
    BY <2>4, NoneIsNoInvocation DEF OneLoop, GuardedStart
  <2>6. OneLoop'
    BY <2>1, <2>3, <2>5 DEF OneLoop
  <2>7. start'[a][s].pc = "resolved"
    BY <1>2, <1>3 DEF Register, BeginPolling, Over, TypeOK, Starts
  <2>8. LateGuard(a)'
    BY <2>7 DEF LateGuard
  <2>9. GuardedStartOf(a)'
    BY <1>0, <1>2, <2>1, <2>2, <2>7, <2>8 DEF GuardedStartOf
  <2>10. GuardedStart'
    BY <2>1, <2>2, <2>9, GuardedStartLocal
  <2> QED BY <2>6, <2>10
<1>4. CASE Reject(a, s) /\ start[a][s].pc # "resolved"
  <2>1. UNCHANGED <<app, sidecar, loop>>
    BY <1>4 DEF Reject
  <2>2. GuardedStartOf(a)'
    BY <1>0, <1>2, <1>4, <2>1 DEF GuardedStartOf, GuardedStart
  <2> QED BY <2>1, <2>2, GuardedStartLocal DEF OneLoop
<1>5. CASE Settle(a, s)
  <2>1. /\ app'[a].started
        /\ \A b \in App : b # a => app'[b] = app[b]
    BY <1>5 DEF Settle, TypeOK, Apps
  <2>2. start'[a][s].pc = "done" /\ UNCHANGED <<sidecar, loop>>
    BY <1>5 DEF Settle, TypeOK, Starts
  <2>3. GuardedStartOf(a)'
    BY <1>0, <2>1, <2>2 DEF GuardedStartOf, GuardedStart, InFlight
  <2> QED BY <2>1, <2>2, <2>3, GuardedStartLocal DEF OneLoop
<1>6. CASE SettleRejected(a, s)
  <2>1. ~sidecar[a].started
    BY <1>2, <1>6 DEF SettleRejected
  <2>2. \A b \in App : b # a => app'[b] = app[b]
    BY <1>6 DEF SettleRejected, TypeOK, Apps
  <2>3. start'[a][s].pc = "failed" /\ UNCHANGED <<sidecar, loop>>
    BY <1>6 DEF SettleRejected, TypeOK, Starts
  <2>4. GuardedStartOf(a)'
    BY <1>0, <2>1, <2>3 DEF GuardedStartOf, GuardedStart, InFlight
  <2> QED BY <2>2, <2>3, <2>4, GuardedStartLocal DEF OneLoop
<1>7. CASE WasmLoaded(a, s) \/ FindIdentity(a, s) \/ GenerateIdentity(a, s)
             \/ StoreIdentity(a, s)
  <2>1. UNCHANGED <<app, loop>> /\ start[a][s].pc # "resolved"
    BY <1>7 DEF WasmLoaded, FindIdentity, GenerateIdentity, StoreIdentity
  <2>2. ASSUME NEW b \in App
        PROVE  sidecar'[b].started = sidecar[b].started /\ sidecar'[b].loop = sidecar[b].loop
    <3>1. CASE FindIdentity(a, s)
      BY <3>1 DEF FindIdentity, TypeOK, Sidecars
    <3>2. CASE StoreIdentity(a, s)
      BY <3>2 DEF StoreIdentity, TypeOK, Sidecars
    <3>3. CASE sidecar' = sidecar
      BY <3>3
    <3> QED BY <1>7, <3>1, <3>2, <3>3 DEF WasmLoaded, GenerateIdentity
  <2>3. OneLoop'
    BY <2>1, <2>2 DEF OneLoop
  <2>4. GuardedStartOf(a)'
    BY <1>0, <1>2, <2>1, <2>2 DEF GuardedStartOf, GuardedStart
  <2> QED BY <2>1, <2>2, <2>3, <2>4, GuardedStartLocal
<1> QED BY <1>3, <1>4, <1>5, <1>6, <1>7 DEF StartStep, StorageFails, RegisterFails

LEMMA TickStepPatient ==
  ASSUME PatientInv, NEW a \in App, NEW s \in Invocation, TickStep(a, s)
  PROVE  OneLoop' /\ GuardedStart'
<1> USE DEF PatientInv, PollInv, TypeInv
<1>1. UNCHANGED <<app, sidecar, start>>
  BY DEF TickStep, BeginTick, NothingToDo, Dispatch, Processed, TickFails
<1>2. ASSUME NEW b \in App, NEW t \in Invocation
      PROVE  loop'[b][t].running = loop[b][t].running
  <2>1. loop[b][t] \in Loops
    BY StartTypes
  <2>2. CASE BeginTick(a, s)
    BY <2>1, <2>2 DEF BeginTick, TypeOK, Loops
  <2>3. CASE Dispatch(a, s)
    BY <2>1, <2>3 DEF Dispatch, TypeOK, Loops
  <2>4. CASE EndTick(a, s)
    <3>1. loop'[b][t] = loop[b][t] \/ loop'[b][t] = Rearmed(loop[b][t])
      BY <2>4 DEF EndTick, TypeOK
    <3> QED BY <2>1, <3>1 DEF Rearmed, Loops
  <2> QED BY <2>2, <2>3, <2>4 DEF TickStep, NothingToDo, Processed, TickFails
<1> QED BY <1>1, <1>2 DEF OneLoop, GuardedStart, InFlight, LateGuard

LEMMA StopPatient ==
  ASSUME PatientInv, ~ImpatientStops, NEW a \in App, Stop(a)
  PROVE  OneLoop' /\ GuardedStart'
<1> USE DEF PatientInv, PollInv, TypeInv
<1>1. \A s \in Invocation : ~InFlight(a, s)
  BY DEF Stop
<1>2. /\ ~sidecar'[a].started
      /\ sidecar[a].started => sidecar'[a].loop = None
      /\ ~sidecar[a].started => sidecar'[a].loop = sidecar[a].loop
      /\ \A b \in App : b # a => sidecar'[b] = sidecar[b] /\ app'[b] = app[b]
  BY DEF Stop, TypeOK, Sidecars
<1>3. sidecar'[a].loop = None
  BY <1>2 DEF GuardedStart
<1>4. start' = start
  BY DEF Stop
<1>5. GuardedStart'
  BY <1>1, <1>2, <1>3, <1>4 DEF GuardedStart, InFlight, LateGuard
<1>6. sidecar[a].started => sidecar[a].loop # None
  BY DEF SidecarPolls
<1>7. ASSUME NEW b \in App, NEW t \in Invocation, loop'[b][t].running
      PROVE  sidecar'[b].loop = t
  BY <1>2, <1>3, <1>6, <1>7, StopEffect, NoneIsNoInvocation DEF OneLoop, GuardedStart
<1>8. OneLoop'
  BY <1>7 DEF OneLoop
<1> QED BY <1>5, <1>8

LEMMA ReloadPatient ==
  ASSUME PatientInv, NEW a \in App, Reload(a)
  PROVE  OneLoop' /\ GuardedStart'
<1> USE DEF PatientInv, PollInv, TypeInv
<1>1. /\ sidecar'[a] = FreshSidecar
      /\ \A t \in Invocation : loop'[a][t] = NoLoop /\ ~InFlight(a, t)'
      /\ \A b \in App : b # a => /\ sidecar'[b] = sidecar[b]
                                 /\ app'[b] = app[b]
                                 /\ loop'[b] = loop[b]
                                 /\ start'[b] = start[b]
  BY DEF Reload, TypeOK, Starts, InFlight
<1>2. OneLoop'
  BY <1>1 DEF OneLoop, NoLoop
<1>3. GuardedStart'
  BY <1>1 DEF GuardedStart, FreshSidecar, InFlight, LateGuard
<1> QED BY <1>2, <1>3

LEMMA StepPatient ==
  ASSUME ~DirectStarts, ~ImpatientStops
  PROVE  PatientInv /\ [Next]_vars => PatientInv'
<1> SUFFICES ASSUME PatientInv, [Next]_vars PROVE OneLoop' /\ GuardedStart'
  BY StepPolls DEF PatientInv
<1>1. CASE UNCHANGED vars
  BY <1>1 DEF vars, PatientInv, OneLoop, GuardedStart, InFlight, LateGuard
<1>2. CASE Next
  BY <1>2, StartCallPatient, StartStepPatient, TickStepPatient, StopPatient, ReloadPatient
     DEF Next
<1> QED BY <1>1, <1>2

(* A sidecar has at most one running loop, the one stop would stop.        *)
THEOREM OneLoopForPatientCallers ==
  ASSUME ~DirectStarts, ~ImpatientStops
  PROVE  Spec => []OneLoop
<1>1. PatientInv => OneLoop
  BY DEF PatientInv
<1>2. PatientInv /\ [Next]_vars => PatientInv'
  BY StepPatient
<1> QED BY <1>1, <1>2, InitPatient, PTL DEF Spec

-------------------------------------------------------------------------------
(* One patient application alone on its storage has one identity for ever. *)

(* What a start has found or generated is what the storage holds; while a  *)
(* new identity waits to be stored, there is no other.                     *)
IdentityInStorage ==
  \A a \in App :
    /\ sidecar[a].identity # NoIdentity => sidecar[a].identity = stored
    /\ \A s \in Invocation :
         /\ start[a][s].pc = "write" => stored = NoIdentity
         /\ start[a][s].pc = "register" => start[a][s].id = stored
         /\ loop[a][s].running => stored # NoIdentity /\ loop[a][s].id = stored

IdentityInv == PatientInv /\ IdentityInStorage

LEMMA InitIdentity == Init => IdentityInv
<1> SUFFICES ASSUME Init PROVE IdentityInv
  OBVIOUS
<1>1. IdentityInStorage
  BY DEF Init, IdentityInStorage, FreshSidecar, FreeStart, NoLoop
<1> QED BY <1>1, InitPatient DEF IdentityInv

LEMMA StartStepIdentity ==
  ASSUME IdentityInv, \A b, c \in App : b = c,
         NEW a \in App, NEW s \in Invocation, StartStep(a, s)
  PROVE  IdentityInStorage'
<1> USE DEF IdentityInv, PatientInv, PollInv, TypeInv
<1>1. InFlight(a, s)
  BY StartStepFrame
<1>2. \A t \in Invocation : t # s => start[a][t].pc \notin {"write", "register"}
  BY <1>1 DEF GuardedStart, InFlight
<1>3. \A t \in Invocation : t # s => start'[a][t] = start[a][t]
  BY StartStepFrame
<1>4. SUFFICES /\ sidecar'[a].identity # NoIdentity => sidecar'[a].identity = stored'
               /\ start'[a][s].pc = "write" => stored' = NoIdentity
               /\ start'[a][s].pc = "register" => start'[a][s].id = stored'
               /\ \A t \in Invocation :
                    loop'[a][t].running => stored' # NoIdentity /\ loop'[a][t].id = stored'
  BY <1>2, <1>3 DEF IdentityInStorage
<1>5. CASE WasmLoaded(a, s)
  BY <1>5 DEF WasmLoaded, TypeOK, Starts, IdentityInStorage
<1>6. CASE FindIdentity(a, s)
  <2>1. sidecar'[a].identity = stored /\ stored' = stored /\ loop' = loop
    BY <1>6 DEF FindIdentity, TypeOK, Sidecars
  <2>2. start'[a][s].pc = "register" /\ start'[a][s].id = stored
    BY <1>6 DEF FindIdentity, TypeOK, Starts
  <2> QED BY <2>1, <2>2 DEF IdentityInStorage
<1>7. CASE GenerateIdentity(a, s)
  <2>1. stored = NoIdentity /\ UNCHANGED <<stored, sidecar, loop>>
    BY <1>7 DEF GenerateIdentity
  <2>2. start'[a][s].pc = "write"
    BY <1>7 DEF GenerateIdentity, TypeOK, Starts
  <2> QED BY <2>1, <2>2 DEF IdentityInStorage
<1>8. CASE StoreIdentity(a, s)
  <2>1. stored = NoIdentity /\ loop' = loop
    BY <1>8 DEF StoreIdentity, IdentityInStorage
  <2>2. sidecar'[a].identity = start[a][s].id /\ stored' = start[a][s].id
    BY <1>8 DEF StoreIdentity, TypeOK, Sidecars
  <2>3. start'[a][s].pc = "register" /\ start'[a][s].id = start[a][s].id
    BY <1>8 DEF StoreIdentity, TypeOK, Starts
  <2> QED BY <2>1, <2>2, <2>3 DEF IdentityInStorage
<1>9. CASE Register(a, s)
  <2>1. /\ stored' = stored
        /\ start[a][s].id = stored
        /\ start[a][s].id \in Identity
    BY <1>9 DEF Register, IdentityInStorage, IdentityKnown
  <2>2. stored # NoIdentity
    BY <2>1 DEF Identity, NoIdentity
  <2>3. sidecar'[a].identity = sidecar[a].identity
    BY <1>9 DEF Register, BeginPolling, TypeOK, Sidecars
  <2>4. start'[a][s].pc \in {"resolved", "done"}
    BY <1>9 DEF Register, BeginPolling, Over, TypeOK, Starts
  <2>5. \A t \in Invocation :
          loop'[a][t] = IF t = s THEN StartedLoop(start[a][s].id) ELSE loop[a][t]
    BY <1>9 DEF Register, BeginPolling, TypeOK
  <2> QED BY <2>1, <2>2, <2>3, <2>4, <2>5 DEF IdentityInStorage, StartedLoop
<1>10. CASE Reject(a, s) /\ loop' = loop
  <2>1. start'[a][s].pc \in {"rejected", "failed"} /\ UNCHANGED <<stored, sidecar>>
    BY <1>10 DEF Reject, Thrown, TypeOK, Starts
  <2> QED BY <1>10, <2>1 DEF IdentityInStorage
<1>11. CASE Settle(a, s) \/ SettleRejected(a, s)
  <2>1. start'[a][s].pc \in {"done", "failed"} /\ UNCHANGED <<stored, sidecar, loop>>
    BY <1>11 DEF Settle, SettleRejected, TypeOK, Starts
  <2> QED BY <2>1 DEF IdentityInStorage
<1> QED BY <1>5, <1>6, <1>7, <1>8, <1>9, <1>10, <1>11 DEF StartStep, StorageFails,
                                                  RegisterFails, Reject

(* The other steps create no identity and start no loop.                   *)
LEMMA OtherIdentity ==
  ASSUME IdentityInv, NEW a \in App,
         \/ Stop(a) \/ Reload(a)
         \/ \E s \in Invocation : EnsureStarted(a, s) \/ StartDirectly(a, s) \/ TickStep(a, s)
  PROVE  IdentityInStorage'
<1> USE DEF IdentityInv, PatientInv, PollInv, TypeInv
<1>1. CASE Stop(a)
  <2>1. sidecar[a].started => sidecar[a].loop # None
    BY DEF SidecarPolls
  <2>2. \A b \in App : sidecar'[b].identity = sidecar[b].identity
    BY <1>1 DEF Stop, TypeOK, Sidecars
  <2>3. \A b \in App, t \in Invocation :
          loop'[b][t].running => loop'[b][t] = loop[b][t]
    BY <1>1, <2>1, StopEffect
  <2>4. UNCHANGED <<stored, start>>
    BY <1>1 DEF Stop
  <2> QED BY <2>2, <2>3, <2>4 DEF IdentityInStorage
<1>2. CASE Reload(a)
  <2>1. /\ sidecar'[a].identity = NoIdentity
        /\ \A b \in App : b # a => /\ sidecar'[b] = sidecar[b]
                                   /\ start'[b] = start[b]
                                   /\ loop'[b] = loop[b]
    BY <1>2 DEF Reload, TypeOK, FreshSidecar
  <2>2. \A t \in Invocation : ~loop'[a][t].running
    BY <1>2 DEF Reload, TypeOK, NoLoop
  <2>3. \A t \in Invocation : start'[a][t].pc \notin {"write", "register"}
    BY <1>2 DEF Reload, TypeOK, Starts, InFlight
  <2>4. stored' = stored
    BY <1>2 DEF Reload
  <2> QED BY <2>1, <2>2, <2>3, <2>4 DEF IdentityInStorage
<1>3. ASSUME NEW s \in Invocation, EnsureStarted(a, s) \/ StartDirectly(a, s)
      PROVE  IdentityInStorage'
  <2>1. UNCHANGED <<stored, sidecar, loop>>
    BY <1>3 DEF EnsureStarted, StartDirectly
  <2>2. PICK g \in BOOLEAN : Call(a, s, g)
    BY <1>3 DEF EnsureStarted, StartDirectly
  <2>3. \A b \in App, t \in Invocation :
          start'[b][t] = start[b][t] \/ start'[b][t].pc \in {"wasm", "resolved", "done"}
    BY <2>2, CallType
  <2> QED BY <2>1, <2>3 DEF IdentityInStorage
<1>4. ASSUME NEW s \in Invocation, TickStep(a, s) PROVE IdentityInStorage'
  <2>1. UNCHANGED <<stored, sidecar, start>>
    BY <1>4 DEF TickStep, BeginTick, NothingToDo, Dispatch, Processed, TickFails
  <2>2. ASSUME NEW b \in App, NEW t \in Invocation
        PROVE  loop'[b][t].running = loop[b][t].running /\ loop'[b][t].id = loop[b][t].id
    <3>1. loop[b][t] \in Loops
      BY StartTypes
    <3>2. CASE BeginTick(a, s)
      BY <3>1, <3>2 DEF BeginTick, TypeOK, Loops
    <3>3. CASE Dispatch(a, s)
      BY <3>1, <3>3 DEF Dispatch, TypeOK, Loops
    <3>4. CASE EndTick(a, s)
      <4>1. loop'[b][t] = loop[b][t] \/ loop'[b][t] = Rearmed(loop[b][t])
        BY <3>4 DEF EndTick, TypeOK
      <4> QED BY <3>1, <4>1 DEF Rearmed, Loops
    <3> QED BY <1>4, <3>2, <3>3, <3>4 DEF TickStep, NothingToDo, Processed, TickFails
  <2> QED BY <2>1, <2>2 DEF IdentityInStorage
<1> QED BY <1>1, <1>2, <1>3, <1>4

LEMMA StepIdentity ==
  ASSUME ~DirectStarts, ~ImpatientStops, \A b, c \in App : b = c
  PROVE  IdentityInv /\ [Next]_vars => IdentityInv'
<1> SUFFICES ASSUME IdentityInv, [Next]_vars PROVE IdentityInStorage'
  BY StepPatient DEF IdentityInv
<1>1. CASE UNCHANGED vars
  BY <1>1 DEF vars, IdentityInv, IdentityInStorage
<1>2. CASE Next
  BY <1>2, StartStepIdentity, OtherIdentity DEF Next
<1> QED BY <1>1, <1>2

(* Alone on its storage, a patient application polls as one identity, the  *)
(* stored one, across stops, failures and reloads.                         *)
THEOREM OneIdentityAlone ==
  ASSUME ~DirectStarts, ~ImpatientStops, \A b, c \in App : b = c
  PROVE  Spec => []OneIdentity
<1>1. IdentityInv => OneIdentity
  BY DEF IdentityInv, IdentityInStorage, OneIdentity
<1>2. IdentityInv /\ [Next]_vars => IdentityInv'
  BY StepIdentity
<1> QED BY <1>1, <1>2, InitIdentity, PTL DEF Spec

===============================================================================
