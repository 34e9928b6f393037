# The QKMS SDK in TLA+

A verification project for `qkms-sdk`: TLA+ modules translated from the
source, TLC configurations that check them on small instances, and TLAPS
proofs of what matters most. Paths below are relative to the repository;
`sidecar/` stands for `packages/core/src/sidecar/`.

## 1. The system

A wallet's key is never in one place. It is generated and used by a protocol
between *sidecars* (a browser tab, a Node process) and the QKMS server, which
also relays their messages. The SDK is the sidecar and the application code
around it.

| Part | Source | State it keeps | Operations |
|---|---|---|---|
| Poll loop | `sidecar/poll.ts` | `running`, `timer`; a tick is an `async` function suspended at each call | `start`, `stop`, `tick`, `ensureE2EESessions` |
| Task dispatcher | `sidecar/dispatch.ts` | the sessions in order, `submittedRounds` | `register`, `dispatch` |
| Protocol sessions | `sidecar/sessions/*.ts` | per task: `dkgStates`, `signStates`, completed shares | `canHandle`, `process` (`processDKG`, `processSign`) |
| Peer channel | `sidecar/peer-channel.ts` | ratchet per peer, `sessionReady`, `helloSent` | the two halves of the handshake, `encrypt`, `decrypt` |
| Sidecar, identity | `sidecar/index.ts`, `identity.ts`, `wasm-init.ts` | `started`, identity, poll loop | `start`, `stop`, `register`, `getIdentity` |
| Worker bridge | `packages/core/src/worker/*.ts` | pending calls by id, the worker's one sidecar | `call`, `start`, `stop`, events |
| Storage | `packages/core/src/storage/*.ts` | identity, key shares, wallet records | `get`, `put`, `delete`, `list` |
| Application layer | `packages/vanilla`, `packages/react`, `packages/node` | wallet list, user, start promise, credentials | create wallet, wait for the key, login, logout |
| Go WASM | `wasm/mpc-wasm` | protocol state of RSA, CMK and BLS12-381, a session cache | the exported protocol steps |
| QKMS server | not in the repository | tasks, rounds, contributions, party messages | `ListTasks`, `UpdateTask`, `SendPartyMessage`, `GetPartyMessages` |

How they meet: the poll loop lists the tasks; for a task with other sidecars
it first has the peer channel complete a handshake with each of them; then the
dispatcher hands the task to the first session whose `canHandle` accepts it.
The session computes its contribution for the round, sends it with
`UpdateTask`, and, when the key is complete, has the application store the
share through `onKeyShareReady`. Nothing but the identity, the shares and the
wallet records survives a restart.

What is hard here:

- every `await` is a point where other ticks, other sidecars, the server, a
  logout or a restart come in between; a task is processed from the snapshot
  the tick listed;
- calls fail before or after they took effect, and the only retry is the next
  poll, which finds the session already changed;
- `GetPartyMessages` deletes what it returns;
- the session and the server each count rounds, and can disagree;
- a share is reported, stored and forgotten in separate steps.

What makes each part correct: a stored share belongs to the key that was
reported and is stored before it is reported (sessions); no task is dispatched
to a session before its peers joined the handshake, and the handshake always
completes (peer channel, poll loop); a round is contributed to once
(dispatcher); a submitted signature verifies (sessions); one sidecar has one
identity and one loop, and a call gets its own answer (lifecycle, worker); a
key's share is in its owner's database, the context names the sidecar that
runs, a payment is made once, and a wallet is the same to every client
(application).

## 2. Modules

| Module | Models | Source |
|---|---|---|
| `KeyCeremony` | what key generation promises the application | abstract |
| `FeldmanDkg` | a CreateKey task of the Decaf448 and BLS48-581 sessions, with dispatcher, storage write and server rounds | `sessions/decaf448.ts:384-552`, `sessions/bls.ts:335-494`, `dispatch.ts:47-61`, `poll.ts:52-88` |
| `PeerHandshake` | the pairwise handshake under the poll loop | `peer-channel.ts:60-318`, `poll.ts:119-196` |
| `SidecarLifecycle` | guarded start and stop of a sidecar, its identity, its poll loops | `index.ts:41-124`, `identity.ts:118-152`, `poll.ts:22-88`, `dispatch.ts:46-61`, `vanilla/src/qkms.ts:100-132,374-388`, `node/src/client.ts:166-181` |
| `TaskRounds` | what every session has around it: the tick, `submittedRounds`, the server's rounds | `poll.ts:52-88`, `dispatch.ts:46-61` |
| `SessionDkg` | CreateKey in DKLs23, FROST and BLS12-381 (EXTENDS `TaskRounds`) | `sessions/dkls23.ts`, `sessions/frost.ts`, `sessions/bls.ts`, `mpcbls12381/bls12381.go`, `main.go` |
| `RsaKeyGen` | CreateKey in RSA: eight phases in Go behind `rsa.ts` (EXTENDS `TaskRounds`) | `sessions/rsa.ts:295-460`, `mpcrsa/rsa_nparty.go`, `mpcrsa/session_cache.go` |
| `ThresholdArithmetic` | polynomials, Lagrange coefficients, the modular inverse, Shoup's combination | `sessions/decaf448.ts`, `main.go`, `mpcrsa/rsa_threshold_n.go` |
| `ThresholdSign` | Sign in six protocols, with computed signatures (EXTENDS both) | all of `sessions/` but `rsa2pc.ts`, and the Go code they call |
| `WorkerBridge` | the proxy on the main thread, the RPC under it, the worker's handlers | `packages/core/src/worker/*.ts` |
| `ReactProvider` | the provider's effect, its memoised context, login, logout, createWallet | `packages/react/src/provider.tsx`, `hooks/usePrivy.ts`, `hooks/useCreateWallet.ts` |
| `TaskRouting` | which session takes a task, and whether it finds the key's share | `canHandle` of all of `sessions/`, `dispatch.ts:47-61`, the registration and the storage name spaces of the clients |
| `EthereumSends` | Ethereum transactions and messages: nonce, fees, signature encoding, broadcast, retry | `wallets/evm-provider.ts`, `node/src/resources/wallets.ts:205-352` |
| `Wallets` | how wallets are created, and what the clients say of them later | `createWallet` of every client and chain, `provider.tsx:334-395`, `node/src/resources/wallets.ts:105-181`, `wallets/address.ts` |
| `MC*` | instances for TLC: model values, symmetry, numbers | |
| `FeldmanDkgProofs`, `KeyGenerationsProofs`, `ThresholdSignProofs`, `PeerHandshakeProofs`, `SidecarLifecycleProofs`, `WorkerBridgeProofs`, `ReactProviderProofs`, `ClientsProofs` | theorems and proofs | |

`FeldmanDkg` and `SidecarLifecycle` have their tick built in; the session
modules written after them share that of `TaskRounds`, whose operators they
use as conjuncts of their own actions.

**FeldmanDkg.** One action per way through `processDKG`: re-emit a completion,
resubmit round 0, draw the polynomial, send the shares, combine them, and the
three throws. A tick is suspended at `ListTasks`, at the storage write and at
`UpdateTask`, so these are separate steps (`pc`), and the task is the snapshot
`snap` taken at the first. A polynomial is the ordinal of the draw that made
it: a commitment and a share fit if they carry the same number, and 0 is a
hole. The server is external: it closes a round every party contributed to,
and for a second or misdirected contribution, where the client code gives no
hint, it may record or ignore it. `UpdateTaskFails` loses the request or only
the answer; `Restart` empties the maps and may cut a call in flight either way.

**PeerHandshake.** A tick is `hellos`, `acks`, then one step per peer, then the
dispatch; the ticks of different sidecars interleave at each call. The order
in which peers are driven is left open (the code takes that of the party map).
The double ratchet is external: messages are indices in a chain, a chain
starts afresh with the session, an index opens once, and because
`establishSession` passes long-term keys only, equal sessions are equal.
Ratchet corruption by a wrong peer's message is excluded by the partition the
code makes. A failure is a kind of call and whether it took effect
(`FaultKinds`). `dispatched` is of the present life of a sidecar. `engaged` and
`engagedNow` are history variables: with whom a sidecar took part in the
handshake of a task, ever and in its present life. `NoHelloLost` is about the
first task of a pair, because the receiver keeps its ratchet for the next one
and cannot read the new hello (section 5), and about the failures that the
code repairs: an answer of `GetPartyMessages` that is lost, or an ack that is
not sent, is lost for good.

**SidecarLifecycle.** `Sidecar.start` sets `started` only at its end, so each
call of it is an invocation with a program counter (`wasm`, `read`, `write`,
`register`), and any number of them may be under way. An invocation makes its
own `PollLoop`, which has the invocation's number; the field `pollLoop` holds
the last one. The promise that the owner keeps (`app[a].promise`) is modelled
as the invocation it stands for; a rejection clears it whatever it holds, as
the handler in `Qkms` does, or never (`ClearsOnFailure = FALSE`, the Node
client). The guard learns of the end of a start in a microtask of its own
(`Settle`, `SettleRejected`), so that a stop fits in between; the history
variable `overtaken` records one that did. `stop` and `logout` are one action, because they run to their end
without an `await`. The applications share one storage and the server. A tick
works on one task; its rounds pass through `submittedRounds`, which belongs to
the `Sidecar` and outlives its loops. `wanted` is a history variable. What the
callers may do is a constant: `DirectStarts` (`qkms.sidecar.start()` next to
the guarded call) and `ImpatientStops` (a stop while a start is in flight).

**TaskRounds.** A tick lists the task (`ListTasks`, which takes the snapshot
`snap`), is ended by `submittedRounds` (`SkipSubmitted`) or enters the session
(`Processing`), which throws, awaits something of its own, or calls
`UpdateTask`. The server is external, as in `FeldmanDkg`.

**SessionDkg.** The constant `Protocols` is a set, and a behaviour chooses one
protocol. A session is the ordinal of its draw and the step of its last
message; a message carries both. The calls into WASM fail unless every peer is
there with a message of the step before, from the session it was heard with.
What differs is what round 0 does when it is asked for again (see the header
of the module). DKLs23 sends its messages to every peer before it calls
`UpdateTask`, which makes a step of its own (`telling`); a failure there is
only logged, and no code in the repository collects what was sent.

**RsaKeyGen.** One poll feeds every contribution to the Go session, in any
order (`Polls`): `Feed` is `ProcessNPartyRSADKGRound`, and each `Phase`
operator one of its cases. A message is what it gives to each party, with 0
where the JSON field is absent, because `omitempty` makes these the same. The
dealer's two primes are numbers and N, lambda and the test of phase 6 are
computed. What the decryption of a message for another key gives is a constant
(`Garbage`). An action that panics in Go leaves the session `Crashed`.

**ThresholdSign.** Group elements are their exponents in a small field, so a
submitted signature either verifies or does not. Every session has its own
actions, from the loading of the share to the aggregate; `named` says whether
the server names the signers, and `partyIDMap` how it numbers them in the task.
DKLs23 signs with the numbers of the key, by which its messages are addressed,
and keeps those addressed to the number of the task (`KeepsItsMessages`). A session knows the ordinal of its draw, of which
the nonce is a function; the history variable `answered` records the draw and
the challenge of every partial that leaves a sidecar. The hash and the nonces
are constants, functions that do not collide by accident; what is assumed of
them and of the dealt key is in named assumptions, which section 4 lists.

**WorkerBridge.** A call of the proxy has a place in the table `call`; requests
and responses travel in two queues (`toWorker`, `toMain`). A handler of the
worker is taken from the queue when the one before it has suspended, so several
are under way at once (`handler`, by request id), and answers may leave in any
order. `Sidecar.start` within the worker succeeds or fails in one step; its
inside is `SidecarLifecycle`.

**ReactProvider.** State updates that React batches are one `Commit`: the new
state, the memo, then the effects. A login comes in any state of the page: over
configured credentials, over another user's session, or the same user's with
the old or a new access key. `inits` are the runs of the effect on this
page, each with its sidecar; `ctx` is what the memo last computed, with the
state and the sidecar of that moment. A database has the name of the user it
was opened for, and a sidecar that of its database. A key gets its share from
any running sidecar among its participants. `wallets` is the set of the keys
shown; their order, by which nothing in the code decides, is left out. Each key
records whether the page was `Steady` when it was asked for: the last effect's
sidecar runs, and the context is of the first effect or names that sidecar.

**TaskRouting.** The life of one key of any kind in any client. What the server
writes is external: names of spec and protocol in the task, in its `ServerData`
(another in every round) or in both, and always one that identifies the key,
except that secp256k1 may go without. `CanHandle` asks one operator per
session; `Taker` is the first that accepts, in the client's order. `stored` are
the name spaces that hold a share; a session reads the one its client wired.

**EthereumSends.** A payment is an intention of the application, with one
request; its attempt is a record that goes through the stages of a send, one
call each, and the attempts of different payments interleave at every call.
Attempts that overlap may read the same pending count. The network keeps one
transaction per nonce and replaces it only while it is not final. Of a
signature the model keeps its encoding and whether it begins with 0x30; the
arithmetic of the parity that recovers the wallet is left out.

**Wallets.** A call and the key it asks for go separate ways: a call that
throws leaves a key that may yet become active. `told` is what the call
itself, the React provider (`LoadedBySpec`) and the Node client
(`DescribedByTags`) say of the key. A public key is known by its form, a
derivation by the forms it takes, and an address by its encoding. The clients
use one account; keys do not influence each other.

## 3. Runs

| Run | Instance | Shows |
|---|---|---|
| `dkg_agreement` | 3 parties, 2 faults, 1 restart, storage may fail | `StoredKeysAreWhole`, `AgreementWithoutRestart`, `SharesNeedAllCommitments` |
| `dkg_ceremony` | 3 parties, 2 faults, 1 restart, fairness | refinement of `KeyCeremony`, `EventuallyDone` |
| `handshake_restarts` | 2 sidecars, 2 tasks, 2 faults of any kind, 2 restarts | `DispatchedTogether` |
| `handshake_liveness` | 3 sidecars, 1 fault that consumes nothing, fairness | `NoHelloLost`, `EveryTaskDispatched` |
| `lifecycle_any` | 1 application, 3 starts, 1 fault, 2 stops, callers unrestricted | `StartedIsPolling`, `PollsAsRegistered`, `StoppedStaysStopped` |
| `lifecycle_patient` | 1 application, 6 starts, 2 faults, 2 stops, 1 reload, guarded and patient callers, fairness | `OneLoop`, `OneIdentity`, `EventuallyStarted`, `KeepsPolling` |
| `key_generations` | 3 parties; DKLs23, FROST and BLS12-381 with 2 faults, 1 restart, storage that may fail; RSA with primes 3 and 5 and 1 fault of any kind | `AgreeOnKey`, `InStep`; `RsaAgreeOnKey`, `RsaStoredKeysWork`, `RsaInStep` |
| `threshold_sign` | 2 of 3 sign with 6 protocols in a field of 101 elements and modulo 55, DKLs23 signers 1 and 3 numbered as in the key or 1 and 2, 2 faults, 1 restart, fairness | `SignaturesVerify`, `NonceUsedOnce`, `EventuallySigned` |
| `worker_bridge` | 4 calls, 2 faults, a terminate at any moment, fairness | `AnswersMatchCalls`, `OneSidecarPolls`, `FailuresAreTold`, `EveryCallSettles` |
| `react_pages` | 2 users, 1 key; 2 logins, 1 logout, 2 reloads, 1 fault, three of these together | `OnlyLeakedSidecarsRunOn`, `SharesReachOwner`, `SavedSessionIsCurrent`, `FirstContextIsCurrent`, `NoForeignWalletsLoaded` |
| `clients` | 9 kinds of key in every client; a wallet by 7 entry points with 6 forms of public keys; 2 payments of 2 attempts, 1 fault | `TasksReachTheirSession`, `ShareIsFound`; `OneWallet`, `NoWalletLeftOut`; `NoGap`, `PaidOnce`, `AwaitedSendsStand` |
| `routing_rsa2pc` | 2-of-2 RSA keys | violation: their shares are not found |

Two runs hold several modules. `MCKeyGenerations` checks `SessionDkg` and
`RsaKeyGen`, `MCClients` checks `TaskRouting`, `Wallets` and `EthereumSends`.
The modules of such a run share no variable and each property reads the
variables of one of them, so every behaviour of their composition is, as far as
that property goes, a behaviour of the one module; therefore each behaviour of
the run chooses one of them (`part`) and the others rest. `RsaAgreeOnKey`,
`RsaStoredKeysWork` and `RsaInStep` are the `AgreeOnKey`, `StoredKeysWork` and
`InStep` of `RsaKeyGen`. The runs list no `TypeOK`: it is the theorem
`TypeCorrect` of every module with state but `RsaKeyGen`, `TaskRouting` and
`Wallets`, where it documents the variables.

Bounds. Three parties is the smallest number where "all the others" is not
"the other" and where a circular wait is possible. Two faults are enough for a
failed call whose repetition fails again; one restart already separates
memory from server and storage. In `lifecycle_patient`, `MaxStarts` is one
more than faults, stops and the reload together, so that the bound is never
what keeps a sidecar from starting. RSA has one fault, because each of
its eight rounds takes it at any place; its primes are small ones with
which E has an inverse modulo lambda, and `Garbage` holds an error and a
plausible plaintext. `LastRound` is the number of
rounds an undisturbed run takes, and one more where a lost call can make the
server open another. In `threshold_sign` one party of the key generation does
not sign, so that cosigners and key holders differ. Four calls are enough for
a start that fails, one that overlaps it, one that follows, and a call between.
One key is enough for `react_pages`, whose properties compare a key with its
owner, and `MaxEvents`, three logins, logouts, reloads and failures together,
for a login over configured credentials and a reload, and a switch of users with
a logout or a reload before, between or after; the theorems have no such bound. In `clients` two payments can overlap, follow and displace each other, and
each can be tried again; wallets do not influence each other, so one is enough. Symmetry is used where no liveness is checked: parties, the parties
other than the dealer, users.

Fairness. Weak fairness of a tick's steps: `setTimeout` re-arms the loop in a
`finally`, and a settled promise is always resumed. Weak fairness of the
server's round closing is assumed of the external service. Strong fairness of
starting the handshake of each task: the loop over `Tasks` reaches every task
on every poll, but what it fetches in between makes the step disabled. Weak
fairness of `EnsureStarted`: the applications call it at the head of every
operation, so an application that wants its sidecar keeps asking. In
`WorkerBridge`, that the port delivers, that the two-second race in `start`
resolves, and that each handler of a living worker ends. Nothing is assumed of
stops, failures, logins or logouts. `TaskRouting`, `EthereumSends` and `Wallets`
have no liveness properties and state no fairness; their applications stop, so
deadlock is not checked there.

What a property leaves out is what the code does not give. `StartedIsPolling`
excepts a stop between the end of a start and the guard's reaction to it.
`DispatchedTogether` counts what a peer did in an earlier life of its own. `EventuallyDone`
and `EventuallySigned` presume that nothing failed: a lost call can stall a
ceremony for good. `EventuallySigned` also presumes that the server numbers
DKLs23 signers as the key does. `SignaturesVerify` holds through every failure for FROST,
DKLs23 and RSA; for the others while nothing fails. `SharesReachOwner` presumes
that the page was `Steady` when the key was asked for. Section 5 says what happens otherwise.

## 4. Proofs

`FeldmanDkgProofs`, for every set of parties and every number of faults and
restarts:

- `TypeCorrect`, by cases of `Next`;
- `StoredKeysWhole`: the invariant alone is not inductive, because a stored
  share is a copy of what the session held. `WholeInv` adds that every
  polynomial mentioned anywhere was drawn (`PolysDrawn`), that a session past
  a round holds everybody's data of that round (`SessionsFilled`) and that a
  finished key is whole before it is stored (`KeysWhole`);
- `Agreement`: `DrawnOnce` says that without restarts whoever has drawn still
  holds the session or the key, so nobody draws twice; then every number in a
  whole key is 1;
- `SharesAfterCommitments`: the commitments of a party that has sent its shares
  are those the server listed in round 1 (`Listed`, `HeldCommitted`), and there
  are none before (`NothingYet`);
- `CreatedKeysAreStored` and `RefinesCeremony`, assuming `~StorageMayFail`:
  `ReportedStored` says that a completion is reported, and a finished share
  leaves the persisting step, only when stored. The refinement maps a draw to
  `Bind`, the storage write to `Hold` and the server's closing to `Conclude`.

`PeerHandshakeProofs`, for every set of sidecars and tasks and every number of
faults and restarts:

- `TypeCorrect`, together with `TickRuns` (a working tick has a task);
- `Together`: `DispatchedTogether` from two invariants. The peer's half is
  `TogetherInv`, whose parts follow one handshake message from hand to hand: on
  the server (`MailEngaged`), fetched by a tick (`FetchedEngaged`), turned into
  a ready mark (`ReadyEngaged`), and counted by a tick that still believes in
  `allReady` (`DrivenReady`). The dispatcher's own half is `OwnInv`: what it has
  marked or sent in this life it engaged in in this life, and a restart forgets
  all of that together;
- `HellosKept`: `NoHelloLost` from `HelloInv`. The hello of a pair's first
  task is in the mail, in the tick that fetched it, or answered
  (`HelloKept`); a tick that ends has driven every peer (`TickShape`), and a
  driven peer whose hello was at hand is ready (`DrivenAnswered`), because a
  ratchet has opened nothing before the pair is ready (`OpenedReady`).

`SidecarLifecycleProofs`, for every set of applications and every number of
starts, faults, stops and reloads:

- `TypeCorrect`, with two facts the types of the transitions need: an
  invocation past the storage knows its identity, and a tick that processes
  has a round;
- `StartedPolls`, `OnlyRegisteredPoll` and `StoppedStays` from `PollInv`:
  the loop a started sidecar knows is running and armed (`SidecarPolls`), and
  the guard says "started", or is about to be told so, only of such a sidecar,
  unless a stop has come in between (`GuardKnows`). No assumption on the
  callers;
- `OneLoopForPatientCallers`, assuming `~DirectStarts` and `~ImpatientStops`:
  `GuardedStart` says that an invocation under way is the promise the guard
  holds, hence the only one, and that nothing is started beside it;
- `OneIdentityAlone`, for a single such application: `IdentityInStorage` says
  that every identity known to the sidecar or to an invocation past the write
  is the stored one; section 5 shows that neither assumption can go.

`WorkerBridgeProofs`, for any number of calls and failures:

- `TypeCorrect`: `IdsCounted` says that `nextId` is one more than the number of
  calls that have an id, so no id exceeds the calls; `StarterKnown`, that a
  handler which starts a sidecar starts that of its own request;
- `OneSidecar` from `OneInv`: the worker's variable names the sidecar that
  starts or polls, so no request builds another;
- `AnswersMatch` from `MatchInv`: at any time a request, then its handler, then
  its response stands for an id, never two of them (`OneRequest`,
  `OneResponse`, `NotBoth`), and that id is of one pending call of the same
  method;
- `FailuresTold` from `ToldInv`: whatever says "started" was said while a
  sidecar polled or a failure was on its way (`Sound`); a stop empties
  everything, and a terminated worker is posted nothing.

`KeyGenerationsProofs`, for every set of parties and every number of faults and
restarts. Of `SessionDkg`:

- `TypeCorrect`, on the types that `TaskRounds` gives to the tick and the
  rounds;
- `OneKey` from `DrawInv`: once a party has taken part in a round after the
  first, what anybody sends, has heard or has stored of it is its last draw
  (`MessagesFinal`, `SessionsFinal`, `KeysFinal`). FROST draws again in
  round 0, and its part assumes that nothing failed;
- `InStepWithTask` from `StepInv`: without failures the step of a session, the
  rounds it has submitted and the round of the task determine each other, so
  that each party is before, at or past its step of the round.

Of `RsaKeyGen` (`Rsa` in `MCKeyGenerations`), for any primes, exponent and
garbage that `DealerAssumption` allows. Two things had to be settled first. A
poll is a table that a `CHOOSE` fixes over the subsets of the senders, and a
sum is a fold over the parties: that such a table exists, and what a result of
it or a sum satisfies, is shown by a least counterexample among the subsets of a
finite set (`LeastSubset`; `PollsWithin`, `TotalOfOne`), which needs no
induction scheme. Then:

- `RsaSharesAgree` and `RsaSharesWork` from `Inv`: there is one x and one l such
  that whatever anybody sends, has heard or keeps is of a modulus contribution
  that is x from the dealer and nothing from the others, and of a lambda that is
  l from the dealer (`MsgFits`, `SessFits`, `KeysFit`); both are zero until the
  dealer has found them, and it finds them once, because it begins one session
  (`FirstDraws`). While nobody restarts every cross product is zero
  (`CrossFits`), hence x = PQ and l = (P-1)(Q-1) (`Works`);
- `RsaInStepWithTask` from `Lock`: without failures every party is before or
  past its contribution to the round, a session that enters phase k+1 has made
  of the messages of phase k what `Mind` says, after any subset of them and in
  any order of feeding, and a dealer whose lambda has no inverse stays in phase
  6 and fails at every poll. It assumes `SeveralParties`: `InitNPartyRSADKG`
  refuses less than two (`rsa_nparty.go:190-191`), and the model of a lone
  party would submit an output that no message has caused.

`ThresholdSignProofs`, for every set of parties and every number of failures
and restarts:

- `OneChallengePerNonce` from `NonceInv`: a session that has yet to answer holds
  a draw that no partial has left under, and whatever brings a session back to
  that step draws anew. Nothing is assumed of the values the sessions compute;
- `TypeCorrect`: what leaves a sidecar is a field element, and no sidecar draws
  more nonces than it has restarts and one. It rests on `SignInv` below: only a
  DKLs23 session that knows whose draws it has heard computes a sum of field
  elements;
- `SignaturesAreValid`: every submitted signature verifies and all are one, in
  the cases `SignaturesVerify` covers. It is about any modulus, nonces and
  hash, from five assumptions on the constants, which TLC evaluates on the
  instance of the run. `KeyAssumption`: the protocols are the six, the signers
  are parties of the key, the secret is a field element. `Interpolation`:
  weighted shares are field elements, and those of the signers add up to the
  secret, which is what `computeLagrangeCoeff` is for. `ShoupCombines`: the RSA partials of any two or more
  signers combine to one signature of the message (the dealt polynomial is of
  degree one, so any two determine it). `InTheField`: nonces and challenges are
  field elements. `NoCollisions`: no FROST partial serves two group
  commitments. What is proved from them is that the protocols bring
  the right values together: the shares of one set of signers, partials of one
  commitment, no draw of an abandoned session.

  The sums come first. `SumMod` folds over a set in an order that a `CHOOSE`
  fixes; that the order does not matter and that sums are linear modulo Q
  (`SumLast`, `SumLinear`) is shown by a least counterexample among the subsets
  of the signers, over lemmas on division with remainder. Then two invariants:

  `SignInv`, through failures. A party is `Settled` when it can start no session
  of this task any more. Everything anybody holds of a party, in the mail, in
  a round's list or in a tick's copy of it, `Fits` what that party has done: a
  FROST partial is one of a draw and a group commitment that it has answered, a
  DKLs23 message of the last two steps is of its final draw, an RSA partial is
  its only one. A FROST session holds everybody's nonces and their sum
  (`FrostSession`) and accepts only partials which verify against those, so by
  `NoCollisions` all parties answered that sum; `AnswersLast` and `NonceUsedOnce`
  say that each has answered no other. All parties of DKLs23 that are settled
  draw no more, so all signatures are of one vector of draws.

  `InLockstep`, for Decaf448 and BLS while nothing fails: each party is `Ahead`
  of, `Doing` or `Past` its contribution to the round, and that contribution is
  the one `Expected` of the first draws.

`ReactProviderProofs`, for every set of users and keys and every number of
logins, logouts, reloads and failures, assuming that a user's name is none of
the module's other names (`UsersAssumption`):

- `TypeCorrect`, `OnlyLeakedRunOn` and `FirstContext` from `RunsInv`: what the
  runs of the effect may be in (`RunsOK`) and have loaded (`LoadsOK`), what keys
  and the page refer to (`KeysOK`, `PageOK`), that the context knows the first
  run (`First`), and that a login, a logout or the first synthesized user pays
  for every run (`Paid`), which bounds their number;
- `NoForeignWallets`, an action property, from `LoadsOK`: a list that may be
  shown was asked for with the credentials in use;
- `SavedSession`, from `PageOK`: the session is saved while the page holds its
  user, credentials and jwt, and once a logout has cleared the jwt only a login
  brings one back;
- `SharesReach` from `OwnersOK`: the key of a user who created it while the page
  was steady names the sidecar of that user's own database a participant
  (`SteadyNames`), and a share arrives at participants only.

`ClientsProofs`. Of `EthereumSends`, for any payments, requests, attempts and
failures:

- `TypeCorrect`;
- `AwaitedSends`, an action property, and `NoGaps`, from what is known of a
  nonce that the Node client has read: it was free when it was read, after the
  attempt began, everything below it was in use, and the network only takes
  more nonces;
- `PayOnce`: an attempt is accepted at most once, and another one begins only
  after it threw; an accepted attempt that threw has lost its answer.

Of `TaskRouting`, for any number of rounds:

- `TasksArrive` and `SharesFound` from `RoutingInv`: the session that has taken a
  key's first task is the one its key type asks for, the names it is asked by
  stay those of the key, and the share is where that session writes.

Of `Wallets`, for any number of keys, by entry point and form of the public key:

- `WalletsAreOne` and `WalletsAreFound` from `WalletInv`: every party that tells
  of a key tells `Truth`. They assume `PlainWallets`, which leaves out the entry
  points and the one form of a key that section 5 lists as findings; the
  configuration of the run satisfies it.

Only model-checked are the liveness properties, which are out of the prover's
reach, and `RsaSharesAreFound`, which is violated.

## 5. Findings

One divergence is kept as a run, `routing_rsa2pc`: the vanilla client, the React
client and the worker store the share of a 2-of-2 RSA key under
`rsa2pc-keyshare/` and look for it under `rsa-keyshare/`, although
`sessions/rsa2pc.ts:8-9` sends its uses to `RSASession` (`RsaSharesAreFound`).
The Node client has no session for it. `PROJECT.json` quotes the lines.

TLC refutes more properties, each on a small instance of the same module.
They are not kept as runs; those named here that a run lists are refuted on
the other instance only.

| Property | Instance | What happens |
|---|---|---|
| `DoneImpliesStored` (`FeldmanDkg`) | 1 fault, storage may fail | `completedKeyShares` is set before the awaited write (`decaf448.ts:531-540`, `bls.ts:473-482`); after a rejected write the next poll reports completion of a share that is in memory only |
| `SharesMatchKey` (`FeldmanDkg`) | 1 restart in round 0 | shares are never verified against commitments ("Feldman VSS", `decaf448.ts:3`), so a share of one polynomial is combined with the commitment of another |
| `ResubmitsCommitments` (`FeldmanDkg`) | 1 lost `UpdateTask` of round 0 | "just resubmit cached contribution shape" (`decaf448.ts:406`) sends no commitments, and the peers throw on every later poll |
| `EveryTaskDispatched` (`PeerHandshake`) | `FaultKinds = {"ack"}`, 1 fault | the ack's `SendPartyMessage` rejects after the hello was consumed (`peer-channel.ts:275-289`); no number of polls completes the handshake, against 171-172 |
| `EveryTaskDispatched` (`PeerHandshake`) | 2 tasks, no faults | the receiver keeps the ratchet of the first task (`peer-channel.ts:267-269`) against "fresh handshake each time" (72) |
| `EveryTaskDispatched` (`PeerHandshake`) | 2 sidecars, 1 restart, no faults | the restarted sidecar has lost its ratchets and marks (`peer-channel.ts:60-70`), its peer holds the pair for ready and answers no more |
| `DispatchedInOneLife` (`PeerHandshake`) | 1 restart | a hello or ack that a peer left on the server before it restarted makes the pair ready (`peer-channel.ts:234-248`): the task is dispatched with a peer whose present life knows nothing of it |
| `StopStops` (`SidecarLifecycle`) | a stop during a start | `Sidecar.stop` returns unless `started` is set, which `start` does last (`index.ts:116,120`): the loop starts after the stop |
| `StartedPollsAnyway` (`SidecarLifecycle`) | 1 stop | a stop between the end of `sidecar.start()` and the `.then` of the guard (`vanilla/src/qkms.ts:377-380`, `node/src/client.ts:169-171`): the client says it has started, and there is no loop, against "Start the in-process sidecar so DKG and signing tasks are processed" (`client.ts:162-163`) |
| `EventuallyStarted` (`SidecarLifecycle`) | `ClearsOnFailure = FALSE`, 1 fault | the Node client keeps a rejected start promise for ever (`node/src/client.ts:169`) |
| `OneIdentity` (`SidecarLifecycle`) | 2 applications, 1 storage | two tabs that start for the first time create an identity each ("Generated once on first run", `storage/adapter.ts:6`) |
| `ProcessedOnce` (`SidecarLifecycle`) | 2 starts, 1 stop, no faults | stop and start while a tick is suspended: the round enters `submittedRounds` only after it was processed, and two ticks process it |
| `NeverCorrupted` (`SessionDkg`) | FROST, 1 lost answer | round 0 draws again (`frost.ts:167`) while peers hold the first commitment: the stored shares belong to different keys, although `dispatch.ts:8-11` says that a repeated round would not corrupt the state |
| `RepollIsHarmless` (`ThresholdSign`) | BLS12-381, 1 failed call | the own partial is dropped before the call that may fail (`bls.ts:796`), and the next poll aggregates without it |
| `SignedUnderAnyNumbers` (`ThresholdSign`) | DKLs23, signers 1 and 3 numbered 1 and 2, no faults | messages are addressed by the numbers of the key (`dkls23.ts:403-412`) and kept by those of the task (397, 598): the signing stalls |
| `SecondStartIsFine` (`WorkerBridge`) | 2 starts, 1 fault | the second of two overlapping starts is answered (`sidecar-worker.ts:128`), the first then fails, and the proxy believes it has started |
| `WalletsStay` (`ReactProvider`) | 2 keys | the list of the init effect arrives late and overwrites a wallet registered meanwhile (`provider.tsx:390`), against `useCreateWallet.ts:10` |
| `SharesPersist` (`ReactProvider`) | login over configured credentials, another user's login, or login, logout, login of another | the first sidecar was still starting when it was stopped (`provider.tsx:402`) and runs on, or the context still names it: it takes the share of the next user's key, against "so key shares persist" (`provider.tsx:215-216`) |
| `ParticipantsNameThisSidecar` (`ReactProvider`) | configured credentials, no faults | the first effect synthesizes a user, which makes the second effect build another sidecar, and the memoised context goes on naming the first (`provider.tsx:407-438`), against "ensure this browser's sidecar is included" (42-46) |
| `FetchedPricesStand` (`EthereumSends`) | Node client, `FeeFields = {{"maxPriorityFeePerGas"}}` | for a tip without a cap a `gasPrice` is fetched (`node/src/resources/wallets.ts:338-346`), "sensible defaults" by 251, which the EIP-1559 transaction built for the tip drops (`evm-provider.ts:201`): what is signed has no fee cap |
| `BothFormsTolerated` (`EthereumSends`) | provider, messages | a 65-byte signature that begins with 0x30 is parsed as DER and refused (`evm-provider.ts:344`), against 334-335 |
| `OneChainPerWallet` (`Wallets`) | the hooks of Cosmos, Sui, Stellar | their keys carry no `chain_type` tag, and every list takes them for wallets of another chain (`provider.tsx:346-351`, `node/src/resources/wallets.ts:154`), against `core/src/types.ts:60` |
| `SchemesAsConfigured` (`Wallets`) | the same hooks | their requests carry neither `participants` nor `threshold` (`useCreateCosmosWallet.ts:46`), against `README.md:101` |
| `UnprefixedKeysAccepted` (`Wallets`) | 64-byte public keys | one that begins with 0x30 is taken for a DER envelope and refused (`address.ts:90`), against 81-83 |
| `EvmWalletsAreSecp256k1` (`Wallets`) | entry `"rpc"` | the provider lists a P-256 key as an Ethereum wallet (`provider.tsx:346-348`), against `address.ts:79` |

Two observations on `RsaKeyGen` have no property of their own. After a lost
`UpdateTask` nothing repeats the output of that phase: the key generation
stalls, or a party panics in a phase it reached without the data of the one
before. If the dealer restarts in round 0, its peers' messages are for its
first Paillier key, and a decryption that happens to succeed adds a number to N
that is not a cross product; `StoredKeysWork` therefore presumes that nobody
restarts.

## 6. Plan

Done: the core, the sessions, the arithmetic, the worker bridge, the React
provider, the routing of tasks, Ethereum sends and the wallets, and a theorem
for every safety property that a passing run checks. What is left is the
two-party RSA session (`rsa2pc.ts`) on `TaskRounds`.

## 7. Not modelled

Liveness and `ENABLED` are out of the prover's reach and stay with TLC. The
curve, Paillier and AES code is third-party and represented by what the
sessions rely on. Not modelled at all:

- `rsa2pc.ts`, and RSA decrypt, which takes the path of sign;
- the storage adapters (`put` is atomic or rejects in the models), the request
  signing, the digests behind the addresses and the Solana provider: no state,
  or none that two steps share;
- code without a caller: `collectMessages`, `performHandshake`, `forgetTask`,
  `claimedTasks`, the worker's `stop` handler;
- the examples, and the per-chain hooks for signing.

The server is modelled from how the client uses it, and the rounds it opens are
bounded; whether it validates, deduplicates or expires contributions is left
open in both directions.
