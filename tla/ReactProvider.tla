--------------------------- MODULE ReactProvider ---------------------------
(***************************************************************************)
(* The QkmsProvider of the React package, with login, logout and           *)
(* createWallet, which use the context it provides.                        *)
(*                                                                         *)
(* An effect builds a sidecar whenever the credentials or the user's id    *)
(* change, in a database named after the user.  Its init function goes on  *)
(* asynchronously and may find, when it resumes, that a later effect has   *)
(* cancelled it.  The context is memoised: it is computed again when       *)
(* ready, user, wallets, the credentials or the jwt change, with the       *)
(* sidecarId and the sidecarRef of that moment, and not when these two     *)
(* change.                                                                 *)
(*                                                                         *)
(* State updates made in one go are one Commit: render, memo, effects.  A  *)
(* sidecar's identity lives in its database and bears its name.  Users     *)
(* synthesized from an identity are named after it.  The polling, the DKG  *)
(* and the server are external: a key gets its share from a running        *)
(* sidecar among its participants.                                         *)
(***************************************************************************)
EXTENDS Naturals, Sequences, FiniteSets

CONSTANTS
  Users,       \* those who can log in
  MaxKeys,     \* bound: createWallet calls
  MaxLogins,   \* bound: logins
  MaxLogouts,  \* bound: logouts
  MaxReloads,  \* bound: page reloads
  MaxFaults,   \* bound: sidecars that fail to start, lists that fail
  MaxEvents    \* bound: logins, logouts, reloads and faults together

ASSUME UsersAssumption ==
  Users \cap {"", "nobody", "did:app", "did:unknown", "none", "developer"} = {}
ASSUME BoundsAssumption ==
  {MaxKeys, MaxLogins, MaxLogouts, MaxReloads, MaxFaults, MaxEvents} \subseteq Nat

VARIABLES
  manual,  \* config.credentials is given
  page,    \* the provider's React state
  ctx,     \* the memoised context value: the state it shows, and a sidecar
  inits,   \* the effect runs of this page; sidecarRef is that of the last
  saved,   \* localStorage: whose session
  key,     \* server: the keys; and what became of the createWallet call
  budget

vars == <<manual, page, ctx, inits, saved, key, budget>>

NoUser == "nobody"
Unknown == "unknown"        \* the id of a sidecar that cannot say its own
NoId == ""
NoShare == "none"
NoCreds == "none"
AppDb == "app"
DevCreds == "developer"
Keys == 1 .. MaxKeys

(* The user that init synthesizes from a sidecar id, and the database      *)
(* that a user's effect opens: `qkms-sdk-<app>-<user>' or `qkms-sdk-<app>'.*)
Synthesized(id) == IF id = Unknown THEN "did:unknown" ELSE "did:app"
\* mutant: one database for the application
DbShared(user) == AppDb
Db(user) == IF user = NoUser THEN AppDb ELSE user

UserIds == Users \cup {NoUser, "did:app", "did:unknown"}
Dbs == (UserIds \ {NoUser}) \cup {AppDb}
Ids == Dbs \cup {Unknown, NoId}

NewInit(user, creds) ==
  [pc |-> "starting", cancelled |-> "no", user |-> user, creds |-> creds,
   sidecar |-> "building", loaded |-> {}]
FreeKey == [pc |-> "free", owner |-> NoUser, creds |-> NoCreds, party |-> NoId,
            steady |-> FALSE, share |-> NoShare]

(* A page as it mounts: the session of localStorage, if there is one.      *)
FreshPage(m, session) ==
  [ready |-> FALSE, user |-> session, jwt |-> IF session # NoUser THEN "held" ELSE "none",
   sidecarId |-> NoId, wallets |-> {},
   creds |-> IF session # NoUser THEN session ELSE IF m THEN DevCreds ELSE NoCreds]
FirstEffect(p) == IF p.creds = NoCreds THEN <<>> ELSE <<NewInit(p.user, p.creds)>>

Init ==
  /\ manual \in BOOLEAN
  /\ page = FreshPage(manual, NoUser)
  /\ ctx = [page |-> page, sidecar |-> 0]
  /\ inits = FirstEffect(page)
  /\ saved = NoUser
  /\ key = [k \in Keys |-> FreeKey]
  /\ budget = [logins |-> MaxLogins, logouts |-> MaxLogouts, reloads |-> MaxReloads,
               faults |-> MaxFaults]

Events ==
  (MaxLogins - budget.logins) + (MaxLogouts - budget.logouts)
    + (MaxReloads - budget.reloads) + (MaxFaults - budget.faults)
Spend(kind) ==
  /\ budget[kind] > 0 /\ Events < MaxEvents
  /\ budget' = [budget EXCEPT ![kind] = @ - 1]

-------------------------------------------------------------------------------
(* Both backends' stop: nothing unless the sidecar has started.            *)
Stopped(init) == [init EXCEPT !.sidecar = IF @ = "running" THEN "stopped" ELSE @]
\* mutant: the effect cancels its init and leaves its sidecar
CancelledOnly(init) ==
  [init EXCEPT !.cancelled = IF init.sidecar = "building" THEN "starting" ELSE "started"]
(* The effect's clean-up.                                                  *)
CleanedUp(init) ==
  [Stopped(init) EXCEPT
     !.cancelled = IF init.sidecar = "building" THEN "starting" ELSE "started"]

\* mutant: `ready' is left out
MemoDepsShort(p) == <<p.user, p.wallets, p.creds, p.jwt>>
MemoDeps(p) == <<p.ready, p.user, p.wallets, p.creds, p.jwt>>
EffectDeps(p) == <<p.creds, p.user>>

(* The state becomes p: the memo, then the two effects.  runs are the      *)
(* effect runs so far, with what the caller did to them; renewed says what *)
(* is another value though it reads the same here: the user or the wallets *)
(* (an object, for the memo), the access key (a string, for the effect).   *)
Commit(p, runs, session, renewed) ==
  LET rerun == EffectDeps(p) # EffectDeps(page) \/ "access key" \in renewed
      last == Len(runs)
      cleaned == IF rerun /\ last > 0 THEN [runs EXCEPT ![last] = CleanedUp(@)] ELSE runs
  IN /\ page' = p
     /\ ctx' = IF MemoDeps(p) = MemoDeps(ctx.page) /\ renewed = {} THEN ctx
               ELSE [page |-> p, sidecar |-> last]
     /\ inits' = IF rerun /\ p.creds # NoCreds THEN Append(cleaned, NewInit(p.user, p.creds))
                 ELSE cleaned
     /\ saved' = IF p.creds \in Users /\ p.user # NoUser /\ p.jwt = "held" THEN p.user ELSE session

(* init resumes after sidecar.start and getSidecarId.                      *)
Resumed(i, state, id) ==
  LET runs == [inits EXCEPT ![i].sidecar = state,
                            ![i].pc = IF inits[i].cancelled = "no" THEN "listing" ELSE "over"]
      named == [page EXCEPT !.sidecarId = id]
  IN Commit(IF inits[i].cancelled # "no" THEN named
            ELSE [named EXCEPT !.user = IF @ = NoUser THEN Synthesized(id) ELSE @,
                               !.ready = TRUE],
            runs, saved, {})

SidecarStarted(i) ==
  /\ inits[i].pc = "starting"
  /\ Resumed(i, "running", Db(inits[i].user))
  /\ UNCHANGED <<manual, key, budget>>

(* The failure is logged.  A worker without a sidecar does not know its    *)
(* id; a Sidecar of this thread may.                                       *)
StartFails(i) ==
  /\ inits[i].pc = "starting"
  /\ \E id \in {Unknown, Db(inits[i].user)} : Resumed(i, "failed", id)
  /\ Spend("faults")
  /\ UNCHANGED <<manual, key>>

(* ListKeys, and GetPublicKey of each: the finished keys of the account.   *)
KeysListed(i) ==
  /\ inits[i].pc = "listing"
  /\ inits' = [inits EXCEPT ![i].pc = "listed",
       ![i].loaded = {k \in Keys : key[k].share # NoShare /\ key[k].creds = inits[i].creds}]
  /\ UNCHANGED <<manual, page, ctx, saved, key, budget>>

ListFails(i) ==
  /\ inits[i].pc = "listing"
  /\ inits' = [inits EXCEPT ![i].pc = "over"]
  /\ Spend("faults")
  /\ UNCHANGED <<manual, page, ctx, saved, key>>

\* mutant: a cancelled init sets the wallets too
SetsWalletsAnyway(i) == inits[i].loaded # {}
SetsWallets(i) == inits[i].loaded # {} /\ inits[i].cancelled = "no"
Loaded(i) ==
  /\ inits[i].pc = "listed"
  /\ Commit(IF SetsWallets(i) THEN [page EXCEPT !.wallets = inits[i].loaded] ELSE page,
            [inits EXCEPT ![i].pc = "over", ![i].loaded = {}], saved,
            IF SetsWallets(i) THEN {"wallets"} ELSE {})
  /\ UNCHANGED <<manual, key, budget>>

-------------------------------------------------------------------------------
(* The answer of the auth bridge: credentials, jwt and user at once, over  *)
(* whatever the page has: no session, credentials of the application's     *)
(* own, another user's session or the same user's, with the access key the *)
(* page has or another one.                                                *)
Login(u) ==
  /\ Spend("logins")
  /\ \E newKey \in {{}, {"access key"}} :
       Commit([page EXCEPT !.creds = u, !.jwt = "held", !.user = u], inits, saved,
              {"user"} \cup newKey)
  /\ UNCHANGED <<manual, key>>

(* The context's sidecar is stopped; the credentials stay.                 *)
LoggedOut(jwt) ==
  /\ Spend("logouts")
  /\ Commit([page EXCEPT !.jwt = jwt, !.user = NoUser],
            IF ctx.sidecar = 0 THEN inits ELSE [inits EXCEPT ![ctx.sidecar] = Stopped(@)],
            NoUser, {})
  /\ UNCHANGED <<manual, key>>
\* mutant: the jwt stays in the page's state
LogoutKeepsJwt == LoggedOut(page.jwt)
Logout == LoggedOut("cleared")

Reload ==
  /\ Spend("reloads")
  /\ page' = FreshPage(manual, saved)
  /\ ctx' = [page |-> page', sidecar |-> 0]
  /\ inits' = FirstEffect(page')
  /\ key' = [k \in Keys |-> [key[k] EXCEPT !.pc = IF @ = "waiting" THEN "gone" ELSE @]]
  /\ UNCHANGED <<manual, saved>>

(* The sidecar of the last effect has started, and its init has resumed.   *)
Settled == inits # <<>> /\ inits[Len(inits)].pc # "starting"
                        /\ inits[Len(inits)].sidecar = "running"
ContextIsCurrent ==
  /\ ctx.sidecar = Len(inits)
  /\ ctx.page.sidecarId = Db(inits[Len(inits)].user)
(* The moments at which createWallet can be held to the right sidecar: the *)
(* effect has run once, or the context has been computed again since.      *)
Steady == Settled /\ (Len(inits) = 1 \/ ContextIsCurrent)

(* createWallet, up to CreateKey: the participants are the service and the *)
(* sidecar that the context names.  steady is history.                     *)
CreateWallet(k) ==
  /\ key[k].pc = "free" /\ \A j \in 1 .. k - 1 : key[j].pc # "free"
  /\ ctx.page.creds # NoCreds /\ ctx.sidecar # 0
  /\ key' = [key EXCEPT ![k] = [FreeKey EXCEPT
       !.pc = "waiting", !.owner = ctx.page.user, !.creds = ctx.page.creds,
       !.party = ctx.page.sidecarId, !.steady = Steady]]
  /\ UNCHANGED <<manual, page, ctx, inits, saved, budget>>

(* The DKG ends: the sidecar stores its share in its own database.  With   *)
(* no participants named the server chooses.                               *)
KeyShareReady(k) ==
  /\ key[k].pc # "free" /\ key[k].share = NoShare
  /\ \E i \in DOMAIN inits :
       /\ inits[i].sidecar = "running"
       /\ key[k].party \in {NoId, Db(inits[i].user)}
       /\ key' = [key EXCEPT ![k].share = Db(inits[i].user)]
  /\ UNCHANGED <<manual, page, ctx, inits, saved, budget>>

(* waitForPublicKey finds the key, which registerWallet adds, or gives up. *)
WithWallet(k) == [page EXCEPT !.wallets = @ \cup {k}]
RegisterWallet(k) ==
  /\ key[k].pc = "waiting" /\ key[k].share # NoShare
  /\ key' = [key EXCEPT ![k].pc = "registered"]
  /\ Commit(WithWallet(k), inits, saved, {})
  /\ UNCHANGED <<manual, budget>>

TimedOut(k) ==
  /\ key[k].pc = "waiting"
  /\ key' = [key EXCEPT ![k].pc = "timed out"]
  /\ UNCHANGED <<manual, page, ctx, inits, saved, budget>>

-------------------------------------------------------------------------------
Next ==
  \/ \E i \in DOMAIN inits :
       SidecarStarted(i) \/ StartFails(i) \/ KeysListed(i) \/ ListFails(i) \/ Loaded(i)
  \/ \E u \in Users : Login(u)
  \/ Logout
  \/ Reload
  \/ \E k \in Keys :
       CreateWallet(k) \/ KeyShareReady(k) \/ RegisterWallet(k) \/ TimedOut(k)

Spec == Init /\ [][Next]_vars

-------------------------------------------------------------------------------
MaxInits == 2 * (1 + MaxLogouts) + MaxLogins
Pages == [ready : BOOLEAN, user : UserIds, jwt : {"none", "held", "cleared"},
          sidecarId : Ids, wallets : SUBSET Keys, creds : Users \cup {NoCreds, DevCreds}]
Inits == [pc : {"starting", "listing", "listed", "over"},
          cancelled : {"no", "starting", "started"}, user : UserIds,
          creds : Users \cup {DevCreds},
          sidecar : {"building", "running", "stopped", "failed"}, loaded : SUBSET Keys]
KeyRecords == [pc : {"free", "waiting", "registered", "timed out", "gone"},
               owner : UserIds, creds : Users \cup {NoCreds, DevCreds}, party : Ids,
               steady : BOOLEAN, share : Dbs \cup {NoShare}]

TypeOK ==
  /\ manual \in BOOLEAN
  /\ page \in Pages
  /\ ctx.page \in Pages
  /\ ctx.sidecar \in 0 .. Len(inits)
  /\ Len(inits) <= MaxInits
  /\ inits \in Seq(Inits)
  /\ saved \in Users \cup {NoUser}
  /\ key \in [Keys -> KeyRecords]

(* Of all the sidecars a page has built, only the last one runs, and those *)
(* whose start was under way when their effect was cleaned up, which stop  *)
(* does not reach (provider.tsx:400-403).                                  *)
OnlyLeakedSidecarsRunOn ==
  \A i \in DOMAIN inits :
    inits[i].sidecar = "running" /\ i < Len(inits) => inits[i].cancelled = "starting"

(* provider.tsx:215, "DB name must be stable across logins for the same    *)
(* user so key shares persist": a key that a user created while the page's *)
(* sidecar ran (Steady) gets its share in the database that this user's    *)
(* pages open, whoever logs in or out before the DKG ends, with whatever   *)
(* access key, however often the page is loaded and whichever other        *)
(* sidecars still run.                                                     *)
SharesReachOwner ==
  \A k \in Keys : key[k].owner \in Users /\ key[k].steady /\ key[k].share # NoShare =>
                    key[k].share = key[k].owner

(* usePrivy.ts:156-164: a session that a reload would restore is the one   *)
(* the page is in.  After a logout nothing that is still going on, no      *)
(* sidecar that starts, user that is synthesized or list that arrives,     *)
(* saves one again.                                                        *)
SavedSessionIsCurrent ==
  saved # NoUser => page.user = saved /\ page.creds = saved /\ page.jwt = "held"

(* The context of a page whose effect ran once, as it does after a first   *)
(* login or with a saved session, names the sidecar that runs.             *)
FirstContextIsCurrent == Settled /\ Len(inits) = 1 => ContextIsCurrent

(* A list that arrives after another user logged in is not shown: a wallet *)
(* that nobody waits for appears only among those of the account in use.   *)
NoForeignWalletsLoaded ==
  [][\A k \in Keys : k \in page'.wallets \ page.wallets =>
       key[k].pc = "waiting" \/ key[k].creds = page'.creds]_vars

(* provider.tsx:42-46, "ensure this browser's sidecar is included.         *)
(* Otherwise default to ['service', thisSidecarId]": the sidecar that the  *)
(* context names a participant is the one that runs.                       *)
ParticipantsNameThisSidecar == Settled => ContextIsCurrent

(* useCreateWallet.ts:10, "The wallet is registered in the React context   *)
(* so useWallets sees it": a listed wallet stays while the page does.      *)
WalletsStay ==
  [][page.wallets \subseteq page'.wallets \/ page'.wallets = {}]_vars

(* provider.tsx:215 without a condition: the share of a user's key is in   *)
(* the user's database.                                                    *)
SharesPersist ==
  \A k \in Keys : key[k].owner \in Users /\ key[k].share # NoShare =>
                    key[k].share = key[k].owner

===============================================================================
