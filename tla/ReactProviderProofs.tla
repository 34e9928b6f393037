------------------------- MODULE ReactProviderProofs -------------------------
(***************************************************************************)
(* Proofs about the React provider: type correctness with the bound on the *)
(* effect runs of a page, which superseded sidecars may run on, the session *)
(* that a reload restores, the context of a first effect run, shares in    *)
(* the database of their owner, and wallet lists that arrive late, for any *)
(* users and any number of keys, logins, logouts, reloads and failures.    *)
(***************************************************************************)
EXTENDS ReactProvider, Integers, TLAPS

-------------------------------------------------------------------------------
(* An effect run, and the ways in which it changes.                        *)
LEMMA NewInitFields ==
  ASSUME NEW u \in UserIds, NEW c \in Users \cup {DevCreds}
  PROVE  /\ NewInit(u, c) \in Inits
         /\ NewInit(u, c).pc = "starting" /\ NewInit(u, c).cancelled = "no"
         /\ NewInit(u, c).user = u /\ NewInit(u, c).creds = c
         /\ NewInit(u, c).sidecar = "building" /\ NewInit(u, c).loaded = {}
BY DEF NewInit, Inits

LEMMA StoppedFields ==
  ASSUME NEW x \in Inits
  PROVE  /\ Stopped(x) \in Inits
         /\ Stopped(x).pc = x.pc /\ Stopped(x).cancelled = x.cancelled
         /\ Stopped(x).user = x.user /\ Stopped(x).creds = x.creds /\ Stopped(x).loaded = x.loaded
         /\ Stopped(x).sidecar = IF x.sidecar = "running" THEN "stopped" ELSE x.sidecar
BY DEF Stopped, Inits

LEMMA CleanedUpFields ==
  ASSUME NEW x \in Inits
  PROVE  /\ CleanedUp(x) \in Inits
         /\ CleanedUp(x).pc = x.pc /\ CleanedUp(x).user = x.user
         /\ CleanedUp(x).creds = x.creds /\ CleanedUp(x).loaded = x.loaded
         /\ CleanedUp(x).cancelled = IF x.sidecar = "building" THEN "starting" ELSE "started"
         /\ CleanedUp(x).sidecar = IF x.sidecar = "running" THEN "stopped" ELSE x.sidecar
<1>1. Stopped(x) \in Inits
  BY StoppedFields
<1>2. QED
  BY <1>1, StoppedFields DEF CleanedUp, Inits

LEMMA ListedFields ==
  ASSUME NEW x \in Inits, NEW c \in {"listed", "over"}, NEW ks \in SUBSET Keys
  PROVE  LET y == [x EXCEPT !.pc = c, !.loaded = ks]
         IN  /\ y \in Inits /\ y.pc = c /\ y.loaded = ks /\ y.cancelled = x.cancelled
             /\ y.user = x.user /\ y.creds = x.creds /\ y.sidecar = x.sidecar
BY DEF Inits

LEMMA RunUpdated ==
  ASSUME NEW runs \in Seq(Inits), NEW i \in DOMAIN runs, NEW y \in Inits
  PROVE  LET new == [runs EXCEPT ![i] = y]
         IN  /\ new \in Seq(Inits) /\ Len(new) = Len(runs) /\ new[i] = y
             /\ \A j \in 1 .. Len(runs) : j # i => new[j] = runs[j]
OBVIOUS

LEMMA RunAppended ==
  ASSUME NEW runs \in Seq(Inits), NEW y \in Inits
  PROVE  LET new == Append(runs, y)
         IN  /\ new \in Seq(Inits) /\ Len(new) = Len(runs) + 1 /\ new[Len(runs) + 1] = y
             /\ \A j \in 1 .. Len(runs) : new[j] = runs[j]
OBVIOUS

(* What a commit does to the runs.                                         *)
Reruns(p, renewed) ==
  p.creds # page.creds \/ p.user # page.user \/ "access key" \in renewed
Cleaned(runs) ==
  IF Len(runs) > 0 THEN [runs EXCEPT ![Len(runs)] = CleanedUp(runs[Len(runs)])] ELSE runs

LEMMA CleanedRuns ==
  ASSUME NEW runs \in Seq(Inits)
  PROVE  /\ Cleaned(runs) \in Seq(Inits) /\ Len(Cleaned(runs)) = Len(runs)
         /\ \A j \in 1 .. Len(runs) :
              Cleaned(runs)[j] = IF j = Len(runs) THEN CleanedUp(runs[j]) ELSE runs[j]
<1>1. CASE Len(runs) > 0
  <2>1. Len(runs) \in DOMAIN runs /\ CleanedUp(runs[Len(runs)]) \in Inits
    BY <1>1, CleanedUpFields
  <2>2. QED
    BY <1>1, <2>1, RunUpdated DEF Cleaned
<1>2. CASE ~(Len(runs) > 0)
  BY <1>2 DEF Cleaned
<1>3. QED
  BY <1>1, <1>2

LEMMA CommitRuns ==
  ASSUME NEW p \in Pages, NEW runs \in Seq(Inits), NEW session, NEW renewed,
         Commit(p, runs, session, renewed)
  PROVE  /\ page' = p
         /\ inits' \in Seq(Inits)
         /\ ~Reruns(p, renewed) => inits' = runs
         /\ Reruns(p, renewed) => \A j \in 1 .. Len(runs) :
              inits'[j] = IF j = Len(runs) THEN CleanedUp(runs[j]) ELSE runs[j]
         /\ Reruns(p, renewed) /\ p.creds = NoCreds => Len(inits') = Len(runs)
         /\ Reruns(p, renewed) /\ p.creds # NoCreds =>
              /\ Len(inits') = Len(runs) + 1
              /\ inits'[Len(runs) + 1] = NewInit(p.user, p.creds)
         /\ ctx' = ctx \/ ctx' = [page |-> p, sidecar |-> Len(runs)]
         /\ MemoDeps(p) # MemoDeps(ctx.page) \/ renewed # {} =>
              ctx' = [page |-> p, sidecar |-> Len(runs)]
         /\ saved' = IF p.creds \in Users /\ p.user # NoUser /\ p.jwt = "held" THEN p.user ELSE session
<1>1. /\ page' = p
      /\ ctx' = IF MemoDeps(p) = MemoDeps(ctx.page) /\ renewed = {} THEN ctx
                ELSE [page |-> p, sidecar |-> Len(runs)]
      /\ LET rerun == EffectDeps(p) # EffectDeps(page) \/ "access key" \in renewed
             cleaned == IF rerun /\ Len(runs) > 0
                        THEN [runs EXCEPT ![Len(runs)] = CleanedUp(@)] ELSE runs
         IN  inits' = IF rerun /\ p.creds # NoCreds
                      THEN Append(cleaned, NewInit(p.user, p.creds)) ELSE cleaned
      /\ saved' = IF p.creds \in Users /\ p.user # NoUser /\ p.jwt = "held" THEN p.user ELSE session
  BY DEF Commit
<1>2. EffectDeps(p) # EffectDeps(page) \/ "access key" \in renewed <=> Reruns(p, renewed)
  BY DEF EffectDeps, Reruns
<1>3. inits' = IF Reruns(p, renewed) /\ p.creds # NoCreds
               THEN Append(Cleaned(runs), NewInit(p.user, p.creds))
               ELSE IF Reruns(p, renewed) THEN Cleaned(runs) ELSE runs
  BY <1>1, <1>2 DEF Cleaned
<1>4. Cleaned(runs) \in Seq(Inits) /\ Len(Cleaned(runs)) = Len(runs)
  BY CleanedRuns
<1>5. p.creds # NoCreds => NewInit(p.user, p.creds) \in Inits
  BY NewInitFields DEF Pages
<1>6. CASE ~Reruns(p, renewed)
  BY <1>1, <1>3, <1>6
<1>7. CASE Reruns(p, renewed) /\ p.creds = NoCreds
  BY <1>1, <1>3, <1>7, CleanedRuns
<1>8. CASE Reruns(p, renewed) /\ p.creds # NoCreds
  <2>1. inits' = Append(Cleaned(runs), NewInit(p.user, p.creds))
    BY <1>3, <1>8
  <2>2. /\ inits' \in Seq(Inits) /\ Len(inits') = Len(runs) + 1
        /\ inits'[Len(runs) + 1] = NewInit(p.user, p.creds)
        /\ \A j \in 1 .. Len(runs) : inits'[j] = Cleaned(runs)[j]
    BY <1>4, <1>5, <1>8, <2>1, RunAppended
  <2>3. QED
    BY <1>1, <1>8, <2>2, CleanedRuns
<1>9. QED
  BY <1>6, <1>7, <1>8

-------------------------------------------------------------------------------
(* The pages.                                                              *)
LEMMA NamedFields ==
  ASSUME NEW x \in Pages, NEW id \in Ids
  PROVE  LET y == [x EXCEPT !.sidecarId = id]
         IN  /\ y \in Pages /\ y.sidecarId = id /\ y.user = x.user /\ y.creds = x.creds
             /\ y.jwt = x.jwt /\ y.ready = x.ready /\ y.wallets = x.wallets
BY DEF Pages

LEMMA ReadyFields ==
  ASSUME NEW x \in Pages, NEW u \in UserIds
  PROVE  LET y == [x EXCEPT !.user = u, !.ready = TRUE]
         IN  /\ y \in Pages /\ y.sidecarId = x.sidecarId /\ y.user = u /\ y.creds = x.creds
             /\ y.jwt = x.jwt /\ y.ready = TRUE /\ y.wallets = x.wallets
BY DEF Pages

LEMMA LoginFields ==
  ASSUME NEW x \in Pages, NEW u \in Users
  PROVE  LET y == [x EXCEPT !.creds = u, !.jwt = "held", !.user = u]
         IN  /\ y \in Pages /\ y.sidecarId = x.sidecarId /\ y.user = u /\ y.creds = u
             /\ y.jwt = "held" /\ y.ready = x.ready /\ y.wallets = x.wallets
BY DEF Pages, UserIds

LEMMA LogoutFields ==
  ASSUME NEW x \in Pages
  PROVE  LET y == [x EXCEPT !.jwt = "cleared", !.user = NoUser]
         IN  /\ y \in Pages /\ y.sidecarId = x.sidecarId /\ y.user = NoUser /\ y.creds = x.creds
             /\ y.jwt = "cleared" /\ y.ready = x.ready /\ y.wallets = x.wallets
BY DEF Pages, UserIds

LEMMA WalletFields ==
  ASSUME NEW x \in Pages, NEW ks \in SUBSET Keys
  PROVE  LET y == [x EXCEPT !.wallets = ks]
         IN  /\ y \in Pages /\ y.sidecarId = x.sidecarId /\ y.user = x.user /\ y.creds = x.creds
             /\ y.jwt = x.jwt /\ y.ready = x.ready /\ y.wallets = ks
BY DEF Pages

-------------------------------------------------------------------------------
(* What the actions that commit make of the page and of the runs.          *)
LEMMA LoginIs ==
  ASSUME TypeOK, NEW u \in Users, Login(u)
  PROVE  \E p \in Pages, newKey \in SUBSET {"access key"} :
           /\ Commit(p, inits, saved, {"user"} \cup newKey)
           /\ p.user = u /\ p.creds = u /\ p.jwt = "held"
           /\ p.ready = page.ready /\ p.sidecarId = page.sidecarId /\ p.wallets = page.wallets
<1> DEFINE p == [page EXCEPT !.creds = u, !.jwt = "held", !.user = u]
<1>1. PICK newKey \in SUBSET {"access key"} : Commit(p, inits, saved, {"user"} \cup newKey)
  BY DEF Login
<1>2. /\ p \in Pages /\ p.sidecarId = page.sidecarId /\ p.user = u /\ p.creds = u
      /\ p.jwt = "held" /\ p.ready = page.ready /\ p.wallets = page.wallets
  BY LoginFields DEF TypeOK
<1> HIDE DEF p
<1>3. QED
  BY <1>1, <1>2

LEMMA LogoutIs ==
  ASSUME TypeOK, Logout
  PROVE  \E p \in Pages, runs \in Seq(Inits) :
           /\ Commit(p, runs, NoUser, {})
           /\ p.user = NoUser /\ p.creds = page.creds /\ p.jwt = "cleared"
           /\ p.ready = page.ready /\ p.sidecarId = page.sidecarId /\ p.wallets = page.wallets
           /\ Len(runs) = Len(inits)
           /\ \A j \in 1 .. Len(inits) : runs[j] \in {inits[j], Stopped(inits[j])}
<1> DEFINE p == [page EXCEPT !.jwt = "cleared", !.user = NoUser]
           n == ctx.sidecar
           runs == IF n = 0 THEN inits ELSE [inits EXCEPT ![n] = Stopped(inits[n])]
<1>1. Commit(p, runs, NoUser, {})
  BY DEF Logout, LoggedOut
<1>2. /\ p \in Pages /\ p.sidecarId = page.sidecarId /\ p.user = NoUser
      /\ p.creds = page.creds /\ p.jwt = "cleared" /\ p.ready = page.ready
      /\ p.wallets = page.wallets
  BY LogoutFields DEF TypeOK
<1>3. /\ runs \in Seq(Inits) /\ Len(runs) = Len(inits)
      /\ \A j \in 1 .. Len(inits) : runs[j] \in {inits[j], Stopped(inits[j])}
  <2>1. CASE n = 0
    BY <2>1 DEF TypeOK
  <2>2. CASE n # 0
    <3>1. n \in DOMAIN inits /\ inits \in Seq(Inits) /\ inits[n] \in Inits
      BY <2>2 DEF TypeOK
    <3>2. Stopped(inits[n]) \in Inits
      BY <3>1, StoppedFields
    <3>3. QED
      BY <2>2, <3>1, <3>2, RunUpdated
  <2>3. QED
    BY <2>1, <2>2
<1> HIDE DEF p, runs
<1>4. QED
  BY <1>1, <1>2, <1>3

IsResumed(p, runs, i, state, id) ==
  /\ Commit(p, runs, saved, {})
  /\ p.user = IF inits[i].cancelled = "no" /\ page.user = NoUser
              THEN Synthesized(id) ELSE page.user
  /\ p.ready = IF inits[i].cancelled = "no" THEN TRUE ELSE page.ready
  /\ p.sidecarId = id
  /\ p.creds = page.creds /\ p.jwt = page.jwt /\ p.wallets = page.wallets
  /\ Len(runs) = Len(inits)
  /\ \A j \in 1 .. Len(inits) : j # i => runs[j] = inits[j]
  /\ runs[i].pc \in {"listing", "over"} /\ runs[i].sidecar = state
  /\ runs[i].cancelled = inits[i].cancelled /\ runs[i].user = inits[i].user
  /\ runs[i].creds = inits[i].creds /\ runs[i].loaded = inits[i].loaded

LEMMA ResumedIs ==
  ASSUME TypeOK, NEW i \in DOMAIN inits, NEW state \in {"running", "failed"}, NEW id \in Ids,
         Resumed(i, state, id)
  PROVE  \E p \in Pages, runs \in Seq(Inits) : IsResumed(p, runs, i, state, id)
<1> DEFINE c == IF inits[i].cancelled = "no" THEN "listing" ELSE "over"
           y == [inits[i] EXCEPT !.sidecar = state, !.pc = c]
           runs == [inits EXCEPT ![i] = y]
           named == [page EXCEPT !.sidecarId = id]
           u == IF named.user = NoUser THEN Synthesized(id) ELSE named.user
           p == IF inits[i].cancelled # "no" THEN named
                ELSE [named EXCEPT !.user = u, !.ready = TRUE]
<1>1. inits \in Seq(Inits) /\ inits[i] \in Inits /\ page \in Pages
  BY DEF TypeOK
<1>2. Commit(p, runs, saved, {})
  <2>1. runs = [inits EXCEPT ![i].sidecar = state,
                             ![i].pc = IF inits[i].cancelled = "no" THEN "listing" ELSE "over"]
    BY <1>1
  <2>2. QED
    BY <2>1 DEF Resumed
<1>3. c \in {"listing", "over"}
  OBVIOUS
<1> HIDE DEF c
<1>4. /\ y \in Inits /\ y.pc = c /\ y.sidecar = state /\ y.cancelled = inits[i].cancelled
      /\ y.user = inits[i].user /\ y.creds = inits[i].creds /\ y.loaded = inits[i].loaded
  BY <1>1, <1>3 DEF Inits
<1>5. /\ named \in Pages /\ named.sidecarId = id /\ named.user = page.user
      /\ named.creds = page.creds /\ named.jwt = page.jwt /\ named.ready = page.ready
      /\ named.wallets = page.wallets
  BY <1>1, NamedFields
<1>6. u \in UserIds
  BY <1>5 DEF Synthesized, UserIds, Pages
<1>7. u = IF page.user = NoUser THEN Synthesized(id) ELSE page.user
  BY <1>5
<1> HIDE DEF y, named, u
<1>8. /\ p \in Pages
      /\ p.user = IF inits[i].cancelled = "no" /\ page.user = NoUser
                  THEN Synthesized(id) ELSE page.user
      /\ p.ready = IF inits[i].cancelled = "no" THEN TRUE ELSE page.ready
      /\ p.sidecarId = id
      /\ p.creds = page.creds /\ p.jwt = page.jwt /\ p.wallets = page.wallets
  <2>1. CASE inits[i].cancelled # "no"
    BY <1>5, <2>1
  <2>2. CASE inits[i].cancelled = "no"
    <3> DEFINE z == [named EXCEPT !.user = u, !.ready = TRUE]
    <3>1. /\ z \in Pages /\ z.sidecarId = named.sidecarId /\ z.user = u
          /\ z.creds = named.creds /\ z.jwt = named.jwt /\ z.ready = TRUE
          /\ z.wallets = named.wallets
      BY <1>5, <1>6, ReadyFields
    <3>2. p = z
      BY <2>2
    <3> HIDE DEF z, p
    <3>3. QED
      BY <1>5, <1>7, <2>2, <3>1, <3>2
  <2>3. QED
    BY <2>1, <2>2
<1>9. /\ runs \in Seq(Inits) /\ Len(runs) = Len(inits) /\ runs[i] = y
      /\ \A j \in 1 .. Len(inits) : j # i => runs[j] = inits[j]
  BY <1>1, <1>4, RunUpdated
<1> HIDE DEF p, runs
<1>10. QED
  BY <1>2, <1>3, <1>4, <1>8, <1>9 DEF IsResumed

IsLoaded(p, runs, i) ==
  /\ Commit(p, runs, saved, IF SetsWallets(i) THEN {"wallets"} ELSE {})
  /\ p.user = page.user /\ p.creds = page.creds /\ p.jwt = page.jwt
  /\ p.ready = page.ready /\ p.sidecarId = page.sidecarId
  /\ p.wallets = IF SetsWallets(i) THEN inits[i].loaded ELSE page.wallets
  /\ Len(runs) = Len(inits)
  /\ \A j \in 1 .. Len(inits) : j # i => runs[j] = inits[j]
  /\ runs[i].pc = "over" /\ runs[i].sidecar = inits[i].sidecar
  /\ runs[i].cancelled = inits[i].cancelled /\ runs[i].user = inits[i].user
  /\ runs[i].creds = inits[i].creds /\ runs[i].loaded = {}

LEMMA LoadedIs ==
  ASSUME TypeOK, NEW i \in DOMAIN inits, Loaded(i)
  PROVE  \E p \in Pages, runs \in Seq(Inits) : IsLoaded(p, runs, i)
<1> DEFINE y == [inits[i] EXCEPT !.pc = "over", !.loaded = {}]
           runs == [inits EXCEPT ![i] = y]
           p == IF SetsWallets(i) THEN [page EXCEPT !.wallets = inits[i].loaded] ELSE page
<1>1. inits \in Seq(Inits) /\ inits[i] \in Inits /\ page \in Pages
  BY DEF TypeOK
<1>2. inits[i].loaded \in SUBSET Keys
  BY <1>1 DEF Inits
<1>3. Commit(p, runs, saved, IF SetsWallets(i) THEN {"wallets"} ELSE {})
  <2>1. runs = [inits EXCEPT ![i].pc = "over", ![i].loaded = {}]
    BY <1>1
  <2>2. QED
    BY <2>1 DEF Loaded
<1>4. /\ y \in Inits /\ y.pc = "over" /\ y.loaded = {} /\ y.cancelled = inits[i].cancelled
      /\ y.user = inits[i].user /\ y.creds = inits[i].creds /\ y.sidecar = inits[i].sidecar
  BY <1>1, ListedFields
<1> HIDE DEF y
<1>5. /\ runs \in Seq(Inits) /\ Len(runs) = Len(inits) /\ runs[i] = y
      /\ \A j \in 1 .. Len(inits) : j # i => runs[j] = inits[j]
  BY <1>1, <1>4, RunUpdated
<1>6. /\ p \in Pages /\ p.user = page.user /\ p.creds = page.creds /\ p.jwt = page.jwt
      /\ p.ready = page.ready /\ p.sidecarId = page.sidecarId
      /\ p.wallets = IF SetsWallets(i) THEN inits[i].loaded ELSE page.wallets
  BY <1>1, <1>2, WalletFields
<1> HIDE DEF p, runs
<1>7. QED
  BY <1>3, <1>4, <1>5, <1>6 DEF IsLoaded

LEMMA RegisterIs ==
  ASSUME TypeOK, NEW k \in Keys, RegisterWallet(k)
  PROVE  \E p \in Pages :
           /\ Commit(p, inits, saved, {})
           /\ p.user = page.user /\ p.creds = page.creds /\ p.jwt = page.jwt
           /\ p.ready = page.ready /\ p.sidecarId = page.sidecarId
           /\ p.wallets = page.wallets \cup {k}
<1> DEFINE ks == page.wallets \cup {k}
           p == [page EXCEPT !.wallets = ks]
<1>1. Commit(p, inits, saved, {})
  BY DEF RegisterWallet, WithWallet
<1>2. ks \in SUBSET Keys /\ page \in Pages
  BY DEF TypeOK, Pages
<1>3. /\ p \in Pages /\ p.user = page.user /\ p.creds = page.creds /\ p.jwt = page.jwt
      /\ p.ready = page.ready /\ p.sidecarId = page.sidecarId /\ p.wallets = ks
  BY <1>2, WalletFields
<1> HIDE DEF p
<1>4. QED
  BY <1>1, <1>3

-------------------------------------------------------------------------------
(* The inductive invariant.  Budget: every effect run but the first two    *)
(* was paid for by a login or a logout, or took a user's name.  Runs: a    *)
(* run that is not the last was cleaned up, and one that is not cancelled  *)
(* is of the account in use.  PageOK: the session is saved while the jwt   *)
(* is held, and the last run bears the user's name.  First: the only run   *)
(* of a page is current.                                                   *)
BudgetTypes ==
  [logins : 0 .. MaxLogins, logouts : 0 .. MaxLogouts, reloads : 0 .. MaxReloads,
   faults : 0 .. MaxFaults]
Left(b, user) == b.logins + 2 * b.logouts + (IF user = NoUser THEN 1 ELSE 0)
Paid == Len(inits) + Left(budget, page.user) <= MaxInits

RunsOK(runs, creds) ==
  \A j \in 1 .. Len(runs) :
    /\ runs[j].pc = "starting" => runs[j].sidecar = "building"
    /\ j < Len(runs) =>
         /\ runs[j].cancelled # "no"
         /\ runs[j].sidecar \in {"building", "running"} => runs[j].cancelled = "starting"
    /\ runs[j].cancelled = "no" => runs[j].creds = creds
LoadsOK(runs, keys) ==
  \A j \in 1 .. Len(runs) : \A k \in runs[j].loaded :
    keys[k].share # NoShare /\ keys[k].creds = runs[j].creds
KeysOK == \A k \in Keys : key[k].share # NoShare => key[k].pc # "free"

SameMemo(a, b) ==
  /\ a.ready = b.ready /\ a.user = b.user /\ a.wallets = b.wallets
  /\ a.creds = b.creds /\ a.jwt = b.jwt
PageOK ==
  /\ SameMemo(ctx.page, page)
  /\ page.jwt = "held" => page.user \in Users /\ page.creds = page.user
  /\ saved = IF page.jwt = "held" THEN page.user ELSE NoUser
  /\ IF Len(inits) = 0 THEN ~page.ready
     ELSE page.creds # NoCreds /\ inits[Len(inits)].user = page.user

(* What the first run says of a page and of a context.                     *)
FirstOK(run, p, context) ==
  /\ run.cancelled = "no"
  /\ run.pc = "starting" => ~p.ready
  /\ run.pc # "starting" /\ run.sidecar = "running" =>
       /\ p.sidecarId = Db(run.user)
       /\ context.sidecar = 1 /\ context.page.sidecarId = p.sidecarId
First == Len(inits) = 1 => FirstOK(inits[1], page, ctx)

RunsInv ==
  /\ TypeOK /\ budget \in BudgetTypes /\ Paid
  /\ RunsOK(inits, page.creds) /\ LoadsOK(inits, key) /\ KeysOK
  /\ PageOK /\ First

LEMMA MemoDepsAreMemo ==
  ASSUME NEW a, NEW b
  PROVE  MemoDeps(a) = MemoDeps(b) <=> SameMemo(a, b)
BY DEF MemoDeps, SameMemo

LEMMA Bounds ==
  /\ MaxKeys \in Nat /\ MaxLogins \in Nat /\ MaxLogouts \in Nat /\ MaxReloads \in Nat
  /\ MaxFaults \in Nat /\ MaxEvents \in Nat
BY BoundsAssumption

LEMMA BudgetNats ==
  ASSUME NEW b \in BudgetTypes
  PROVE  /\ b.logins \in Nat /\ b.logouts \in Nat /\ MaxInits \in Nat
         /\ \A u : Left(b, u) \in Nat
<1>1. b.logins \in Nat /\ b.logouts \in Nat
  BY Bounds DEF BudgetTypes
<1>2. QED
  BY <1>1, Bounds DEF MaxInits, Left

LEMMA SynthesizedTypes ==
  ASSUME NEW id
  PROVE  /\ Synthesized(id) \in UserIds /\ Synthesized(id) # NoUser
         /\ Synthesized(id) \notin Users /\ NoUser \notin Users
         /\ NoCreds \notin Users /\ DevCreds \notin Users
BY UsersAssumption DEF Synthesized, UserIds, NoUser, NoCreds, DevCreds

(* A commit keeps it, given what it makes of the page and of the runs.     *)
LEMMA CommitKeeps ==
  ASSUME RunsInv, NEW p \in Pages, NEW runs \in Seq(Inits), NEW session \in Users \cup {NoUser},
         NEW renewed, Commit(p, runs, session, renewed),
         Len(runs) = Len(inits), RunsOK(runs, page.creds), LoadsOK(runs, key'),
         p.creds = NoCreds => page.creds = NoCreds, 
         p.jwt = "held" => p.user \in Users /\ p.creds = p.user,
         p.jwt # "held" => session = NoUser,
         Len(inits) # 0 => runs[Len(inits)].user = inits[Len(inits)].user,
         Len(inits) = 0 => p.ready = page.ready,
         Len(inits) = 1 /\ ~Reruns(p, renewed) =>
           /\ runs[1].cancelled = "no"
           /\ runs[1].pc = "starting" => ~p.ready
           /\ runs[1].pc # "starting" /\ runs[1].sidecar = "running" =>
                /\ p.sidecarId = Db(runs[1].user)
                /\ SameMemo(p, ctx.page) /\ renewed = {} =>
                     ctx.sidecar = 1 /\ ctx.page.sidecarId = p.sidecarId,
         key' \in [Keys -> KeyRecords], KeysOK', budget' \in BudgetTypes, manual' = manual,
         Len(inits) + (IF Reruns(p, renewed) THEN 1 ELSE 0) + Left(budget', p.user) <= MaxInits
  PROVE  RunsInv'
<1> USE DEF RunsInv
<1> DEFINE n == Len(inits)
<1>1. n \in Nat /\ n <= MaxInits /\ MaxInits \in Nat /\ Left(budget', p.user) \in Nat
  <2>1. n \in Nat
    BY DEF TypeOK
  <2>2. MaxInits \in Nat
    BY Bounds DEF MaxInits
  <2>3. budget'.logins \in Nat /\ budget'.logouts \in Nat
    BY Bounds DEF BudgetTypes
  <2>4. QED
    BY <2>1, <2>2, <2>3 DEF TypeOK, Left
<1>2. page' = p /\ inits' \in Seq(Inits)
  BY CommitRuns
<1>3. Len(inits') \in {n, n + 1} /\ (Len(inits') = n + 1 => Reruns(p, renewed) /\ p.creds # NoCreds)
  BY <1>1, CommitRuns
<1>4. Len(inits') <= MaxInits /\ Paid'
  <2>1. Len(inits') <= n + (IF Reruns(p, renewed) THEN 1 ELSE 0)
    BY <1>1, <1>3
  <2>2. QED
    BY <1>1, <1>2, <1>3, <2>1 DEF Paid
<1>5. ctx' = ctx \/ ctx' = [page |-> p, sidecar |-> n]
  BY CommitRuns
<1>6. SameMemo(ctx'.page, p)
  <2>1. CASE SameMemo(p, ctx.page)
    BY <1>5, <2>1 DEF SameMemo
  <2>2. CASE ~SameMemo(p, ctx.page)
    <3>1. ctx' = [page |-> p, sidecar |-> n]
      BY <2>2, MemoDepsAreMemo, CommitRuns
    <3>2. QED
      BY <3>1 DEF SameMemo
  <2>3. QED
    BY <2>1, <2>2
<1>7. TypeOK'
  <2>1. saved' \in Users \cup {NoUser}
    BY CommitRuns DEF Pages
  <2>2. ctx'.page \in Pages /\ ctx'.sidecar \in 0 .. Len(inits')
    BY <1>1, <1>3, <1>5 DEF TypeOK
  <2>3. manual' \in BOOLEAN
    BY DEF TypeOK
  <2>4. QED
    BY <1>2, <1>4, <2>1, <2>2, <2>3 DEF TypeOK
<1>8. PageOK'
  <2>0. saved' = IF p.jwt = "held" THEN p.user ELSE NoUser
    <3>1. NoUser \notin Users
      BY SynthesizedTypes
    <3>2. QED
      BY <3>1, CommitRuns
  <2>1. CASE Len(inits') = 0
    <3>1. n = 0 /\ p.ready = page.ready
      BY <1>1, <1>3, <2>1
    <3>2. QED
      BY <1>2, <1>6, <2>0, <2>1, <3>1 DEF PageOK
  <2>2. CASE Len(inits') # 0
    <3>1. p.creds # NoCreds
      BY <1>1, <1>3, <2>2 DEF PageOK
    <3>2. inits'[Len(inits')].user = p.user
      <4>1. CASE Reruns(p, renewed)
        <5>1. Len(inits') = n + 1 /\ inits'[n + 1] = NewInit(p.user, p.creds)
          BY <3>1, <4>1, CommitRuns
        <5>2. QED
          BY <5>1 DEF NewInit
      <4>2. CASE ~Reruns(p, renewed)
        <5>1. inits' = runs /\ n # 0 /\ p.user = page.user
          BY <2>2, <4>2, CommitRuns DEF Reruns
        <5>2. QED
          BY <5>1 DEF PageOK
      <4>3. QED
        BY <4>1, <4>2
    <3>3. QED
      BY <1>2, <1>6, <2>0, <2>2, <3>1, <3>2 DEF PageOK
  <2>3. QED
    BY <2>1, <2>2
<1>9. RunsOK(inits', p.creds) /\ LoadsOK(inits', key')
  <2>1. CASE ~Reruns(p, renewed)
    <3>1. inits' = runs /\ p.creds = page.creds
      BY <2>1, CommitRuns DEF Reruns
    <3>2. QED
      BY <3>1
  <2>2. CASE Reruns(p, renewed)
    <3> USE <2>2
    <3>1. ASSUME NEW j \in 1 .. n
          PROVE  /\ inits'[j].pc = "starting" => inits'[j].sidecar = "building"
                 /\ inits'[j].cancelled # "no"
                 /\ inits'[j].sidecar \in {"building", "running"} => inits'[j].cancelled = "starting"
                 /\ inits'[j].creds = runs[j].creds /\ inits'[j].loaded = runs[j].loaded
      <4>1. runs[j] \in Inits
        OBVIOUS
      <4>2. CASE j = n
        <5>1. inits'[j] = CleanedUp(runs[j])
          BY <4>2, CommitRuns
        <5>2. QED
          BY <4>1, <5>1, CleanedUpFields DEF RunsOK
      <4>3. CASE j # n
        <5>1. inits'[j] = runs[j] /\ j < Len(runs)
          BY <1>1, <4>3, CommitRuns
        <5>2. QED
          BY <5>1 DEF RunsOK
      <4>4. QED
        BY <4>2, <4>3
    <3>2. CASE p.creds = NoCreds
      <4>1. Len(inits') = n
        BY <3>2, CommitRuns
      <4>2. QED
        BY <3>1, <4>1 DEF RunsOK, LoadsOK
    <3>3. CASE p.creds # NoCreds
      <4>1. Len(inits') = n + 1 /\ inits'[n + 1] = NewInit(p.user, p.creds)
        BY <3>3, CommitRuns
      <4>2. /\ NewInit(p.user, p.creds).pc = "starting"
            /\ NewInit(p.user, p.creds).cancelled = "no"
            /\ NewInit(p.user, p.creds).creds = p.creds
            /\ NewInit(p.user, p.creds).sidecar = "building"
            /\ NewInit(p.user, p.creds).loaded = {}
        BY <3>3, NewInitFields DEF Pages
      <4>3. \A j \in 1 .. Len(inits') : j \in 1 .. n \/ (j = n + 1 /\ ~(j < Len(inits')))
        BY <1>1, <4>1
      <4>4. RunsOK(inits', p.creds)
        BY <3>1, <4>1, <4>2, <4>3 DEF RunsOK
      <4>5. LoadsOK(inits', key')
        BY <3>1, <4>1, <4>2, <4>3 DEF LoadsOK
      <4>6. QED
        BY <4>4, <4>5
    <3>4. QED
      BY <3>2, <3>3
  <2>3. QED
    BY <2>1, <2>2
<1>10. First'
  <2> SUFFICES ASSUME Len(inits') = 1
               PROVE  FirstOK(inits'[1], p, ctx')
    BY <1>2 DEF First
  <2>1. CASE n = 0
    <3>1. Reruns(p, renewed) /\ p.creds # NoCreds /\ ~p.ready
      BY <1>3, <2>1 DEF PageOK
    <3>2. inits'[1] = NewInit(p.user, p.creds)
      BY <2>1, <3>1, CommitRuns
    <3>3. QED
      BY <3>1, <3>2, NewInitFields DEF FirstOK, Pages
  <2>2. CASE n = 1
    <3>1. p.creds # NoCreds
      BY <2>2 DEF PageOK
    <3>2. ~Reruns(p, renewed)
      BY <2>2, <3>1, CommitRuns
    <3>3. inits' = runs
      BY <3>2, CommitRuns
    <3>4. CASE SameMemo(p, ctx.page) /\ renewed = {}
      BY <1>5, <2>2, <3>2, <3>3, <3>4 DEF FirstOK
    <3>5. CASE ~SameMemo(p, ctx.page) \/ renewed # {}
      <4>1. ctx' = [page |-> p, sidecar |-> n]
        BY <3>5, MemoDepsAreMemo, CommitRuns
      <4>2. QED
        <5>1. ctx'.page.sidecarId = p.sidecarId /\ ctx'.sidecar = 1
          BY <2>2, <4>1
        <5>2. /\ runs[1].cancelled = "no"
              /\ runs[1].pc = "starting" => ~p.ready
              /\ runs[1].pc # "starting" /\ runs[1].sidecar = "running" =>
                   p.sidecarId = Db(runs[1].user)
          BY <2>2, <3>2
        <5>3. QED
          BY <3>3, <5>1, <5>2 DEF FirstOK
    <3>6. QED
      BY <3>4, <3>5
  <2>3. QED
    BY <1>1, <1>3, <2>1, <2>2
<1>11. QED
  BY <1>2, <1>4, <1>7, <1>8, <1>9, <1>10

-------------------------------------------------------------------------------
(* Budgets, keys, databases and fresh pages.                               *)
LEMMA Spent ==
  ASSUME budget \in BudgetTypes
  PROVE  /\ Spend("logins") => /\ budget' \in BudgetTypes /\ budget.logins > 0
                               /\ budget'.logins = budget.logins - 1
                               /\ budget'.logouts = budget.logouts
         /\ Spend("logouts") => /\ budget' \in BudgetTypes /\ budget.logouts > 0
                                /\ budget'.logins = budget.logins
                                /\ budget'.logouts = budget.logouts - 1
         /\ Spend("reloads") \/ Spend("faults") =>
              /\ budget' \in BudgetTypes
              /\ budget'.logins = budget.logins /\ budget'.logouts = budget.logouts
BY Bounds DEF Spend, BudgetTypes

LEMMA KeyMoves ==
  ASSUME key \in [Keys -> KeyRecords], NEW k \in Keys,
         NEW x \in {"registered", "timed out"}, key' = [key EXCEPT ![k].pc = x]
  PROVE  /\ key' \in [Keys -> KeyRecords]
         /\ \A j \in Keys : /\ key'[j].owner = key[j].owner /\ key'[j].creds = key[j].creds
                            /\ key'[j].party = key[j].party /\ key'[j].steady = key[j].steady
                            /\ key'[j].share = key[j].share
                            /\ key'[j].pc \in {key[j].pc, x}
BY DEF KeyRecords

LEMMA DbTypes ==
  ASSUME NEW u \in UserIds
  PROVE  Db(u) \in Dbs /\ Db(u) \in Ids /\ Unknown \in Ids
BY DEF Db, Ids, Dbs

LEMMA FreshFields ==
  ASSUME NEW m \in BOOLEAN, NEW session \in Users \cup {NoUser}
  PROVE  LET p == FreshPage(m, session)
         IN  /\ p \in Pages /\ ~p.ready /\ p.user = session /\ p.wallets = {}
             /\ p.jwt = IF session # NoUser THEN "held" ELSE "none"
             /\ p.creds = IF session # NoUser THEN session ELSE IF m THEN DevCreds ELSE NoCreds
BY DEF FreshPage, Pages, UserIds, Ids

LEMMA FirstEffectRuns ==
  ASSUME NEW p \in Pages, NEW keys
  PROVE  /\ FirstEffect(p) \in Seq(Inits)
         /\ Len(FirstEffect(p)) = IF p.creds = NoCreds THEN 0 ELSE 1
         /\ p.creds # NoCreds => FirstEffect(p)[1] = NewInit(p.user, p.creds)
         /\ RunsOK(FirstEffect(p), p.creds) /\ LoadsOK(FirstEffect(p), keys)
<1>1. CASE p.creds = NoCreds
  BY <1>1 DEF FirstEffect, RunsOK, LoadsOK
<1>2. CASE p.creds # NoCreds
  <2> DEFINE x == NewInit(p.user, p.creds)
  <2>1. /\ x \in Inits /\ x.pc = "starting" /\ x.cancelled = "no" /\ x.creds = p.creds
        /\ x.sidecar = "building" /\ x.loaded = {}
    BY <1>2, NewInitFields DEF Pages
  <2>2. FirstEffect(p) = <<x>>
    BY <1>2 DEF FirstEffect
  <2> HIDE DEF x
  <2>3. /\ FirstEffect(p) \in Seq(Inits) /\ Len(FirstEffect(p)) = 1 /\ FirstEffect(p)[1] = x
        /\ \A j \in 1 .. Len(FirstEffect(p)) : FirstEffect(p)[j] = x /\ ~(j < 1)
    BY <2>1, <2>2
  <2>4. RunsOK(FirstEffect(p), p.creds) /\ LoadsOK(FirstEffect(p), keys)
    BY <2>1, <2>3 DEF RunsOK, LoadsOK
  <2>5. QED
    BY <1>2, <2>3, <2>4 DEF x
<1>3. QED
  BY <1>1, <1>2

LEMMA RunsInit == ASSUME Init PROVE RunsInv
<1> DEFINE p == FreshPage(manual, NoUser)
<1>1. /\ manual \in BOOLEAN /\ page = p /\ ctx = [page |-> page, sidecar |-> 0]
      /\ inits = FirstEffect(page) /\ saved = NoUser /\ key = [k \in Keys |-> FreeKey]
      /\ budget = [logins |-> MaxLogins, logouts |-> MaxLogouts, reloads |-> MaxReloads,
                   faults |-> MaxFaults]
  BY DEF Init
<1>2. /\ p \in Pages /\ ~p.ready /\ p.user = NoUser /\ p.jwt = "none"
  BY <1>1, FreshFields
<1>3. /\ inits \in Seq(Inits) /\ Len(inits) = IF page.creds = NoCreds THEN 0 ELSE 1
      /\ page.creds # NoCreds => inits[1] = NewInit(page.user, page.creds)
      /\ RunsOK(inits, page.creds) /\ LoadsOK(inits, key)
  BY <1>1, <1>2, FirstEffectRuns
<1>4. FreeKey \in KeyRecords /\ FreeKey.share = NoShare
  BY DEF FreeKey, KeyRecords, UserIds, Ids
<1>5. budget \in BudgetTypes /\ budget.logins = MaxLogins /\ budget.logouts = MaxLogouts
  BY <1>1, Bounds DEF BudgetTypes
<1>6. Paid /\ Len(inits) <= MaxInits
  BY <1>1, <1>2, <1>3, <1>5, Bounds DEF Paid, Left, MaxInits
<1>7. TypeOK
  <2>1. ctx.page = page /\ ctx.sidecar = 0 /\ 0 \in 0 .. Len(inits)
    BY <1>1, <1>3
  <2>2. key \in [Keys -> KeyRecords]
    BY <1>1, <1>4
  <2>3. QED
    BY <1>1, <1>2, <1>3, <1>6, <2>1, <2>2 DEF TypeOK
<1>8. KeysOK
  BY <1>1, <1>4 DEF KeysOK
<1>9. PageOK
  BY <1>1, <1>2, <1>3 DEF PageOK, SameMemo, NewInit
<1>10. First
  BY <1>1, <1>2, <1>3, NewInitFields DEF First, FirstOK, Pages
<1>11. QED
  BY <1>3, <1>5, <1>6, <1>7, <1>8, <1>9, <1>10 DEF RunsInv

LEMMA ReloadRuns ==
  ASSUME RunsInv, Reload
  PROVE  RunsInv'
<1> USE DEF RunsInv
<1> DEFINE p == FreshPage(manual, saved)
<1>1. /\ page' = p /\ ctx' = [page |-> page', sidecar |-> 0] /\ inits' = FirstEffect(page')
      /\ key' = [k \in Keys |-> [key[k] EXCEPT !.pc = IF @ = "waiting" THEN "gone" ELSE @]]
      /\ UNCHANGED <<manual, saved>> /\ Spend("reloads")
  BY DEF Reload
<1>2. manual \in BOOLEAN /\ saved \in Users \cup {NoUser}
  BY DEF TypeOK
<1>3. /\ p \in Pages /\ ~p.ready /\ p.user = saved
      /\ p.jwt = IF saved # NoUser THEN "held" ELSE "none"
      /\ saved # NoUser => p.creds = saved
  BY <1>2, FreshFields
<1> HIDE DEF p
<1>4. /\ inits' \in Seq(Inits) /\ Len(inits') = IF p.creds = NoCreds THEN 0 ELSE 1
      /\ p.creds # NoCreds => inits'[1] = NewInit(p.user, p.creds)
      /\ RunsOK(inits', p.creds) /\ LoadsOK(inits', key')
  BY <1>1, <1>3, FirstEffectRuns
<1>5. /\ key' \in [Keys -> KeyRecords]
      /\ \A k \in Keys : /\ key'[k].share = key[k].share
                         /\ key'[k].pc = IF key[k].pc = "waiting" THEN "gone" ELSE key[k].pc
  BY <1>1 DEF TypeOK, KeyRecords
<1>6. budget' \in BudgetTypes
  BY <1>1, Spent
<1>7. Len(inits') <= MaxInits /\ Len(inits') + Left(budget', p.user) <= MaxInits
  <2>1. budget'.logins \in 0 .. MaxLogins /\ budget'.logouts \in 0 .. MaxLogouts
    BY <1>6 DEF BudgetTypes
  <2>2. QED
    <3>1. Left(budget', p.user) \in 0 .. MaxLogins + 2 * MaxLogouts + 1
      BY <2>1, Bounds DEF Left
    <3>2. Len(inits') \in 0 .. 1
      BY <1>4
    <3>3. MaxInits = MaxLogins + 2 * MaxLogouts + 2
      BY Bounds DEF MaxInits
    <3>4. MaxLogins \in Nat /\ MaxLogouts \in Nat
      BY Bounds
    <3>5. \A l \in 0 .. MaxLogins + 2 * MaxLogouts + 1, n \in 0 .. 1 :
            n <= MaxInits /\ n + l <= MaxInits
      BY <3>3, <3>4
    <3>6. QED
      BY <3>1, <3>2, <3>5
<1>8. TypeOK'
  <2>1. ctx'.page = p /\ ctx'.sidecar = 0 /\ 0 \in 0 .. Len(inits')
    BY <1>1, <1>4
  <2>2. QED
    BY <1>1, <1>2, <1>3, <1>4, <1>5, <1>7, <2>1 DEF TypeOK
<1>9. KeysOK'
  BY <1>5 DEF KeysOK
<1>10. PageOK'
  <2>1. p.jwt = "held" <=> saved # NoUser
    BY <1>3
  <2>2. IF Len(inits') = 0 THEN ~p.ready
        ELSE p.creds # NoCreds /\ inits'[Len(inits')].user = p.user
    BY <1>3, <1>4 DEF NewInit
  <2>3. saved # NoUser => saved \in Users
    BY <1>2
  <2>4. SameMemo(ctx'.page, page')
    BY <1>1 DEF SameMemo
  <2>5. QED
    BY <1>1, <1>3, <2>1, <2>2, <2>3, <2>4 DEF PageOK
<1>11. First'
  <2>1. SUFFICES ASSUME Len(inits') = 1 PROVE FirstOK(inits'[1], page', ctx')
    BY DEF First
  <2>2. p.creds # NoCreds /\ inits'[1] = NewInit(p.user, p.creds)
    <3>1. Len(inits') = IF p.creds = NoCreds THEN 0 ELSE 1
      BY <1>4
    <3>2. p.creds # NoCreds
      BY <2>1, <3>1
    <3>3. QED
      BY <1>4, <3>2
  <2>3. p.user \in UserIds /\ p.creds \in Users \cup {DevCreds}
    BY <1>3, <2>2 DEF Pages
  <2>4. inits'[1].pc = "starting" /\ inits'[1].cancelled = "no"
    BY <2>2, <2>3, NewInitFields
  <2>5. QED
    BY <1>1, <1>3, <2>4 DEF FirstOK
<1>12. Paid'
  BY <1>1, <1>7 DEF Paid
<1>13. QED
  BY <1>1, <1>4, <1>6, <1>8, <1>9, <1>10, <1>11, <1>12

-------------------------------------------------------------------------------
(* Every action keeps the invariant.                                       *)
LEMMA SameKeys ==
  ASSUME RunsInv, key' = key
  PROVE  key' \in [Keys -> KeyRecords] /\ KeysOK' /\ LoadsOK(inits, key')
BY DEF RunsInv, TypeOK, KeysOK

LEMMA LoginPaid ==
  ASSUME RunsInv, Spend("logins"), NEW u, u # NoUser
  PROVE  /\ Len(inits) + 1 + Left(budget', u) <= MaxInits
         /\ Len(inits) + 0 + Left(budget', u) <= MaxInits
<1>1. budget'.logins = budget.logins - 1 /\ budget'.logouts = budget.logouts
  BY Spent DEF RunsInv
<1>2. budget.logins \in Nat /\ budget.logouts \in Nat /\ Len(inits) \in Nat /\ MaxInits \in Nat
  BY BudgetNats DEF TypeOK, RunsInv
<1>3. Left(budget', u) + 1 <= Left(budget, page.user)
  BY <1>1, <1>2 DEF Left
<1>4. Left(budget', u) \in Int /\ Left(budget, page.user) \in Int
  BY <1>1, <1>2 DEF Left
<1>5. QED
  BY <1>2, <1>3, <1>4 DEF Paid, RunsInv

LEMMA LoginRuns ==
  ASSUME RunsInv, NEW u \in Users, Login(u)
  PROVE  RunsInv'
<1> USE DEF RunsInv
<1>1. PICK p \in Pages, newKey \in SUBSET {"access key"} :
        /\ Commit(p, inits, saved, {"user"} \cup newKey)
        /\ p.user = u /\ p.creds = u /\ p.jwt = "held"
        /\ p.ready = page.ready /\ p.sidecarId = page.sidecarId /\ p.wallets = page.wallets
  BY LoginIs
<1> DEFINE renewed == {"user"} \cup newKey
<1>2. renewed # {} /\ Spend("logins") /\ manual' = manual /\ key' = key
  BY DEF Login
<1> HIDE DEF renewed
<1>3. u # NoUser /\ u # NoCreds
  BY SynthesizedTypes
<1>4. budget' \in BudgetTypes
  BY <1>2, Spent
<1>5. Len(inits) + (IF Reruns(p, renewed) THEN 1 ELSE 0) + Left(budget', p.user) <= MaxInits
  <2>1. /\ Len(inits) + 1 + Left(budget', u) <= MaxInits
        /\ Len(inits) + 0 + Left(budget', u) <= MaxInits
    BY <1>2, <1>3, LoginPaid
  <2>2. CASE Reruns(p, renewed)
    BY <1>1, <2>1, <2>2
  <2>3. CASE ~Reruns(p, renewed)
    BY <1>1, <2>1, <2>3
  <2>4. QED
    BY <2>2, <2>3
<1>6. inits \in Seq(Inits) /\ saved \in Users \cup {NoUser}
  BY DEF TypeOK
<1>7. key' \in [Keys -> KeyRecords] /\ KeysOK' /\ LoadsOK(inits, key')
  BY <1>2, SameKeys
<1>8. Commit(p, inits, saved, renewed)
  BY <1>1 DEF renewed
<1>9. ASSUME Len(inits) = 1, ~Reruns(p, renewed)
      PROVE  /\ inits[1].cancelled = "no"
             /\ inits[1].pc = "starting" => ~p.ready
             /\ inits[1].pc # "starting" /\ inits[1].sidecar = "running" =>
                  p.sidecarId = Db(inits[1].user)
  BY <1>1, <1>9 DEF First, FirstOK
<1>10. QED
  BY <1>1, <1>2, <1>3, <1>4, <1>5, <1>6, <1>7, <1>8, <1>9, CommitKeeps

LEMMA LogoutRuns ==
  ASSUME RunsInv, Logout
  PROVE  RunsInv'
<1> USE DEF RunsInv
<1>1. PICK p \in Pages, runs \in Seq(Inits) :
        /\ Commit(p, runs, NoUser, {})
        /\ p.user = NoUser /\ p.creds = page.creds /\ p.jwt = "cleared"
        /\ p.ready = page.ready /\ p.sidecarId = page.sidecarId /\ p.wallets = page.wallets
        /\ Len(runs) = Len(inits)
        /\ \A j \in 1 .. Len(inits) : runs[j] \in {inits[j], Stopped(inits[j])}
  BY LogoutIs
<1>2. Spend("logouts") /\ manual' = manual /\ key' = key
  BY DEF Logout, LoggedOut
<1>3. runs \in Seq(Inits) /\ \A j \in 1 .. Len(inits) : runs[j].user = inits[j].user
  <2>1. \A j \in 1 .. Len(inits) : inits[j] \in Inits
    BY DEF TypeOK
  <2>2. QED
    BY <1>1, <2>1, StoppedFields
<1>4. budget' \in BudgetTypes /\ Len(inits) + 1 + Left(budget', p.user) <= MaxInits
  <2>1. /\ budget' \in BudgetTypes /\ budget'.logins = budget.logins
        /\ budget'.logouts = budget.logouts - 1
    BY <1>2, Spent
  <2>2. budget.logins \in Nat /\ budget.logouts \in Nat /\ Len(inits) \in Nat /\ MaxInits \in Nat
    BY BudgetNats DEF TypeOK
  <2>3. Left(budget', p.user) + 1 <= Left(budget, page.user)
    BY <1>1, <1>2, <2>1, <2>2 DEF Left
  <2>4. Left(budget', p.user) \in Int /\ Left(budget, page.user) \in Int
    BY <2>1, <2>2 DEF Left
  <2>5. QED
    BY <2>1, <2>2, <2>3, <2>4 DEF Paid
<1>5. \A j \in 1 .. Len(inits) :
        /\ runs[j].pc = inits[j].pc /\ runs[j].cancelled = inits[j].cancelled
        /\ runs[j].creds = inits[j].creds /\ runs[j].loaded = inits[j].loaded
        /\ runs[j].sidecar = inits[j].sidecar
           \/ (inits[j].sidecar = "running" /\ runs[j].sidecar = "stopped")
  <2>1. \A j \in 1 .. Len(inits) : inits[j] \in Inits
    BY DEF TypeOK
  <2>2. QED
    BY <1>1, <2>1, StoppedFields
<1>6. RunsOK(runs, page.creds)
  BY <1>1, <1>5 DEF RunsOK
<1>7. key' \in [Keys -> KeyRecords] /\ KeysOK' /\ LoadsOK(inits, key')
  BY <1>2, SameKeys
<1>8. LoadsOK(runs, key')
  BY <1>1, <1>5, <1>7 DEF LoadsOK
<1>9. NoUser \in Users \cup {NoUser}
  OBVIOUS
<1>10. Len(inits) + (IF Reruns(p, {}) THEN 1 ELSE 0) + Left(budget', p.user) <= MaxInits
  <2>1. Left(budget', p.user) \in Int /\ Len(inits) \in Nat /\ MaxInits \in Nat
    BY <1>4, BudgetNats DEF TypeOK
  <2>2. QED
    BY <1>4, <2>1
<1>11. ASSUME Len(inits) = 1, ~Reruns(p, {})
      PROVE  /\ runs[1].cancelled = "no"
             /\ runs[1].pc = "starting" => ~p.ready
             /\ runs[1].pc # "starting" /\ runs[1].sidecar = "running" =>
                  /\ p.sidecarId = Db(runs[1].user)
                  /\ SameMemo(p, ctx.page) => ctx.sidecar = 1 /\ ctx.page.sidecarId = p.sidecarId
  BY <1>1, <1>3, <1>5, <1>11 DEF First, FirstOK
<1>12. p.creds = NoCreds => page.creds = NoCreds
  BY <1>1
<1>13. Len(inits) # 0 => runs[Len(inits)].user = inits[Len(inits)].user
  BY <1>3 DEF TypeOK
<1>14. QED
  BY <1>1, <1>2, <1>4, <1>6, <1>7, <1>8, <1>9, <1>10, <1>11, <1>12, <1>13, CommitKeeps

LEMMA ResumedRunsOK ==
  ASSUME RunsInv, NEW i \in DOMAIN inits, inits[i].pc = "starting",
         NEW state \in {"running", "failed"}, NEW id \in Ids, Resumed(i, state, id),
         state = "running" => id = Db(inits[i].user),
         budget' \in BudgetTypes, budget'.logins = budget.logins, budget'.logouts = budget.logouts,
         manual' = manual, key' = key
  PROVE  RunsInv'
<1>0. TypeOK
  BY DEF RunsInv
<1>1. PICK p \in Pages, runs \in Seq(Inits) : IsResumed(p, runs, i, state, id)
  BY <1>0, ResumedIs
<1> USE DEF RunsInv, IsResumed
<1>2. i \in 1 .. Len(inits) /\ Len(inits) \in Nat /\ Len(inits) # 0
  BY DEF TypeOK
<1>3. Synthesized(id) # NoUser /\ NoUser \notin Users
  BY SynthesizedTypes
<1>4. Len(inits) + (IF Reruns(p, {}) THEN 1 ELSE 0) + Left(budget', p.user) <= MaxInits
  <2>1. budget.logins \in Nat /\ budget.logouts \in Nat /\ MaxInits \in Nat
    BY Bounds DEF BudgetTypes, MaxInits
  <2>2. CASE p.user = page.user
    <3>1. ~Reruns(p, {}) /\ Left(budget', p.user) = Left(budget, page.user)
      BY <1>1, <2>2 DEF Reruns, Left
    <3>2. Left(budget, page.user) \in Int
      BY <2>1 DEF Left
    <3>3. QED
      BY <1>2, <3>1, <3>2 DEF Paid
  <2>3. CASE p.user # page.user
    <3>1. page.user = NoUser /\ p.user # NoUser
      BY <1>1, <1>3, <2>3
    <3>2. Left(budget', p.user) + 1 = Left(budget, page.user)
      BY <2>1, <3>1 DEF Left
    <3>3. Left(budget', p.user) \in Int
      BY <2>1 DEF Left
    <3>4. QED
      BY <1>2, <2>1, <3>2, <3>3 DEF Paid
  <2>4. QED
    BY <2>2, <2>3
<1>5. RunsOK(runs, page.creds)
  <2>1. ASSUME NEW j \in 1 .. Len(inits)
        PROVE  /\ runs[j].pc = "starting" => runs[j].sidecar = "building"
               /\ j < Len(inits) =>
                    /\ runs[j].cancelled # "no"
                    /\ runs[j].sidecar \in {"building", "running"} => runs[j].cancelled = "starting"
               /\ runs[j].cancelled = "no" => runs[j].creds = page.creds
    <3>1. CASE j = i
      BY <1>1, <1>2, <3>1 DEF RunsOK
    <3>2. CASE j # i
      BY <1>1, <1>2, <3>2 DEF RunsOK
    <3>3. QED
      BY <3>1, <3>2
  <2>2. QED
    BY <1>1, <2>1 DEF RunsOK
<1>6. key' \in [Keys -> KeyRecords] /\ KeysOK' /\ LoadsOK(inits, key')
  BY SameKeys
<1>7. LoadsOK(runs, key')
  BY <1>1, <1>2, <1>6 DEF LoadsOK
<1>8. /\ p.jwt = "held" => p.user \in Users /\ p.creds = p.user
      /\ p.jwt # "held" => saved = NoUser
  BY <1>1, <1>3 DEF PageOK
<1>9. ASSUME Len(inits) = 1, ~Reruns(p, {})
      PROVE  /\ runs[1].cancelled = "no"
             /\ runs[1].pc = "starting" => ~p.ready
             /\ runs[1].pc # "starting" /\ runs[1].sidecar = "running" =>
                  /\ p.sidecarId = Db(runs[1].user)
                  /\ SameMemo(p, ctx.page) => ctx.sidecar = 1 /\ ctx.page.sidecarId = p.sidecarId
  <2>1. i = 1
    BY <1>2, <1>9
  <2>2. inits[1].cancelled = "no" /\ ~page.ready
    BY <1>9, <2>1 DEF First, FirstOK
  <2>3. ~SameMemo(p, ctx.page)
    <3>1. p.ready = TRUE /\ ~ctx.page.ready
      BY <1>1, <2>1, <2>2 DEF PageOK, SameMemo
    <3>2. QED
      BY <3>1 DEF SameMemo
  <2>4. QED
    BY <1>1, <2>1, <2>2, <2>3
<1>10. inits \in Seq(Inits) /\ saved \in Users \cup {NoUser}
  BY DEF TypeOK
<1>11. runs[Len(inits)].user = inits[Len(inits)].user
  BY <1>1, <1>2
<1>12. QED
  BY <1>1, <1>2, <1>4, <1>5, <1>6, <1>7, <1>8, <1>9, <1>10, <1>11, CommitKeeps

LEMMA StartedRuns ==
  ASSUME RunsInv, NEW i \in DOMAIN inits, SidecarStarted(i) \/ StartFails(i)
  PROVE  RunsInv'
<1> USE DEF RunsInv
<1>1. inits[i] \in Inits
  BY DEF TypeOK
<1>2. Db(inits[i].user) \in Ids /\ Unknown \in Ids
  BY <1>1, DbTypes DEF Inits
<1>3. CASE SidecarStarted(i)
  BY <1>2, <1>3, ResumedRunsOK DEF SidecarStarted
<1>4. CASE StartFails(i)
  <2>1. PICK id \in {Unknown, Db(inits[i].user)} : Resumed(i, "failed", id)
    BY <1>4 DEF StartFails
  <2>2. inits[i].pc = "starting" /\ Spend("faults") /\ manual' = manual /\ key' = key
    BY <1>4 DEF StartFails
  <2>3. /\ budget' \in BudgetTypes
        /\ budget'.logins = budget.logins /\ budget'.logouts = budget.logouts
    BY <2>2, Spent
  <2>4. id \in Ids
    BY <1>2
  <2>5. QED
    BY <2>1, <2>2, <2>3, <2>4, ResumedRunsOK
<1>5. QED
  BY <1>3, <1>4

LEMMA LoadedRuns ==
  ASSUME RunsInv, NEW i \in DOMAIN inits, Loaded(i)
  PROVE  RunsInv'
<1>0. TypeOK
  BY DEF RunsInv
<1>1. PICK p \in Pages, runs \in Seq(Inits) : IsLoaded(p, runs, i)
  BY <1>0, LoadedIs
<1> USE DEF RunsInv, IsLoaded
<1> DEFINE renewed == IF SetsWallets(i) THEN {"wallets"} ELSE {}
<1>2. /\ inits[i].pc = "listed" /\ manual' = manual /\ key' = key /\ budget' = budget
      /\ i \in 1 .. Len(inits) /\ Len(inits) \in Nat /\ Len(inits) # 0
  BY DEF Loaded, TypeOK
<1>3. ~Reruns(p, renewed)
  BY <1>1 DEF Reruns
<1>4. Len(inits) + (IF Reruns(p, renewed) THEN 1 ELSE 0) + Left(budget', p.user) <= MaxInits
  <2>1. Left(budget', p.user) = Left(budget, page.user)
    BY <1>1, <1>2 DEF Left
  <2>2. Left(budget, page.user) \in Int
    BY Bounds DEF BudgetTypes, Left
  <2>3. QED
    BY <1>2, <1>3, <2>1, <2>2 DEF Paid
<1>5. RunsOK(runs, page.creds)
  <2>1. ASSUME NEW j \in 1 .. Len(inits)
        PROVE  /\ runs[j].pc = "starting" => runs[j].sidecar = "building"
               /\ j < Len(inits) =>
                    /\ runs[j].cancelled # "no"
                    /\ runs[j].sidecar \in {"building", "running"} => runs[j].cancelled = "starting"
               /\ runs[j].cancelled = "no" => runs[j].creds = page.creds
    <3>1. CASE j = i
      BY <1>1, <1>2, <3>1 DEF RunsOK
    <3>2. CASE j # i
      BY <1>1, <1>2, <3>2 DEF RunsOK
    <3>3. QED
      BY <3>1, <3>2
  <2>2. QED
    BY <1>1, <2>1 DEF RunsOK
<1>6. key' \in [Keys -> KeyRecords] /\ KeysOK' /\ LoadsOK(inits, key')
  BY <1>2, SameKeys
<1>7. LoadsOK(runs, key')
  <2>1. ASSUME NEW j \in 1 .. Len(inits), NEW k \in runs[j].loaded
        PROVE  key'[k].share # NoShare /\ key'[k].creds = runs[j].creds
    <3>1. CASE j = i
      BY <1>1, <3>1
    <3>2. CASE j # i
      BY <1>1, <1>6, <3>2 DEF LoadsOK
    <3>3. QED
      BY <3>1, <3>2
  <2>2. QED
    BY <1>1, <2>1 DEF LoadsOK
<1>8. /\ p.jwt = "held" => p.user \in Users /\ p.creds = p.user
      /\ p.jwt # "held" => saved = NoUser
  BY <1>1 DEF PageOK
<1>9. ASSUME Len(inits) = 1, ~Reruns(p, renewed)
      PROVE  /\ runs[1].cancelled = "no"
             /\ runs[1].pc = "starting" => ~p.ready
             /\ runs[1].pc # "starting" /\ runs[1].sidecar = "running" =>
                  /\ p.sidecarId = Db(runs[1].user)
                  /\ SameMemo(p, ctx.page) => ctx.sidecar = 1 /\ ctx.page.sidecarId = p.sidecarId
  <2>1. i = 1
    BY <1>2, <1>9
  <2>2. FirstOK(inits[1], page, ctx) /\ inits[1].pc # "starting"
    BY <1>2, <1>9, <2>1 DEF First
  <2>3. QED
    BY <1>1, <2>1, <2>2 DEF FirstOK
<1>10. inits \in Seq(Inits) /\ saved \in Users \cup {NoUser}
  BY DEF TypeOK
<1>11. p.creds = NoCreds => page.creds = NoCreds
  BY <1>1
<1>12. Commit(p, runs, saved, renewed) /\ Len(runs) = Len(inits)
  BY <1>1
<1>13. runs[Len(inits)].user = inits[Len(inits)].user
  BY <1>1, <1>2
<1> HIDE DEF renewed
<1>14. QED
  BY <1>1, <1>2, <1>4, <1>5, <1>6, <1>7, <1>8, <1>9, <1>10, <1>11, <1>12, <1>13, CommitKeeps

(* The list of an account's keys arrives, or does not.                     *)
LEMMA RunListed ==
  ASSUME RunsInv, NEW i \in DOMAIN inits, NEW c \in {"listed", "over"}, NEW ks \in SUBSET Keys,
         inits[i].pc = "listing",
         inits' = [inits EXCEPT ![i] = [inits[i] EXCEPT !.pc = c, !.loaded = ks]],
         \A k \in ks : key[k].share # NoShare /\ key[k].creds = inits[i].creds,
         budget' \in BudgetTypes, budget'.logins = budget.logins, budget'.logouts = budget.logouts,
         UNCHANGED <<manual, page, ctx, saved, key>>
  PROVE  RunsInv'
<1> DEFINE y == [inits[i] EXCEPT !.pc = c, !.loaded = ks]
<1>1. inits \in Seq(Inits) /\ inits[i] \in Inits /\ i \in 1 .. Len(inits)
  BY DEF RunsInv, TypeOK
<1>2. /\ y \in Inits /\ y.pc = c /\ y.loaded = ks /\ y.cancelled = inits[i].cancelled
      /\ y.user = inits[i].user /\ y.creds = inits[i].creds /\ y.sidecar = inits[i].sidecar
  BY <1>1 DEF Inits
<1> HIDE DEF y
<1> USE DEF RunsInv
<1>3. inits' = [inits EXCEPT ![i] = y]
  BY DEF y
<1>4. /\ inits' \in Seq(Inits) /\ Len(inits') = Len(inits) /\ inits'[i] = y
      /\ \A j \in 1 .. Len(inits) : j # i => inits'[j] = inits[j]
  BY <1>1, <1>2, <1>3, RunUpdated
<1>5. TypeOK' /\ KeysOK'
  BY <1>4 DEF TypeOK, KeysOK
<1>6. Paid'
  BY <1>4 DEF Paid, Left
<1>7. RunsOK(inits', page.creds)
  <2>1. ASSUME NEW j \in 1 .. Len(inits)
        PROVE  /\ inits'[j].pc = "starting" => inits'[j].sidecar = "building"
               /\ j < Len(inits) =>
                    /\ inits'[j].cancelled # "no"
                    /\ inits'[j].sidecar \in {"building", "running"} =>
                         inits'[j].cancelled = "starting"
               /\ inits'[j].cancelled = "no" => inits'[j].creds = page.creds
    <3>1. CASE j = i
      BY <1>2, <1>4, <3>1 DEF RunsOK
    <3>2. CASE j # i
      BY <1>4, <3>2 DEF RunsOK
    <3>3. QED
      BY <3>1, <3>2
  <2>2. QED
    BY <1>4, <2>1 DEF RunsOK
<1>8. LoadsOK(inits', key)
  <2>1. ASSUME NEW j \in 1 .. Len(inits), NEW k \in inits'[j].loaded
        PROVE  key[k].share # NoShare /\ key[k].creds = inits'[j].creds
    <3>1. CASE j = i
      BY <1>2, <1>4, <3>1
    <3>2. CASE j # i
      BY <1>4, <3>2 DEF LoadsOK
    <3>3. QED
      BY <3>1, <3>2
  <2>2. QED
    BY <1>4, <2>1 DEF LoadsOK
<1>9. PageOK'
  BY <1>4 DEF PageOK, SameMemo
<1>10. First'
  <2> SUFFICES ASSUME Len(inits') = 1
               PROVE  FirstOK(inits'[1], page, ctx)
    BY DEF First
  <2>1. i = 1 /\ FirstOK(inits[1], page, ctx)
    BY <1>1, <1>4 DEF First
  <2>2. QED
    BY <1>2, <1>4, <2>1 DEF FirstOK
<1>11. QED
  BY <1>5, <1>6, <1>7, <1>8, <1>9, <1>10

LEMMA ListingRuns ==
  ASSUME RunsInv, NEW i \in DOMAIN inits, KeysListed(i) \/ ListFails(i)
  PROVE  RunsInv'
<1> USE DEF RunsInv
<1>1. inits \in Seq(Inits) /\ inits[i] \in Inits
  BY DEF TypeOK
<1>2. CASE KeysListed(i)
  <2> DEFINE ks == {k \in Keys : key[k].share # NoShare /\ key[k].creds = inits[i].creds}
  <2>1. inits' = [inits EXCEPT ![i] = [inits[i] EXCEPT !.pc = "listed", !.loaded = ks]]
    BY <1>1, <1>2 DEF KeysListed
  <2>2. /\ inits[i].pc = "listing" /\ budget' = budget
        /\ UNCHANGED <<manual, page, ctx, saved, key>>
    BY <1>2 DEF KeysListed
  <2>3. /\ ks \in SUBSET Keys
        /\ \A k \in ks : key[k].share # NoShare /\ key[k].creds = inits[i].creds
    OBVIOUS
  <2> HIDE DEF ks
  <2>4. /\ budget' \in BudgetTypes
        /\ budget'.logins = budget.logins /\ budget'.logouts = budget.logouts
    BY <2>2
  <2>5. QED
    BY <2>1, <2>2, <2>3, <2>4, RunListed
<1>3. CASE ListFails(i)
  <2> DEFINE ks == inits[i].loaded
  <2>1. inits' = [inits EXCEPT ![i] = [inits[i] EXCEPT !.pc = "over", !.loaded = ks]]
    BY <1>1, <1>3 DEF ListFails, Inits
  <2>2. /\ inits[i].pc = "listing" /\ Spend("faults")
        /\ UNCHANGED <<manual, page, ctx, saved, key>>
    BY <1>3 DEF ListFails
  <2>3. ks \in SUBSET Keys
    BY <1>1 DEF Inits
  <2>4. \A k \in ks : key[k].share # NoShare /\ key[k].creds = inits[i].creds
    BY <1>1 DEF LoadsOK
  <2>5. /\ budget' \in BudgetTypes
        /\ budget'.logins = budget.logins /\ budget'.logouts = budget.logouts
    BY <2>2, Spent
  <2> HIDE DEF ks
  <2>6. QED
    BY <2>1, <2>2, <2>3, <2>4, <2>5, RunListed
<1>4. QED
  BY <1>2, <1>3

LEMMA LoadedKeys ==
  ASSUME TypeOK
  PROVE  \A j \in 1 .. Len(inits) : inits[j].loaded \in SUBSET Keys
<1>1. \A j \in 1 .. Len(inits) : inits[j] \in Inits
  BY DEF TypeOK
<1>2. \A x \in Inits : x.loaded \in SUBSET Keys
  BY DEF Inits
<1>3. QED
  BY <1>1, <1>2

(* A step of createWallet or of the server: nothing of the page changes.   *)
LEMMA KeyStep ==
  ASSUME RunsInv, UNCHANGED <<manual, page, ctx, inits, saved, budget>>,
         key' \in [Keys -> KeyRecords], KeysOK',
         \A k \in Keys : key[k].share # NoShare =>
                            key'[k].share # NoShare /\ key'[k].creds = key[k].creds
  PROVE  RunsInv'
<1> USE DEF RunsInv
<1>1. TypeOK' /\ Paid' /\ PageOK' /\ First' /\ RunsOK(inits', page'.creds)
  BY DEF TypeOK, Paid, PageOK, First
<1>2. \A j \in 1 .. Len(inits) : inits[j].loaded \in SUBSET Keys
  BY LoadedKeys
<1>3. LoadsOK(inits', key')
  BY <1>2 DEF LoadsOK
<1>4. QED
  BY <1>1, <1>3

LEMMA CreateWalletIs ==
  ASSUME RunsInv, NEW k \in Keys, CreateWallet(k)
  PROVE  /\ key' \in [Keys -> KeyRecords]
         /\ key'[k].pc = "waiting" /\ key'[k].share = NoShare
         /\ key'[k].owner = page.user /\ key'[k].party = ctx.page.sidecarId
         /\ key'[k].steady = Steady
         /\ \A j \in Keys : j # k => key'[j] = key[j]
<1> DEFINE x == [FreeKey EXCEPT !.pc = "waiting", !.owner = ctx.page.user,
                               !.creds = ctx.page.creds, !.party = ctx.page.sidecarId,
                               !.steady = Steady]
<1>1. ctx.page \in Pages /\ key \in [Keys -> KeyRecords] /\ ctx.page.user = page.user
  BY DEF RunsInv, TypeOK, PageOK, SameMemo
<1>2. key' = [key EXCEPT ![k] = x]
  BY DEF CreateWallet
<1>3. /\ x \in KeyRecords /\ x.pc = "waiting" /\ x.share = NoShare /\ x.owner = ctx.page.user
      /\ x.party = ctx.page.sidecarId /\ x.steady = Steady
  <2>1. Steady \in BOOLEAN
    BY DEF Steady
  <2>2. QED
    BY <1>1, <2>1 DEF FreeKey, KeyRecords, Pages
<1> HIDE DEF x
<1>4. QED
  BY <1>1, <1>2, <1>3

LEMMA ShareReadyIs ==
  ASSUME TypeOK, NEW k \in Keys, KeyShareReady(k)
  PROVE  \E i \in DOMAIN inits :
           /\ inits[i].sidecar = "running" /\ key[k].party \in {NoId, Db(inits[i].user)}
           /\ key' \in [Keys -> KeyRecords]
           /\ key'[k].share = Db(inits[i].user)
           /\ key'[k].pc = key[k].pc /\ key'[k].pc # "free"
           /\ key'[k].owner = key[k].owner /\ key'[k].creds = key[k].creds
           /\ key'[k].party = key[k].party /\ key'[k].steady = key[k].steady
           /\ key[k].share = NoShare
           /\ \A j \in Keys : j # k => key'[j] = key[j]
<1>1. PICK i \in DOMAIN inits :
        /\ inits[i].sidecar = "running"
        /\ key[k].party \in {NoId, Db(inits[i].user)}
        /\ key' = [key EXCEPT ![k].share = Db(inits[i].user)]
  BY DEF KeyShareReady
<1>2. inits[i] \in Inits /\ key \in [Keys -> KeyRecords] /\ key[k] \in KeyRecords
  BY DEF TypeOK
<1> DEFINE db == Db(inits[i].user)
           x == [key[k] EXCEPT !.share = db]
<1>3. db \in Dbs
  BY <1>2, DbTypes DEF Inits
<1>4. /\ x \in KeyRecords /\ x.share = db /\ x.pc = key[k].pc
      /\ x.owner = key[k].owner /\ x.creds = key[k].creds
      /\ x.party = key[k].party /\ x.steady = key[k].steady
  BY <1>2, <1>3 DEF KeyRecords
<1>5. key' = [key EXCEPT ![k] = x]
  BY <1>1, <1>2
<1> HIDE DEF x
<1>6. /\ key' \in [Keys -> KeyRecords] /\ key'[k] = x
      /\ \A j \in Keys : j # k => key'[j] = key[j]
  BY <1>2, <1>4, <1>5
<1>7. key[k].pc # "free" /\ key[k].share = NoShare
  BY DEF KeyShareReady
<1>8. QED
  BY <1>1, <1>4, <1>6, <1>7

LEMMA KeyRuns ==
  ASSUME RunsInv, NEW k \in Keys, CreateWallet(k) \/ KeyShareReady(k) \/ TimedOut(k)
  PROVE  RunsInv'
<1>0. TypeOK /\ KeysOK /\ key \in [Keys -> KeyRecords]
  BY DEF RunsInv, TypeOK
<1>1. CASE CreateWallet(k)
  <2>1. key[k].share = NoShare
    BY <1>0, <1>1 DEF CreateWallet, KeysOK
  <2>2. /\ key' \in [Keys -> KeyRecords] /\ key'[k].pc = "waiting" /\ key'[k].share = NoShare
        /\ \A j \in Keys : j # k => key'[j] = key[j]
    BY <1>1, CreateWalletIs
  <2>3. KeysOK'
    BY <1>0, <2>2 DEF KeysOK
  <2>4. UNCHANGED <<manual, page, ctx, inits, saved, budget>>
    BY <1>1 DEF CreateWallet
  <2>5. QED
    BY <2>1, <2>2, <2>3, <2>4, KeyStep
<1>2. CASE KeyShareReady(k)
  <2>1. /\ key' \in [Keys -> KeyRecords] /\ key'[k].pc # "free"
        /\ key[k].share = NoShare
        /\ \A j \in Keys : j # k => key'[j] = key[j]
    BY <1>0, <1>2, ShareReadyIs
  <2>2. KeysOK'
    BY <1>0, <2>1 DEF KeysOK
  <2>3. UNCHANGED <<manual, page, ctx, inits, saved, budget>>
    BY <1>2 DEF KeyShareReady
  <2>4. QED
    BY <2>1, <2>2, <2>3, KeyStep
<1>3. CASE TimedOut(k)
  <2>1. /\ key' \in [Keys -> KeyRecords]
        /\ \A j \in Keys : /\ key'[j].owner = key[j].owner /\ key'[j].creds = key[j].creds
                            /\ key'[j].share = key[j].share
                            /\ key'[j].pc \in {key[j].pc, "timed out"}
    BY <1>0, <1>3, KeyMoves DEF TimedOut
  <2>2. KeysOK'
    BY <1>0, <2>1 DEF KeysOK
  <2>3. UNCHANGED <<manual, page, ctx, inits, saved, budget>>
    BY <1>3 DEF TimedOut
  <2>4. QED
    BY <2>1, <2>2, <2>3, KeyStep
<1>4. QED
  BY <1>1, <1>2, <1>3

LEMMA RegisterRuns ==
  ASSUME RunsInv, NEW k \in Keys, RegisterWallet(k)
  PROVE  RunsInv'
<1> USE DEF RunsInv
<1>1. PICK p \in Pages :
        /\ Commit(p, inits, saved, {})
        /\ p.user = page.user /\ p.creds = page.creds /\ p.jwt = page.jwt
        /\ p.ready = page.ready /\ p.sidecarId = page.sidecarId
        /\ p.wallets = page.wallets \cup {k}
  BY RegisterIs
<1>2. /\ key' = [key EXCEPT ![k].pc = "registered"]
      /\ manual' = manual /\ budget' = budget
  BY DEF RegisterWallet, WithWallet
<1>3. /\ key' \in [Keys -> KeyRecords]
      /\ \A j \in Keys : /\ key'[j].creds = key[j].creds /\ key'[j].share = key[j].share
                          /\ key'[j].pc \in {key[j].pc, "registered"}
  BY <1>2, KeyMoves DEF TypeOK
<1>4. KeysOK'
  BY <1>3 DEF KeysOK
<1>5. \A j \in 1 .. Len(inits) : inits[j].loaded \in SUBSET Keys
  BY LoadedKeys
<1>6. LoadsOK(inits, key')
  BY <1>3, <1>5 DEF LoadsOK
<1>7. ~Reruns(p, {})
  BY <1>1 DEF Reruns
<1>8. Len(inits) + (IF Reruns(p, {}) THEN 1 ELSE 0) + Left(budget', p.user) <= MaxInits
  <2>1. Left(budget', p.user) = Left(budget, page.user)
    BY <1>1, <1>2 DEF Left
  <2>2. Left(budget, page.user) \in Int /\ Len(inits) \in Nat
    BY Bounds DEF BudgetTypes, Left, TypeOK
  <2>3. QED
    BY <1>7, <2>1, <2>2 DEF Paid
<1>9. ASSUME Len(inits) = 1, ~Reruns(p, {})
      PROVE  /\ inits[1].cancelled = "no"
             /\ inits[1].pc = "starting" => ~p.ready
             /\ inits[1].pc # "starting" /\ inits[1].sidecar = "running" =>
                  /\ p.sidecarId = Db(inits[1].user)
                  /\ SameMemo(p, ctx.page) => ctx.sidecar = 1 /\ ctx.page.sidecarId = p.sidecarId
  BY <1>1, <1>9 DEF First, FirstOK
<1>10. inits \in Seq(Inits) /\ saved \in Users \cup {NoUser}
  BY DEF TypeOK
<1>11. /\ p.jwt = "held" => p.user \in Users /\ p.creds = p.user
       /\ p.jwt # "held" => saved = NoUser
  BY <1>1 DEF PageOK
<1>12. QED
  BY <1>1, <1>2, <1>3, <1>4, <1>6, <1>8, <1>9, <1>10, <1>11, CommitKeeps

LEMMA RunsStep == ASSUME RunsInv, [Next]_vars PROVE RunsInv'
<1>1. CASE \E i \in DOMAIN inits :
             SidecarStarted(i) \/ StartFails(i) \/ KeysListed(i) \/ ListFails(i) \/ Loaded(i)
  BY <1>1, StartedRuns, ListingRuns, LoadedRuns
<1>2. CASE \E u \in Users : Login(u)
  BY <1>2, LoginRuns
<1>3. CASE Logout
  BY <1>3, LogoutRuns
<1>4. CASE Reload
  BY <1>4, ReloadRuns
<1>5. CASE \E k \in Keys :
             CreateWallet(k) \/ KeyShareReady(k) \/ RegisterWallet(k) \/ TimedOut(k)
  BY <1>5, KeyRuns, RegisterRuns
<1>6. CASE UNCHANGED vars
  BY <1>6 DEF vars, RunsInv, TypeOK, Paid, KeysOK, PageOK, First
<1>7. QED
  BY <1>1, <1>2, <1>3, <1>4, <1>5, <1>6 DEF Next

LEMMA RunsHold == Spec => []RunsInv
BY RunsInit, RunsStep, PTL DEF Spec

(* The page, the context, the effect runs and the keys keep their types,   *)
(* and a page builds no more sidecars than two and one for every login and *)
(* two for every logout (provider.tsx:208-219, effect dependencies).       *)
THEOREM TypeCorrect == Spec => []TypeOK
<1>1. RunsInv => TypeOK
  BY DEF RunsInv
<1>2. QED
  BY <1>1, RunsHold, PTL

(* A sidecar that a later effect superseded runs on only if its start was  *)
(* under way when it was cleaned up (provider.tsx:400-403).                *)
THEOREM OnlyLeakedRunOn == Spec => []OnlyLeakedSidecarsRunOn
<1>1. ASSUME RunsInv PROVE OnlyLeakedSidecarsRunOn
  <2>1. DOMAIN inits = 1 .. Len(inits)
    BY <1>1 DEF RunsInv, TypeOK
  <2>2. QED
    BY <1>1, <2>1 DEF RunsInv, RunsOK, OnlyLeakedSidecarsRunOn
<1>2. QED
  BY <1>1, RunsHold, PTL

(* As long as a page's effect has run once, its context names the sidecar  *)
(* that runs, whatever was loaded, logged out or created meanwhile.        *)
THEOREM FirstContext == Spec => []FirstContextIsCurrent
<1>1. ASSUME RunsInv PROVE FirstContextIsCurrent
  <2> SUFFICES ASSUME Settled, Len(inits) = 1
               PROVE  ContextIsCurrent
    BY DEF FirstContextIsCurrent
  <2>1. FirstOK(inits[1], page, ctx)
    BY <1>1 DEF RunsInv, First
  <2>2. QED
    BY <2>1 DEF Settled, FirstOK, ContextIsCurrent
<1>2. QED
  BY <1>1, RunsHold, PTL

-------------------------------------------------------------------------------
(* Lists that arrive late.                                                 *)
NoForeignNow ==
  \A k \in Keys : k \in page'.wallets \ page.wallets =>
    key[k].pc = "waiting" \/ key[k].creds = page'.creds

LEMMA SameWallets ==
  ASSUME page'.wallets = page.wallets \/ page'.wallets = {}
  PROVE  NoForeignNow
BY DEF NoForeignNow

LEMMA NoForeignStep == ASSUME RunsInv, [Next]_vars PROVE NoForeignNow
<1>0. /\ TypeOK /\ RunsOK(inits, page.creds) /\ LoadsOK(inits, key)
      /\ DOMAIN inits = 1 .. Len(inits)
  BY DEF RunsInv, TypeOK
<1>1. ASSUME NEW i \in DOMAIN inits, NEW state \in {"running", "failed"}, NEW id \in Ids,
             Resumed(i, state, id)
      PROVE  NoForeignNow
  <2>1. PICK p \in Pages, runs \in Seq(Inits) : IsResumed(p, runs, i, state, id)
    BY <1>0, <1>1, ResumedIs
  <2>2. page' = p /\ p.wallets = page.wallets
    BY <2>1, CommitRuns DEF IsResumed
  <2>3. QED
    BY <2>2, SameWallets
<1>2. ASSUME NEW i \in DOMAIN inits, SidecarStarted(i) \/ StartFails(i)
      PROVE  NoForeignNow
  <2>1. Db(inits[i].user) \in Ids /\ Unknown \in Ids
    <3>1. inits[i] \in Inits
      BY <1>0 DEF TypeOK
    <3>2. QED
      BY <3>1, DbTypes DEF Inits
  <2>2. QED
    BY <1>1, <1>2, <2>1 DEF SidecarStarted, StartFails
<1>3. ASSUME NEW i \in DOMAIN inits, Loaded(i)
      PROVE  NoForeignNow
  <2>1. PICK p \in Pages, runs \in Seq(Inits) : IsLoaded(p, runs, i)
    BY <1>0, <1>3, LoadedIs
  <2>2. /\ page' = p /\ p.creds = page.creds
        /\ p.wallets = IF SetsWallets(i) THEN inits[i].loaded ELSE page.wallets
    BY <2>1, CommitRuns DEF IsLoaded
  <2>3. CASE SetsWallets(i)
    <3>1. inits[i].creds = page.creds
      BY <1>0, <2>3 DEF SetsWallets, RunsOK
    <3>2. \A k \in inits[i].loaded : key[k].creds = page.creds
      BY <1>0, <3>1 DEF LoadsOK
    <3>3. QED
      BY <2>2, <2>3, <3>2 DEF NoForeignNow
  <2>4. CASE ~SetsWallets(i)
    BY <2>2, <2>4, SameWallets
  <2>5. QED
    BY <2>3, <2>4
<1>4. ASSUME NEW u \in Users, Login(u)
      PROVE  NoForeignNow
  <2>1. PICK p \in Pages, newKey \in SUBSET {"access key"} :
          Commit(p, inits, saved, {"user"} \cup newKey) /\ p.wallets = page.wallets
    BY <1>0, <1>4, LoginIs
  <2>2. inits \in Seq(Inits)
    BY <1>0 DEF TypeOK
  <2>3. QED
    BY <2>1, <2>2, CommitRuns, SameWallets
<1>5. CASE Logout
  <2>1. PICK p \in Pages, runs \in Seq(Inits) :
          Commit(p, runs, NoUser, {}) /\ p.wallets = page.wallets
    BY <1>0, <1>5, LogoutIs
  <2>2. QED
    BY <2>1, CommitRuns, SameWallets
<1>6. CASE Reload
  <2>1. page' = FreshPage(manual, saved)
    BY <1>6 DEF Reload
  <2>2. page'.wallets = {}
    BY <2>1 DEF FreshPage
  <2>3. QED
    BY <2>2, SameWallets
<1>7. ASSUME NEW k \in Keys, RegisterWallet(k)
      PROVE  NoForeignNow
  <2>1. PICK p \in Pages : Commit(p, inits, saved, {}) /\ p.wallets = page.wallets \cup {k}
    BY <1>0, <1>7, RegisterIs
  <2>2. inits \in Seq(Inits) /\ key[k].pc = "waiting"
    BY <1>0, <1>7 DEF TypeOK, RegisterWallet, WithWallet
  <2>3. page' = p
    BY <2>1, <2>2, CommitRuns
  <2>4. QED
    BY <2>1, <2>2, <2>3 DEF NoForeignNow
<1>8. ASSUME page' = page
      PROVE  NoForeignNow
  BY <1>8, SameWallets
<1>9. QED
  BY <1>2, <1>3, <1>4, <1>5, <1>6, <1>7, <1>8
  DEF Next, vars, KeysListed, ListFails, CreateWallet, KeyShareReady, TimedOut

(* A wallet that nobody waits for appears only among those of the account  *)
(* in use, however late the list of another account arrives                *)
(* (provider.tsx:376-392, init's checks of cancelled).                     *)
THEOREM NoForeignWallets == Spec => NoForeignWalletsLoaded
<1>1. RunsInv /\ [Next]_vars => [NoForeignNow]_vars
  BY NoForeignStep
<1>2. [][NoForeignNow]_vars => NoForeignWalletsLoaded
  BY PTL DEF NoForeignWalletsLoaded, NoForeignNow
<1>3. QED
  BY <1>1, <1>2, RunsHold, PTL DEF Spec

-------------------------------------------------------------------------------
(* The session that a reload restores is the page's: nothing that is still *)
(* going on after a logout saves one again (usePrivy.ts:156-164,           *)
(* provider.tsx:182-187).                                                  *)
THEOREM SavedSession == Spec => []SavedSessionIsCurrent
<1>1. ASSUME RunsInv PROVE SavedSessionIsCurrent
  BY <1>1 DEF RunsInv, PageOK, SavedSessionIsCurrent
<1>2. QED
  BY <1>1, RunsHold, PTL

-------------------------------------------------------------------------------
(* Shares.  The key of a user who created it while the page was steady     *)
(* names the sidecar of the user's own database a participant.             *)
OwnersOK ==
  \A k \in Keys : key[k].owner \in Users /\ key[k].steady =>
    key[k].party = key[k].owner /\ key[k].share \in {NoShare, key[k].owner}

LEMMA DbOfUser == ASSUME NEW u \in Users PROVE Db(u) = u
<1>1. NoUser \notin Users
  BY SynthesizedTypes
<1>2. QED
  BY <1>1 DEF Db

(* Steady: the context names the sidecar of the page's user.               *)
LEMMA SteadyNames ==
  ASSUME RunsInv, Steady
  PROVE  ctx.page.sidecarId = Db(page.user)
<1>1. /\ Len(inits) \in Nat /\ Len(inits) # 0
      /\ inits[Len(inits)].user = page.user
  BY DEF RunsInv, TypeOK, PageOK, Steady, Settled
<1>2. CASE Len(inits) = 1
  <2>1. FirstOK(inits[1], page, ctx)
    BY <1>2 DEF RunsInv, First
  <2>2. QED
    BY <1>1, <1>2, <2>1 DEF FirstOK, Steady, Settled
<1>3. CASE ContextIsCurrent
  BY <1>1, <1>3 DEF ContextIsCurrent
<1>4. QED
  BY <1>2, <1>3 DEF Steady

LEMMA SameOwners ==
  ASSUME OwnersOK,
         \A k \in Keys : /\ key'[k].owner = key[k].owner /\ key'[k].party = key[k].party
                         /\ key'[k].steady = key[k].steady /\ key'[k].share = key[k].share
  PROVE  OwnersOK'
BY DEF OwnersOK

LEMMA OwnersStep == ASSUME RunsInv, OwnersOK, [Next]_vars PROVE OwnersOK'
<1>0. TypeOK /\ key \in [Keys -> KeyRecords] /\ DOMAIN inits = 1 .. Len(inits)
  BY DEF RunsInv, TypeOK
<1>1. ASSUME NEW k \in Keys, CreateWallet(k)
      PROVE  OwnersOK'
  <2>1. /\ key'[k].share = NoShare /\ key'[k].owner = page.user
        /\ key'[k].party = ctx.page.sidecarId /\ key'[k].steady = Steady
        /\ \A j \in Keys : j # k => key'[j] = key[j]
    BY <1>1, CreateWalletIs
  <2>2. page.user \in Users /\ Steady => ctx.page.sidecarId = page.user
    BY SteadyNames, DbOfUser
  <2>3. QED
    BY <2>1, <2>2 DEF OwnersOK
<1>2. ASSUME NEW k \in Keys, KeyShareReady(k)
      PROVE  OwnersOK'
  <2>1. PICK i \in DOMAIN inits :
          /\ key[k].party \in {NoId, Db(inits[i].user)}
          /\ key'[k].share = Db(inits[i].user) /\ key'[k].owner = key[k].owner
          /\ key'[k].party = key[k].party /\ key'[k].steady = key[k].steady
          /\ \A j \in Keys : j # k => key'[j] = key[j]
    BY <1>0, <1>2, ShareReadyIs
  <2>2. NoId \notin Users
    BY UsersAssumption DEF NoId
  <2>3. QED
    BY <2>1, <2>2 DEF OwnersOK
<1>3. ASSUME NEW k \in Keys, RegisterWallet(k) \/ TimedOut(k)
      PROVE  OwnersOK'
  <2>1. \/ key' = [key EXCEPT ![k].pc = "registered"]
        \/ key' = [key EXCEPT ![k].pc = "timed out"]
    BY <1>3 DEF RegisterWallet, TimedOut
  <2>2. QED
    BY <1>0, <2>1, KeyMoves, SameOwners
<1>4. CASE Reload
  <2>1. key' = [k \in Keys |-> [key[k] EXCEPT !.pc = IF @ = "waiting" THEN "gone" ELSE @]]
    BY <1>4 DEF Reload
  <2>2. \A k \in Keys : /\ key'[k].owner = key[k].owner /\ key'[k].party = key[k].party
                        /\ key'[k].steady = key[k].steady /\ key'[k].share = key[k].share
    BY <1>0, <2>1 DEF KeyRecords
  <2>3. QED
    BY <2>2, SameOwners
<1>5. CASE key' = key
  BY <1>5, SameOwners
<1>6. QED
  BY <1>1, <1>2, <1>3, <1>4, <1>5
  DEF Next, vars, SidecarStarted, StartFails, KeysListed, ListFails, Loaded, Login, Logout,
      LoggedOut

(* A key that a user created while the page was steady gets its share in   *)
(* the database that this user's pages open (provider.tsx:215), whoever    *)
(* logs in or out before the DKG ends, however often the page is loaded,   *)
(* whatever fails to start and whichever runs are still going on.          *)
THEOREM SharesReach == Spec => []SharesReachOwner
<1>1. OwnersOK => SharesReachOwner
  BY DEF OwnersOK, SharesReachOwner
<1>2. Init => OwnersOK
  <2>1. NoUser \notin Users
    BY SynthesizedTypes
  <2>2. QED
    BY <2>1 DEF Init, OwnersOK, FreeKey
<1>3. RunsInv /\ OwnersOK /\ [Next]_vars => OwnersOK'
  BY OwnersStep
<1>4. QED
  BY <1>1, <1>2, <1>3, RunsHold, PTL DEF Spec

===============================================================================
