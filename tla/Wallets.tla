-------------------------------- MODULE Wallets --------------------------------
(***************************************************************************)
(* The wallets of an account, as the three clients create them and tell of *)
(* them later.                                                             *)
(*                                                                         *)
(* createWallet asks the server for a key, waits until its public key can  *)
(* be read, which is after the DKG, and derives the chain's address from   *)
(* it.  Nothing keeps the wallet but the key: the provider of the React    *)
(* package, when it loads, and the Node client's get and list find out     *)
(* from the key's spec or from its tags what chain and owner it is for,    *)
(* and derive the address again.  A call may throw after its key was made. *)
(*                                                                         *)
(* All clients use one account.  The server writes a public key in one of  *)
(* several forms.  The DKG and the server are external.                    *)
(***************************************************************************)
EXTENDS Naturals

CONSTANTS
  Keys,     \* bound: calls of createWallet, at most one key each
  Entries,  \* the functions the applications call
  Users,    \* the users of the applications, the owners of keys
  Forms     \* the forms in which the server writes a public key

Nobody == "undefined"
AllForms == {"der", "compressed", "uncompressed", "unprefixed", "unprefixed 0x30",
             "raw", "raw 0x30"}
AllEntries == {"react ethereum", "react solana", "solana hook", "cosmos hook", "sui hook",
               "stellar hook", "vanilla ethereum", "vanilla solana", "node ethereum",
               "node solana", "rpc"}

WalletsAssumption ==
  /\ Entries \subseteq AllEntries
  /\ Forms \subseteq AllForms /\ "der" \in Forms
  /\ Nobody \notin Users

VARIABLES
  call,  \* the calls: of what, for whom, and how far they are
  key,   \* server: the keys
  told   \* what the call and the clients have said of a key

vars == <<call, key, told>>

-------------------------------------------------------------------------------
(* CreateKey's request.  The tags chain_type and owner_id may be missing;  *)
(* without Participants and Threshold the server chooses the scheme.       *)

Secp256k1 == "ECC_SECG_P256K1"
Ed25519 == "ECC_ED25519"
P256 == "ECC_NIST_P256"
Ed448 == "ECC_ED448"

Request(spec, chainType, owner, scheme) ==
  [spec |-> spec, chainType |-> chainType, owner |-> owner, scheme |-> scheme]

KeySpecOf(chain) == IF chain = "solana" THEN Ed25519 ELSE Secp256k1

ReactWallet(chain, user) == Request(KeySpecOf(chain), chain, user, "configured")
SolanaHook(user) == Request(Ed25519, "solana", user, "configured")
CosmosHook == Request(Secp256k1, Nobody, Nobody, "server's")
SuiHook == Request(Ed25519, Nobody, Nobody, "server's")
StellarHook == Request(Ed25519, Nobody, Nobody, "server's")
VanillaWallet == Request(Secp256k1, Nobody, Nobody, "server's")
\* mutant: tags are sent for keys with an owner only
NodeWalletTagged(chain, owner) ==
  Request(KeySpecOf(chain), IF owner = Nobody THEN Nobody ELSE chain, owner, "server's")
NodeWallet(chain, owner) == Request(KeySpecOf(chain), chain, owner, "server's")

(* The requests that entry point e can send for user u.                    *)
Requests(e, u) ==
  CASE e = "react ethereum" -> {ReactWallet("ethereum", u)}
    [] e = "react solana" -> {ReactWallet("solana", u)}
    [] e = "solana hook" -> {SolanaHook(u)}
    [] e = "cosmos hook" -> {CosmosHook}
    [] e = "sui hook" -> {SuiHook}
    [] e = "stellar hook" -> {StellarHook}
    [] e = "vanilla ethereum" -> {VanillaWallet}
    [] e = "vanilla solana" -> {}
    [] e = "node ethereum" -> {NodeWallet("ethereum", u)}
    [] e = "node solana" -> {NodeWallet("solana", u)}
    [] e = "rpc" -> {Request(s, Nobody, Nobody, "server's") : s \in {P256, Ed448}}

ChainOf(e) ==
  CASE e \in {"react ethereum", "vanilla ethereum", "node ethereum"} -> "ethereum"
    [] e \in {"react solana", "solana hook", "vanilla solana", "node solana"} -> "solana"
    [] e = "cosmos hook" -> "cosmos"
    [] e = "sui hook" -> "sui"
    [] e = "stellar hook" -> "stellar"
    [] e = "rpc" -> "none"

-------------------------------------------------------------------------------
(* A public key, in a form; and the bytes in a DER envelope.  A raw key    *)
(* may begin with 0x30, the first byte of an envelope, and is none; that   *)
(* its further bytes fit an envelope too is left out (one in 2^24).        *)

OnWeierstrass == {Secp256k1, P256}
FormsOf(spec) ==
  Forms \cap (IF spec \in OnWeierstrass
              THEN {"der", "compressed", "uncompressed", "unprefixed", "unprefixed 0x30"}
              ELSE {"der", "raw", "raw 0x30"})

Thrown == "thrown"
StartsWith0x30(form) == form \in {"der", "unprefixed 0x30", "raw 0x30"}
\* mutant: the first byte decides
LooksDEREncoded(form) == StartsWith0x30(form)
IsDEREncoded(form) == form = "der"
RawKeyFromDER(spec, form) ==
  CASE form # "der" -> Thrown
    [] spec \in OnWeierstrass -> "uncompressed"
    [] OTHER -> "raw"

PointForms == {"compressed", "uncompressed", "unprefixed", "unprefixed 0x30"}
RawForms == {"raw", "raw 0x30"}
(* The keys that are not taken for 32 bytes: those of Ed448 have 57.       *)
Is32Bytes(spec, form) == form \in RawForms /\ spec = Ed25519

Stripped(spec, form) == IF IsDEREncoded(form) THEN RawKeyFromDER(spec, form) ELSE form

(* A point of P-256 passes for one of secp256k1, compressed in half of the *)
(* cases; the other half is left out.                                      *)
EvmAddress(spec, form) ==
  LET bytes == IF StartsWith0x30(form) THEN RawKeyFromDER(spec, form) ELSE form
  IN IF spec \in OnWeierstrass /\ bytes \in PointForms THEN "0x" ELSE Thrown
SolanaAddress(spec, form) ==
  IF Is32Bytes(spec, Stripped(spec, form)) THEN "base58" ELSE Thrown
CosmosAddress(spec, form) ==
  IF Stripped(spec, form) \in PointForms THEN "bech32" ELSE Thrown
SuiAddress(spec, form) ==
  IF Is32Bytes(spec, Stripped(spec, form)) THEN "blake2b" ELSE Thrown
StellarAddress(spec, form) ==
  IF Is32Bytes(spec, Stripped(spec, form)) THEN "StrKey" ELSE Thrown
Hex == "0x of the key"

(* What the entry point of a chain derives.                                *)
AddressOn(chain, spec, form) ==
  CASE chain = "ethereum" -> EvmAddress(spec, form)
    [] chain = "solana" -> SolanaAddress(spec, form)
    [] chain = "cosmos" -> CosmosAddress(spec, form)
    [] chain = "sui" -> SuiAddress(spec, form)
    [] chain = "stellar" -> StellarAddress(spec, form)
    [] chain = "none" -> Thrown

-------------------------------------------------------------------------------
Silent == [chain |-> Nobody, address |-> Nobody, owner |-> Nobody]
Tellers == {"call", "react", "node"}

Init ==
  /\ call = [k \in Keys |-> [entry |-> Nobody, user |-> Nobody, pc |-> "idle"]]
  /\ key = [k \in Keys |-> [state |-> "none", form |-> "der",
                            asked |-> Request(Nobody, Nobody, Nobody, Nobody)]]
  /\ told = [k \in Keys |-> [t \in Tellers |-> Silent]]

(* The client is ready, its sidecar has started: the request is on its way.*)
Create(k, e, u) ==
  /\ call[k].pc = "idle"
  /\ call' = [call EXCEPT ![k] = [entry |-> e, user |-> u, pc |-> "asking"]]
  /\ \E r \in Requests(e, u) :
       key' = [key EXCEPT ![k] = [@ EXCEPT !.state = "requested", !.asked = r]]
  /\ UNCHANGED told

(* The sidecar does not start, or the entry point is not supported.        *)
Refuse(k, e, u) ==
  /\ call[k].pc = "idle"
  /\ call' = [call EXCEPT ![k] = [entry |-> e, user |-> u, pc |-> "threw"]]
  /\ UNCHANGED <<key, told>>

KeyMade(k) ==
  /\ key[k].state = "requested"
  /\ key' = [key EXCEPT ![k].state = "pending"]
  /\ UNCHANGED <<call, told>>

DkgEnds(k) ==
  /\ key[k].state = "pending"
  /\ \E f \in FormsOf(key[k].asked.spec) :
       key' = [key EXCEPT ![k] = [@ EXCEPT !.state = "active", !.form = f]]
  /\ UNCHANGED <<call, told>>

(* CreateKey answers with the key's id: after the DKG by default, as soon  *)
(* as the task is there in async mode.                                     *)
Answered(k) ==
  /\ call[k].pc = "asking"
  /\ key[k].state \in {"pending", "active"}
  /\ call' = [call EXCEPT ![k].pc = "waiting"]
  /\ UNCHANGED <<key, told>>

(* The request is denied or its long connection cut; GetPublicKey fails    *)
(* until the deadline; the vanilla client cannot store its record.         *)
CallThrows(k) ==
  /\ call[k].pc \in {"asking", "waiting"}
  /\ call' = [call EXCEPT ![k].pc = "threw"]
  /\ UNCHANGED <<key, told>>

Tell(k, teller, chain, address, owner) ==
  told' = [told EXCEPT ![k][teller] =
             [chain |-> chain, address |-> address, owner |-> owner]]

(* waitForPublicKey reads the key, and the wallet is returned.             *)
WalletReturned(k) ==
  LET chain == ChainOf(call[k].entry)
      address == AddressOn(chain, key[k].asked.spec, key[k].form)
  IN /\ call[k].pc = "waiting" /\ key[k].state = "active"
     /\ call' = [call EXCEPT ![k].pc = IF address = Thrown THEN "threw" ELSE "returned"]
     /\ Tell(k, "call", chain, address, call[k].user)
     /\ UNCHANGED key

(* The provider loads: the spec says what a key is for.                    *)
LoadedBySpec(k) ==
  LET spec == key[k].asked.spec
      form == key[k].form
  IN /\ key[k].state = "active"
     /\ \/ /\ spec \in {Secp256k1, P256}
           /\ Tell(k, "react", "ethereum", EvmAddress(spec, form), Nobody)
        \/ /\ spec = Ed25519
           /\ Tell(k, "react", "solana", SolanaAddress(spec, form), Nobody)
        \/ /\ spec = Ed448
           /\ Tell(k, "react", spec, Hex, Nobody)
     /\ UNCHANGED <<call, key>>

(* wallets().get, for every key in list: the tags say what a key is for.   *)
TaggedChain(asked) == IF asked.chainType = Nobody THEN "ethereum" ELSE asked.chainType
DescribedByTags(k) ==
  LET asked == key[k].asked
      chain == TaggedChain(asked)
      address == IF chain = "solana" THEN SolanaAddress(asked.spec, key[k].form)
                 ELSE EvmAddress(asked.spec, key[k].form)
  IN /\ key[k].state = "active"
     /\ Tell(k, "node", chain, address, asked.owner)
     /\ UNCHANGED <<call, key>>

Next ==
  \E k \in Keys :
    \/ \E e \in Entries, u \in Users \cup {Nobody} : Create(k, e, u) \/ Refuse(k, e, u)
    \/ KeyMade(k) \/ DkgEnds(k)
    \/ Answered(k) \/ CallThrows(k) \/ WalletReturned(k)
    \/ LoadedBySpec(k) \/ DescribedByTags(k)

Spec == Init /\ [][Next]_vars

-------------------------------------------------------------------------------
Chains == {"ethereum", "solana", "cosmos", "sui", "stellar", "none"}
Names == Chains \cup {P256, Ed448, Nobody}
KeyRequests ==
  [spec : {Secp256k1, Ed25519, P256, Ed448, Nobody}, chainType : Chains \cup {Nobody},
   owner : Users \cup {Nobody}, scheme : {"configured", "server's", Nobody}]

TypeOK ==
  /\ call \in [Keys -> [entry : Entries \cup {Nobody}, user : Users \cup {Nobody},
                        pc : {"idle", "asking", "waiting", "returned", "threw"}]]
  /\ key \in [Keys -> [state : {"none", "requested", "pending", "active"},
                       form : Forms, asked : KeyRequests]]
  /\ told \in [Keys -> [Tellers -> [chain : Names, owner : Users \cup {Nobody},
                 address : {"0x", "base58", "bech32", "blake2b", "StrKey", Hex,
                            Thrown, Nobody}]]]

Told(k, t) == told[k][t] # Silent

(* types.ts:60, "What chain this wallet belongs to": whoever tells of a    *)
(* key, its own call or a client that never heard of that call, and also   *)
(* of a key whose call threw, names the chain the call was made for.       *)
OneChainPerWallet ==
  \A k \in Keys, t \in Tellers :
    Told(k, t) => told[k][t].chain = ChainOf(call[k].entry)

(* Two that tell of a key give the same address: the one that createWallet *)
(* returned is found again by the clients that only know the key.          *)
SameAddress ==
  \A k \in Keys : \A s, t \in Tellers :
    Told(k, s) /\ Told(k, t) => told[k][s].address = told[k][t].address

(* provider.tsx:386-388 and the Node client's list leave a key out when no *)
(* address can be derived: no finished wallet is left out.                 *)
NoWalletLeftOut ==
  \A k \in Keys, t \in Tellers : told[k][t].address # Thrown

(* useCreateWallet.ts:67, "Auto-tag with owner_id for per-user policy      *)
(* scoping": the Node client's record of a wallet that was created for a   *)
(* user names that user, and that of another names nobody.                 *)
OwnersAreKept ==
  \A k \in Keys : Told(k, "node") =>
    told[k]["node"].owner =
      IF call[k].entry = "vanilla ethereum" THEN Nobody ELSE call[k].user

(* All that is told of a key is one wallet, the one that was asked for.     *)
OneWallet == OneChainPerWallet /\ SameAddress /\ OwnersAreKept

(* README.md:101, "You can configure different schemes via the             *)
(* `participants` and `threshold` config options": the keys that the hooks *)
(* of the React package ask for are shared as configured.                  *)
SchemesAsConfigured ==
  \A k \in Keys :
    /\ call[k].entry \in {"react ethereum", "react solana", "solana hook", "cosmos hook",
                          "sui hook", "stellar hook"}
    /\ key[k].state = "active"
    => key[k].asked.scheme = "configured"

(* address.ts:81-83, evmAddressFromPublicKey "Accepts: 64-byte             *)
(* uncompressed without prefix".                                           *)
UnprefixedKeysAccepted ==
  \A k \in Keys, t \in Tellers :
    /\ key[k].asked.spec = Secp256k1 /\ key[k].form \in {"unprefixed", "unprefixed 0x30"}
    /\ told[k][t].chain = "ethereum"
    => told[k][t].address = "0x"

(* address.ts:79, "Derive an EVM (Ethereum) address from a secp256k1       *)
(* public key": a wallet with an Ethereum address is a secp256k1 key.      *)
EvmWalletsAreSecp256k1 ==
  \A k \in Keys, t \in Tellers :
    told[k][t].address = "0x" => key[k].asked.spec = Secp256k1

===============================================================================
