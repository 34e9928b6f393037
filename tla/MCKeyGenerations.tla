--------------------------- MODULE MCKeyGenerations ---------------------------
(***************************************************************************)
(* The key generations behind WASM for TLC: SessionDkg and RsaKeyGen.  A   *)
(* task is of the one or of the other; they share no variable, and every   *)
(* property reads those of one of them only.  So it is enough that a       *)
(* behaviour is one of the first or one of the second, and their steps are *)
(* not interleaved.                                                        *)
(***************************************************************************)
EXTENDS SessionDkg, TLC

CONSTANTS
  Dealer, P, Q, E, Garbage,  \* of RsaKeyGen
  RsaRounds, RsaFaults       \* its LastRound and MaxFaults

VARIABLES
  part,  \* the one that takes its steps
  rsaRound, rsaInbox, rsaContribs, rsaDone, rsaPc, rsaSnap, rsaOut, rsaSubmitted,
  rsaFaults, rsaRestarts, rsaSess, rsaInited, rsaCompleted, rsaStore, rsaDraws

rsaVars ==
  <<rsaRound, rsaInbox, rsaContribs, rsaDone, rsaPc, rsaSnap, rsaOut, rsaSubmitted,
    rsaFaults, rsaRestarts, rsaSess, rsaInited, rsaCompleted, rsaStore, rsaDraws>>

(* What a decryption under the wrong Paillier key is taken to give.        *)
AnError == {-1, 1}

Rsa == INSTANCE RsaKeyGen WITH
  LastRound <- RsaRounds, MaxFaults <- RsaFaults,
  round <- rsaRound, inbox <- rsaInbox, contribs <- rsaContribs, done <- rsaDone,
  pc <- rsaPc, snap <- rsaSnap, out <- rsaOut, submitted <- rsaSubmitted,
  faults <- rsaFaults, restarts <- rsaRestarts, sess <- rsaSess, inited <- rsaInited,
  completed <- rsaCompleted, store <- rsaStore, draws <- rsaDraws

ASSUME InstanceAssumption == Rsa!DealerAssumption

PartInit ==
  /\ part \in {"sessions", "rsa"}
  /\ part = "rsa" => protocol = CHOOSE q \in Protocols : TRUE
  /\ Init /\ Rsa!Init

PartNext ==
  \/ part = "sessions" /\ Next /\ UNCHANGED <<part, rsaVars>>
  \/ part = "rsa" /\ Rsa!Next /\ UNCHANGED <<part, vars>>

PartSpec == PartInit /\ [][PartNext]_<<part, vars, rsaVars>>

(* Those of RsaKeyGen, where they are explained.                           *)
RsaAgreeOnKey == Rsa!AgreeOnKey
RsaStoredKeysWork == Rsa!StoredKeysWork
RsaInStep == Rsa!InStep

Symmetry == Permutations(Party \ {Dealer})

===============================================================================
