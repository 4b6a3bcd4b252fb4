------------------------------ MODULE CodeTrust ------------------------------
(***************************************************************************)
(* What the SMC guard of the StaticRecomp core promises, without its       *)
(* mechanism.  Native code was compiled once from the original text of a   *)
(* "chunk" of guest memory; the guest may rewrite that memory.  The guard  *)
(* keeps an opinion about each chunk and native code may run only in a     *)
(* chunk whose opinion is "verified".                                      *)
(*                                                                         *)
(* SmcGuard, the address-level model of StaticRecompCore_SMC.cpp,          *)
(* implements this specification; StaticRecompRun builds the run loop on   *)
(* top of it.                                                              *)
(***************************************************************************)
EXTENDS Integers, FiniteSets

CONSTANTS
    Chunk,      \* the translation units of the loaded module
    Mem1Chunk   \* those that lie in MEM1: VerifyChunk refuses all others

ASSUME ChunkAssumption ==
    /\ IsFiniteSet(Chunk)
    /\ Mem1Chunk \subseteq Chunk

VARIABLES
    armed,      \* BOOLEAN: the module is active, so the guard listens
    trust,      \* trust[c]: m_chunk_state, the opinion about chunk c
    differs,    \* the chunks whose guest text is not the original one
    unseen      \* history: chunks written since an invalidation last reached them

trustVars == <<armed, trust, differs, unseen>>

Opinion == {"unverified", "verified", "failed"}

TrustTypeOK ==
    /\ armed \in BOOLEAN
    /\ trust \in [Chunk -> Opinion]
    /\ differs \in SUBSET Chunk
    /\ unseen \in SUBSET Chunk

TrustInit ==
    /\ armed \in BOOLEAN
    /\ trust = [c \in Chunk |-> "unverified"]
    /\ differs \in SUBSET Chunk
    /\ unseen = {}

-----------------------------------------------------------------------------

\* The opinion a hash check gives.
Judgement(c) == IF c \in Mem1Chunk \ differs THEN "verified" ELSE "failed"

\* A chunk is hashed before native code first runs in it.
Check(c) ==
    /\ armed
    /\ trust[c] = "unverified"
    /\ trust' = [trust EXCEPT ![c] = Judgement(c)]
    /\ UNCHANGED <<armed, differs, unseen>>

\* The guest (or a DMA) writes into a chunk; nobody tells the guard.
Write(c) ==
    /\ differs' \in {differs \cup {c}, differs \ {c}}
    /\ unseen' = unseen \cup {c}
    /\ UNCHANGED <<armed, trust>>

\* Forgetting an opinion is always sound.
Forget(c) ==
    /\ armed
    /\ trust' = [trust EXCEPT ![c] = "unverified"]
    /\ UNCHANGED <<armed, differs, unseen>>

\* An instruction-cache invalidation of the chunks S is over: the guard holds no
\* opinion about any of them.
Invalidate(S) ==
    /\ armed
    /\ trust' = [c \in Chunk |-> IF c \in S THEN "unverified" ELSE trust[c]]
    /\ unseen' = unseen \ S
    /\ UNCHANGED <<armed, differs>>

\* Every opinion is dropped: ClearCache, or a freshly loaded module.
Reset ==
    /\ trust' = [c \in Chunk |-> "unverified"]
    /\ unseen' = {}
    /\ armed' \in BOOLEAN
    /\ UNCHANGED differs

\* The module becomes active or inactive as the running title changes.
Arm ==
    /\ armed' \in BOOLEAN
    /\ UNCHANGED <<trust, differs, unseen>>

TrustNext ==
    \/ \E c \in Chunk : Check(c) \/ Write(c) \/ Forget(c)
    \/ \E S \in SUBSET Chunk : Invalidate(S)
    \/ Reset
    \/ Arm

TrustSpec == TrustInit /\ [][TrustNext]_trustVars

-----------------------------------------------------------------------------

\* A chunk believed to hold its original text does hold it, unless it was
\* written after the last invalidation that reached it: the only stale code the
\* guard may ever let run is code the guest has not yet invalidated.
TrustSound ==
    \A c \in Chunk : trust[c] = "verified" /\ c \in differs => c \in unseen
=============================================================================
