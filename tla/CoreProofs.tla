----------------------------- MODULE CoreProofs ------------------------------
(***************************************************************************)
(* The parts of MCCore whose invariants are proved, carried over to the    *)
(* composition.  A behaviour of the composition stays in one part, and the *)
(* steps of a part leave its invariant alone or are steps of its own       *)
(* specification.                                                          *)
(***************************************************************************)
EXTENDS MCCore, TLAPS

CorePoolInv == part = "pool" => W!PoolInv

\* A behaviour of the pool part starts in an initial state of ThreadPool.
LEMMA CoreInitPool == CoreInit => CorePoolInv
<1> SUFFICES ASSUME CoreInit, part = "pool" PROVE W!PoolInv
  BY ZenonT(60) DEF CorePoolInv
<1>1. W!PoolInit
  BY ZenonT(60) DEF CoreInit, PartInit, OwnershipInit
<1> QED BY <1>1, CoreSizes, W!PoolInitInv, ZenonT(60)

\* The part is chosen once, so every step of the pool part is a step of ThreadPool.
LEMMA CoreNextPool == CorePoolInv /\ [CoreNext]_coreVars => CorePoolInv'
<1> SUFFICES ASSUME CorePoolInv, [CoreNext]_coreVars, part' = "pool" PROVE W!PoolInv'
  BY ZenonT(60) DEF CorePoolInv
<1>1. part = "pool" /\ [W!PoolNext]_(W!poolVars)
  BY ZenonT(60) DEF CoreNext, PartNext, OwnershipNext, coreVars, poolOnly, W!poolVars
<1> QED BY <1>1, CoreSizes, W!PoolNextInv, ZenonT(60) DEF CorePoolInv

\* A blocking job is never left in the queue of the pool, for any number of runtime threads,
\* workers and any limit above zero (rt/pool.rs ThreadPool::execute, worker).
THEOREM CoreNoJobStranded == CoreSpec => []JobNotStranded
<1>1. CorePoolInv => JobNotStranded
  BY CoreSizes, W!PoolInvImplies, ZenonT(60) DEF CorePoolInv, JobNotStranded
<1> QED BY <1>1, CoreInitPool, CoreNextPool, PTL DEF CoreSpec
=============================================================================
