------------------------- MODULE ExposerNodeProofs -------------------------
(***************************************************************************)
(* The exposer together with the node-side caller (ExposerNode) still      *)
(* implements the safety part of the abstract exposer: GetExposed and      *)
(* PeekExposed only read, and a pod failing or being evicted by the        *)
(* cluster touches nothing the storage snapshot depends on.  The proof     *)
(* reuses the handover invariant and the refinement step of ExposerProofs. *)
(***************************************************************************)
EXTENDS ExposerNode, ExposerProofs

\* The caller's steps and the cluster's pod failures change none of the
\* exposer's variables but the count of failed calls, which a failed Get
\* of the caller uses up within its bound.
NodeOnly == CallGetExposed \/ GetExposedGetPod \/ GetExposedWaitPVC \/ PeekExposed \/ PodFails

LEMMA NodeOnlyStutters ==
    TypeOK /\ NodeOnly =>
        /\ UNCHANGED <<obj, policy, snapshot, srcReady, provisioning, pc, defers,
                       crashes, swallowed>>
        /\ faults' \in 0..MaxFaults
BY BoundsAssumption DEF NodeOnly, CallGetExposed, GetExposedGetPod, GetExposedWaitPVC,
   PeekExposed, PodFails, vars, Fault, TypeOK

\* An eviction keeps the handover invariant: it only marks the pod, which
\* the invariant does not constrain.
LEMMA EvictKeepsIInv == IInv /\ EvictPod => IInv'
BY DEF EvictPod, IInv, TypeOK, Handover, BeforeRetain, AfterRetain, Objects, Status

\* Every step of the composition keeps the handover invariant.
LEMMA NodeIInvStep == IInv /\ [NodeNext]_allVars => IInv'
<1> SUFFICES ASSUME IInv, [NodeNext]_allVars PROVE IInv'
  OBVIOUS
<1>1. CASE Next /\ UNCHANGED nodeVars
  BY <1>1, IInvStep
<1>2. CASE NodeOnly
  BY <1>2, NodeOnlyStutters DEF IInv, TypeOK, Handover, BeforeRetain, AfterRetain
<1>3. CASE EvictPod
  BY <1>3, EvictKeepsIInv
<1>4. CASE UNCHANGED allVars
  BY <1>4 DEF allVars, vars, IInv, TypeOK, Handover, BeforeRetain, AfterRetain
<1>. QED  BY <1>1, <1>2, <1>3, <1>4 DEF NodeNext, NodeOnly

\* Every step of the composition is a step of the abstract exposer or
\* leaves its phase and the storage snapshot unchanged.
LEMMA NodeRefinementStep ==
    IInv /\ [NodeNext]_allVars => [Abs!ANext]_<<APhase, snapshot>>
<1> SUFFICES ASSUME IInv, [NodeNext]_allVars PROVE [Abs!ANext]_<<APhase, snapshot>>
  OBVIOUS
<1>1. CASE Next /\ UNCHANGED nodeVars
  BY <1>1, RefinementStep
<1>2. CASE NodeOnly \/ UNCHANGED allVars
  <2>1. UNCHANGED <<pc, snapshot>>
    BY <1>2, NodeOnlyStutters DEF vars, allVars, IInv
  <2>. QED  BY <2>1 DEF APhase
<1>3. CASE EvictPod
  <2>1. UNCHANGED <<pc, snapshot>>
    BY <1>3 DEF EvictPod
  <2>. QED  BY <2>1 DEF APhase
<1>. QED  BY <1>1, <1>2, <1>3 DEF NodeNext, NodeOnly

\* While a node-side caller runs GetExposed and PeekExposed against the
\* exposer and the cluster fails or evicts the hosting pod, the exposer
\* still implements the safety part of ExposerAbs: the storage snapshot is
\* never destroyed while Expose runs or while its result stands, for every
\* bound on faults, crashes and evictions.
THEOREM NodeRefinement == NodeSpec => Abs!ASafeSpec
<1>1. NodeInit => IInv /\ Abs!AInit
  BY IInvInit, RefinementInit DEF NodeInit
<1>2. NodeSpec => []IInv
  BY <1>1, NodeIInvStep, PTL DEF NodeSpec
<1>3. []IInv /\ [][NodeNext]_allVars => [][Abs!ANext]_<<APhase, snapshot>>
  BY NodeRefinementStep, PTL
<1>. QED  BY <1>1, <1>2, <1>3, PTL DEF NodeSpec, Abs!ASafeSpec, Abs!avars

=============================================================================
