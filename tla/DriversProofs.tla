----------------------------- MODULE DriversProofs -----------------------------
(***************************************************************************)
(* The instance MCDrivers checks: a behaviour of it is one of the seven     *)
(* specifications with the others at rest, so each type invariant carries    *)
(* over.  It says nothing of drivers at work at the same time.               *)
(***************************************************************************)
EXTENDS MCDrivers, CharRegistrationProofs, RwFileOpsProofs, SnullModuleProofs, NotesProofs

allVars == <<chosen, vars, rwVars, pciVars, netVars, frameVars, ioctlVars, scullVars>>

(* The chosen specification starts and steps as it does alone, the other six *)
(* stutter: by the shape of MCSpec.                                          *)
LEMMA BehaviourOfEach ==
  MCSpec => Spec /\ RwSpec /\ PciSpec /\ NetSpec /\ FrameSpec /\ IoctlSpec /\ ScullSpec
<1>1. MCInit => Init /\ RwInit /\ PciInit /\ NetInit /\ FrameInit /\ IoctlInit /\ ScullInit
      BY DEF MCInit
<1>2. [MCNext]_allVars
        => /\ [Next]_vars /\ [RwNext]_rwVars /\ [PciNext]_pciVars /\ [NetNext]_netVars
           /\ [FrameNext]_frameVars /\ [IoctlNext]_ioctlVars /\ [ScullNext]_scullVars
      BY DEF MCNext, Others, allVars
<1> QED
    BY <1>1, <1>2, PTL
    DEF MCSpec, allVars, Spec, RwSpec, PciSpec, NetSpec, FrameSpec, IoctlSpec, ScullSpec

(* Whichever of them is chosen, the variables of the six specifications      *)
(* besides registration keep to their values.                                *)
THEOREM DriversTypeCorrect == MCSpec => []DriversTypeOK
<1>1. RwTypeOK /\ PciTypeOK /\ NetTypeOK /\ FrameTypeOK /\ IoctlTypeOK /\ ScullTypeOK
        => DriversTypeOK
      BY DEF DriversTypeOK
<1> QED
    BY <1>1, BehaviourOfEach, RwTypeCorrect, PciTypeCorrect, NetTypeCorrect, FrameTypeCorrect,
       IoctlTypeCorrect, ScullTypeCorrect, PTL
=============================================================================
