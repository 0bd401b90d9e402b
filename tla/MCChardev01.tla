----------------------------- MODULE MCChardev01 -----------------------------
(* Chardev01 on small instances: the contents of the struct device_dev that *)
(* the configurations choose from, and the symmetry of the safety runs.     *)
EXTENDS Chardev01, TLC

CONSTANT Quantum   \* the quantum size of a device that is set up

(* As a setup routine would leave it, with the build's array size.          *)
MCReady == {[quantum |-> Quantum, qset |-> DEVICE_QSET, size |-> 0, sem |-> 1, semInit |-> TRUE]}

(* As the module leaves it: zeros, and no sema_init.                        *)
MCZeroed == {[quantum |-> 0, qset |-> 0, size |-> 0, sem |-> 0, semInit |-> FALSE]}

(* Set up, but with an array size other than the build's.                   *)
MCOtherQset == {[quantum |-> Quantum, qset |-> DEVICE_QSET + 1, size |-> 0, sem |-> 1, semInit |-> TRUE]}

MCSymmetry == Permutations(Procs)
=============================================================================
