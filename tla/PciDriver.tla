------------------------------- MODULE PciDriver -------------------------------
(***************************************************************************)
(* The PCI driver of PCI_BUS/pci_busv0.2.c (init, exit, probe) with the id   *)
(* tables of PCI_BUS/pci_bus.c, on a bus whose functions are plugged in and  *)
(* pulled out at any time.  The PCI core, which calls probe for a function   *)
(* that matches the table, is external.                                      *)
(***************************************************************************)
EXTENDS Integers, Sequences

CONSTANTS
  PciDevs,     \* the functions that may be on the bus
  PciId,       \* what each is: vendor, device, subvendor, subdevice, class
  PciRev,      \* the revision each has in its configuration space
  PciNone,     \* the field of an all-zero table entry
  PCI_ANY_ID,  \* the wildcard
  MaxEnable    \* bound: how often one function is enabled

(* A class is its three bytes; a mask is the set of those it compares.      *)
ClassBytes == {"base", "sub", "prog"}

(* The devices in the table of the other driver.                             *)
I810Devices == {"82810_IG1", "82810_IG3", "82810E_IG", "82815_CGC", "82845G_IG"}

PciAssumption ==
  /\ MaxEnable \in Nat
  /\ PciRev \in [PciDevs -> 0..255]
  /\ \A d \in PciDevs : PciId[d].class \in [ClassBytes -> 0..255]
  /\ PCI_ANY_ID # PciNone /\ {PCI_ANY_ID, PciNone} \cap (I810Devices \cup {"INTEL"}) = {}

ASSUME PciAssumption

VARIABLES
  table,       \* which id table the driver was built with
  pci_pc,      \* the module: "unloaded", "loaded", "unregister"
  present,     \* the functions the bus knows
  alive,       \* the functions that answer
  probe_pc,    \* where the driver is with each function
  enable_cnt   \* how often each has been enabled

pciVars == <<table, pci_pc, present, alive, probe_pc, enable_cnt>>

-----------------------------------------------------------------------------
(* The id tables.                                                            *)
PCI_DEVICE(v, d) ==
  [vendor |-> v, device |-> d, subvendor |-> PCI_ANY_ID, subdevice |-> PCI_ANY_ID,
   class |-> [b \in ClassBytes |-> 0], class_mask |-> {}]

(* Mutant: the mask does not reach the entry.                                *)
ClassUnmasked(c, m) ==
  [vendor |-> PCI_ANY_ID, device |-> PCI_ANY_ID,
   subvendor |-> PCI_ANY_ID, subdevice |-> PCI_ANY_ID, class |-> c, class_mask |-> {}]

PCI_DEVICE_CLASS(c, m) ==
  [vendor |-> PCI_ANY_ID, device |-> PCI_ANY_ID,
   subvendor |-> PCI_ANY_ID, subdevice |-> PCI_ANY_ID, class |-> c, class_mask |-> m]

EndOfTable ==
  [vendor |-> PciNone, device |-> PciNone, subvendor |-> PciNone, subdevice |-> PciNone,
   class |-> [b \in ClassBytes |-> 0], class_mask |-> {}]

(* PCI_CLASS_SERIAL_USB << 8 | 0x20, compared with mask ~0.                  *)
UsbClass(prog) == [base |-> 12, sub |-> 3, prog |-> prog]
EhciIds == <<PCI_DEVICE_CLASS(UsbClass(32), ClassBytes), EndOfTable>>
I810Ids ==
  <<PCI_DEVICE("INTEL", "82810_IG1"), PCI_DEVICE("INTEL", "82810_IG3"),
    PCI_DEVICE("INTEL", "82810E_IG"), PCI_DEVICE("INTEL", "82815_CGC"),
    PCI_DEVICE("INTEL", "82845G_IG"), EndOfTable>>
Tables == [ehci |-> EhciIds, i810 |-> I810Ids]

(* The core goes through a table up to the entry whose vendor, subvendor and *)
(* class mask are all zero.                                                  *)
IsEnd(e) == e.vendor = PciNone /\ e.subvendor = PciNone /\ e.class_mask = {}
Before(t) == {i \in DOMAIN t : \A j \in 1..i : ~IsEnd(t[j])}
Agrees(e, id) ==
  /\ \A f \in {"vendor", "device", "subvendor", "subdevice"} : e[f] \in {PCI_ANY_ID, id[f]}
  /\ \A b \in e.class_mask : e.class[b] = id.class[b]
Matches(d) == \E i \in Before(Tables[table]) : Agrees(Tables[table][i], PciId[d])

-----------------------------------------------------------------------------
PciInit ==
  /\ table \in DOMAIN Tables
  /\ pci_pc = "unloaded"
  /\ present = {} /\ alive = {}
  /\ probe_pc = [d \in PciDevs |-> "none"]
  /\ enable_cnt = [d \in PciDevs |-> 0]

ProbeGoto(d, l) == probe_pc' = [probe_pc EXCEPT ![d] = l]

(* A function is plugged in, stops to answer, and is taken off the bus; the  *)
(* core does the last only while no probe of it is running.                  *)
Plug(d) ==
  /\ d \notin present
  /\ present' = present \cup {d} /\ alive' = alive \cup {d}
  /\ UNCHANGED <<table, pci_pc, probe_pc, enable_cnt>>

Yank(d) ==
  /\ d \in alive
  /\ alive' = alive \ {d}
  /\ UNCHANGED <<table, pci_pc, present, probe_pc, enable_cnt>>

Unplug(d) ==
  /\ d \in present \ alive /\ probe_pc[d] \notin {"enable", "revision"}
  /\ present' = present \ {d}
  /\ ProbeGoto(d, "none")
  /\ enable_cnt' = [enable_cnt EXCEPT ![d] = 0]
  /\ UNCHANGED <<table, pci_pc, alive>>

(* Registration fails, and the module is gone again, or succeeds whatever    *)
(* the probes will say.                                                      *)
pci_skel_init ==
  /\ pci_pc = "unloaded"
  /\ pci_pc' = "loaded"
  /\ UNCHANGED <<table, present, alive, probe_pc, enable_cnt>>

(* The core calls probe for a function that matches.                         *)
ProbeStart(d) ==
  /\ pci_pc = "loaded" /\ d \in present /\ probe_pc[d] = "none"
  /\ Matches(d)
  /\ ProbeGoto(d, "enable")
  /\ UNCHANGED <<table, pci_pc, present, alive, enable_cnt>>

Enabled(d) ==
  /\ enable_cnt[d] < MaxEnable
  /\ enable_cnt' = [enable_cnt EXCEPT ![d] = @ + 1]

(* Mutant: the answer of pci_enable_device is not looked at.                 *)
ProbeEnableUnchecked(d) ==
  /\ probe_pc[d] = "enable"
  /\ Enabled(d) \/ UNCHANGED enable_cnt
  /\ ProbeGoto(d, "revision")
  /\ UNCHANGED <<table, pci_pc, present, alive>>

ProbeEnable(d) ==
  /\ probe_pc[d] = "enable"
  /\ \/ Enabled(d) /\ ProbeGoto(d, "revision")
     \/ ProbeGoto(d, "refused") /\ UNCHANGED enable_cnt
  /\ UNCHANGED <<table, pci_pc, present, alive>>

(* skel_get_revision returns the byte read; the result of the read is not    *)
(* looked at, and of a function that is gone the byte is whatever was there. *)
skel_get_revision(d) == IF d \in alive THEN {PciRev[d]} ELSE 0..255

(* Mutant: the comparison is the wrong way round.                            *)
ProbeRevisionInverted(d) ==
  /\ probe_pc[d] = "revision"
  /\ \E r \in skel_get_revision(d) : ProbeGoto(d, IF r = 66 THEN "bound" ELSE "refused")
  /\ UNCHANGED <<table, pci_pc, present, alive, enable_cnt>>

(* Revision 0x42 is refused; the function stays enabled.                     *)
ProbeRevision(d) ==
  /\ probe_pc[d] = "revision"
  /\ \E r \in skel_get_revision(d) : ProbeGoto(d, IF r = 66 THEN "refused" ELSE "bound")
  /\ UNCHANGED <<table, pci_pc, present, alive, enable_cnt>>

(* Mutant: exit does not unregister.                                         *)
pci_skel_exit_Bare ==
  /\ pci_pc = "loaded"
  /\ pci_pc' = "unloaded"
  /\ UNCHANGED <<table, present, alive, probe_pc, enable_cnt>>

(* pci_unregister_driver: no probe starts any more, every bound function is  *)
(* removed from the driver, and then exit returns.  Nothing disables them.   *)
pci_skel_exit ==
  /\ pci_pc = "loaded"
  /\ pci_pc' = "unregister"
  /\ UNCHANGED <<table, present, alive, probe_pc, enable_cnt>>

Remove(d) ==
  /\ pci_pc = "unregister" /\ probe_pc[d] \in {"bound", "refused"}
  /\ ProbeGoto(d, "none")
  /\ UNCHANGED <<table, pci_pc, present, alive, enable_cnt>>

ExitReturns ==
  /\ pci_pc = "unregister" /\ \A d \in PciDevs : probe_pc[d] = "none"
  /\ pci_pc' = "unloaded"
  /\ UNCHANGED <<table, present, alive, probe_pc, enable_cnt>>

PciNext ==
  \/ pci_skel_init \/ pci_skel_exit \/ ExitReturns
  \/ \E d \in PciDevs :
       \/ Plug(d) \/ Yank(d) \/ Unplug(d) \/ ProbeStart(d)
       \/ ProbeEnable(d) \/ ProbeRevision(d) \/ Remove(d)

PciSpec == PciInit /\ [][PciNext]_pciVars

-----------------------------------------------------------------------------
PciTypeOK ==
  /\ table \in DOMAIN Tables
  /\ pci_pc \in {"unloaded", "loaded", "unregister"}
  /\ present \subseteq PciDevs /\ alive \subseteq present
  /\ probe_pc \in [PciDevs -> {"none", "enable", "revision", "bound", "refused"}]
  /\ enable_cnt \in [PciDevs -> 0..MaxEnable]

(* "Any PCI devices that were currently bound to this driver are removed"    *)
(* before exit returns: when the module is gone no function is bound to it   *)
(* and no probe runs in its code, however often functions come and go.       *)
BoundOnlyWhileLoaded ==
  \A d \in PciDevs : probe_pc[d] \in {"enable", "revision", "bound"} =>
    pci_pc # "unloaded" /\ d \in present

(* "Before the driver can access any device resource the driver must call    *)
(* pci_enable_device": a function whose configuration is read, or that is    *)
(* bound, has been enabled since it was plugged in.                          *)
AccessedEnabled ==
  \A d \in PciDevs : probe_pc[d] \in {"revision", "bound"} => enable_cnt[d] > 0

(* A function that still answers is never bound with revision 0x42, although *)
(* the driver takes any byte from one that is gone.                          *)
AcceptedRevision ==
  \A d \in alive : probe_pc[d] = "bound" => PciRev[d] # 66

(* The tables mean what their comments say: "any USB 2.0 EHCI controller",   *)
(* whoever made it, and the five listed devices of one vendor, whatever      *)
(* their subsystem and class; nothing else on the bus is probed.             *)
Supported(t, id) ==
  \/ t = "ehci" /\ id.class = UsbClass(32)
  \/ t = "i810" /\ id.vendor = "INTEL" /\ id.device \in I810Devices
MatchesExactly ==
  \A d \in PciDevs :
    /\ Matches(d) <=> Supported(table, PciId[d])
    /\ probe_pc[d] # "none" => Supported(table, PciId[d])
=============================================================================
