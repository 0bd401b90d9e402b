------------------------------- MODULE MCDrivers -------------------------------
(***************************************************************************)
(* Registration and the smaller drivers in one instance.  They share         *)
(* nothing, so a behaviour chooses one and leaves the others where they      *)
(* start.                                                                    *)
(***************************************************************************)
EXTENDS CharRegistration, RwFileOps, PciDriver, SnullModule, SnullFrames,
        IoctlDevice, Scull, TLC

CONSTANTS m1, m2, m3, m4, m5, m6, d1, d2, d3

VARIABLE chosen

(* A module of each shape, and two that want the same static number.        *)
MCShape ==
  (m1 :> "chardev") @@ (m2 :> "rw") @@ (m3 :> "chrdev") @@ (m4 :> "dynamic")
  @@ (m5 :> "static") @@ (m6 :> "static")

(* Three functions: one both tables' drivers could take for theirs by vendor  *)
(* or by class alone, one for each table; one has the refused revision.        *)
MCPciId ==
  LET Fn(v, d, c) == [vendor |-> v, device |-> d, subvendor |-> "OTHER", subdevice |-> "OTHER",
                      class |-> c]
      Video == [base |-> 3, sub |-> 0, prog |-> 0]
  IN  (d1 :> Fn("INTEL", "XHCI", UsbClass(48))) @@ (d2 :> Fn("VIA", "EHCI", UsbClass(32)))
      @@ (d3 :> Fn("INTEL", "82845G_IG", Video))
MCPciRev == (d1 :> 2) @@ (d2 :> 66) @@ (d3 :> 1)

(* Header of one byte; data that fill a frame, fall short of it, exceed it.  *)
MCPayloads == {<<7>>, <<7, 8>>, <<7, 8, 9>>, <<7, 9, 8, 9>>}

Others(c) ==
  /\ c # "reg"    => UNCHANGED vars
  /\ c # "rw"     => UNCHANGED rwVars
  /\ c # "pci"    => UNCHANGED pciVars
  /\ c # "net"    => UNCHANGED netVars
  /\ c # "frames" => UNCHANGED frameVars
  /\ c # "ioctl"  => UNCHANGED ioctlVars
  /\ c # "scull"  => UNCHANGED scullVars

(* The others start in one of their initial states.                          *)
MCInit ==
  /\ chosen \in {"reg", "rw", "pci", "net", "frames", "ioctl", "scull"}
  /\ Init /\ RwInit /\ PciInit /\ NetInit /\ FrameInit /\ IoctlInit /\ ScullInit
  /\ chosen # "pci" => table = "ehci"
  /\ chosen # "net" => ~napi
  /\ chosen # "frames" => ~polled
  /\ chosen # "ioctl" => arg = [p \in Callers |-> 0]

MCNext ==
  /\ UNCHANGED chosen
  /\ \/ chosen = "reg" /\ Next
     \/ chosen = "rw" /\ RwNext
     \/ chosen = "pci" /\ PciNext
     \/ chosen = "net" /\ NetNext
     \/ chosen = "frames" /\ FrameNext
     \/ chosen = "ioctl" /\ IoctlNext
     \/ chosen = "scull" /\ ScullNext
  /\ Others(chosen)

MCSpec == MCInit /\ [][MCNext]_<<chosen, vars, rwVars, pciVars, netVars, frameVars, ioctlVars, scullVars>>

(* The variables of each driver but registration (TypeOK) keep to their values. *)
DriversTypeOK ==
  RwTypeOK /\ PciTypeOK /\ NetTypeOK /\ FrameTypeOK /\ IoctlTypeOK /\ ScullTypeOK
=============================================================================
