---------------------------- MODULE DeviceProofs ----------------------------
(***************************************************************************)
(* Proofs about WritePath, for any number of devices, port names, writes   *)
(* and calls of EvtDeviceAdd: the invariants of the devices, and that the  *)
(* write path implements RequestService.                                   *)
(***************************************************************************)
EXTENDS WritePath, TLAPS

USE LifecycleAssumption, WriteAssumption
    DEF contextVars, mapVars, systemVars, poolVars, lifecycleVars, writeVars

-----------------------------------------------------------------------------
(* Type correctness. *)

(* What it means for a function to be a map from part of S to T. *)
LEMMA PartialMapElim ==
  ASSUME NEW S, NEW T, NEW f \in PartialMap(S, T)
  PROVE  DOMAIN f \subseteq S /\ f \in [DOMAIN f -> T]
BY DEF PartialMap

LEMMA PartialMapIntro ==
  ASSUME NEW S, NEW T, NEW D \in SUBSET S, NEW f \in [D -> T]
  PROVE  f \in PartialMap(S, T)
BY DEF PartialMap

LEMMA RestrictIsPartialMap ==
  ASSUME NEW S, NEW T, NEW f \in PartialMap(S, T), NEW D \in SUBSET DOMAIN f
  PROVE  Restrict(f, D) \in PartialMap(S, T)
<1>1. DOMAIN f \subseteq S /\ f \in [DOMAIN f -> T]
  BY PartialMapElim
<1>2. Restrict(f, D) \in [D -> T] /\ D \in SUBSET S
  BY <1>1 DEF Restrict
<1> QED
  BY <1>2, PartialMapIntro

LEMMA InitTypeOK == Init => TypeOK
<1> SUFFICES ASSUME Init PROVE TypeOK
  OBVIOUS
<1>1. links \in PartialMap(PortNames, Devices) /\ serialcomm \subseteq Nat
  <2>1. EmptyMap \in [{} -> Devices] /\ {} \in SUBSET PortNames /\ DOMAIN EmptyMap = {}
    BY DEF EmptyMap
  <2> QED
    BY <2>1, PartialMapIntro DEF Init, LifecycleInit
<1>2. /\ stage \in [Devices -> Stages]
      /\ pipes \in [Devices -> SUBSET Bulk]
  BY DEF Init, LifecycleInit, Stages
<1> QED
  BY <1>1, <1>2 DEF Init, LifecycleInit, TypeOK

(* EvtDeviceAdd, whether or not the hardware key can be opened and the     *)
(* link be made.                                                           *)
LEMMA EvtDeviceAddTypeOK ==
  ASSUME TypeOK, NEW d \in Devices, EvtDeviceAdd(d), UNCHANGED writeVars
  PROVE  TypeOK'
<1>1. PICK opened \in BOOLEAN, queried \in BOOLEAN, stored \in BOOLEAN :
        LET portNameExists == opened /\ queried /\ PortName[d] # NULL
            name == IF portNameExists THEN PortName[d] ELSE DEFAULT_PORT
        IN
        /\ PortName' = IF opened /\ stored THEN [PortName EXCEPT ![d] = name] ELSE PortName
        /\ PortNumber' = [PortNumber EXCEPT ![d] = ParsePortNumber(name)]
        /\ PortRegistered' = [PortRegistered EXCEPT ![d] = TRUE]
        /\ \/ /\ name \notin DOMAIN links
              /\ links' = [n \in DOMAIN links \cup {name} |->
                             IF n = name THEN d ELSE links[n]]
           \/ UNCHANGED links
  BY DEF EvtDeviceAdd, SerialRegisterComPort
<1> DEFINE name == IF opened /\ queried /\ PortName[d] # NULL THEN PortName[d] ELSE DEFAULT_PORT
<1>2. name \in PortNames /\ ParsePortNumber(name) \in Nat
  BY DEF TypeOK, ParsePortNumber
<1> HIDE DEF name
<1>3. links' \in PartialMap(PortNames, Devices)
  <2>1. CASE UNCHANGED links
    BY <2>1 DEF TypeOK
  <2>2. CASE links' = [n \in DOMAIN links \cup {name} |-> IF n = name THEN d ELSE links[n]]
    <3>1. DOMAIN links \subseteq PortNames /\ links \in [DOMAIN links -> Devices]
      BY PartialMapElim DEF TypeOK
    <3>2. /\ links' \in [DOMAIN links \cup {name} -> Devices]
          /\ DOMAIN links \cup {name} \in SUBSET PortNames
      BY <1>2, <2>2, <3>1
    <3> QED
      BY <3>2, PartialMapIntro
  <2> QED
    BY <1>1, <2>1, <2>2 DEF name
<1>4. /\ PortName' \in [Devices -> PortNames \cup {NULL}]
      /\ PortNumber' \in [Devices -> Nat]
      /\ PortRegistered' \in [Devices -> BOOLEAN]
  BY <1>1, <1>2 DEF TypeOK, name
<1>5. /\ adds' \in 0..MaxAdds /\ adds' \in Nat
      /\ pool' \subseteq 1..adds' /\ unprepared' \subseteq 1..adds'
  BY DEF EvtDeviceAdd, TypeOK
<1>6. /\ stage' \in [Devices -> Stages]
      /\ buffer' \in [Devices -> Nat \cup {NULL}]
      /\ pipes' \in [Devices -> SUBSET Bulk]
  BY <1>5 DEF EvtDeviceAdd, TypeOK, Stages
<1> QED
  BY <1>3, <1>4, <1>5, <1>6 DEF EvtDeviceAdd, TypeOK

LEMMA DeviceStepTypeOK ==
  ASSUME TypeOK, NEW d \in Devices, DeviceStep(d)
  PROVE  TypeOK'
<1>1. UNCHANGED writeVars
  BY DEF DeviceStep
<1>2. CASE \E n \in PortNames : AssignPortName(d, n)
  BY <1>1, <1>2 DEF AssignPortName, TypeOK
<1>3. CASE EvtDeviceAdd(d)
  BY <1>1, <1>3, EvtDeviceAddTypeOK
<1>4. CASE DeviceAddFails(d)
  BY <1>1, <1>4 DEF DeviceAddFails, TypeOK
<1>5. CASE EvtDevicePrepareHardware(d)
  <2>1. stage' \in [Devices -> Stages] /\ pipes' \in [Devices -> SUBSET Bulk]
    BY <1>5 DEF EvtDevicePrepareHardware, TypeOK, Stages
  <2>2. unprepared' \subseteq 1..adds'
    BY <1>5 DEF EvtDevicePrepareHardware, TypeOK
  <2> QED
    BY <1>1, <1>5, <2>1, <2>2 DEF EvtDevicePrepareHardware, TypeOK
<1>6. CASE EvtDeviceD0Entry(d)
  <2>1. serialcomm' \subseteq Nat /\ undeleted' \subseteq serialcomm'
    <3>1. PICK k : k \in Nat /\ k = PortNumber[d]
      BY DEF TypeOK
    <3>2. \/ UNCHANGED mapVars
          \/ serialcomm' = serialcomm \cup {k} /\ undeleted' = undeleted \ {k}
      BY <1>6, <3>1 DEF EvtDeviceD0Entry, SerialMapComPort
    <3> QED
      BY <3>1, <3>2 DEF TypeOK
  <2>2. stage' \in [Devices -> Stages]
    BY <1>6 DEF EvtDeviceD0Entry, TypeOK, Stages
  <2> QED
    BY <1>1, <1>6, <2>1, <2>2 DEF EvtDeviceD0Entry, TypeOK
<1>7. CASE EvtDeviceD0Exit(d)
  BY <1>1, <1>7 DEF EvtDeviceD0Exit, TypeOK, Stages
<1>8. CASE EvtDeviceReleaseHardware(d)
  <2>1. serialcomm' \subseteq Nat /\ undeleted' \subseteq serialcomm'
    BY <1>8 DEF EvtDeviceReleaseHardware, SerialUnmapComPort, TypeOK
  <2>2. stage' \in [Devices -> Stages]
    BY <1>8 DEF EvtDeviceReleaseHardware, TypeOK, Stages
  <2>3. buffer' \in [Devices -> Nat \cup {NULL}] /\ pool' \subseteq 1..adds'
    BY <1>8 DEF EvtDeviceReleaseHardware, TypeOK
  <2> QED
    BY <1>1, <1>8, <2>1, <2>2, <2>3 DEF EvtDeviceReleaseHardware, TypeOK
<1>9. CASE DeviceRemoved(d)
  <2>1. links' \in PartialMap(PortNames, Devices)
    BY <1>9, RestrictIsPartialMap DEF DeviceRemoved, TypeOK
  <2>2. /\ stage' \in [Devices -> Stages]
        /\ PortNumber' \in [Devices -> Nat] /\ PortRegistered' \in [Devices -> BOOLEAN]
        /\ buffer' \in [Devices -> Nat \cup {NULL}] /\ pipes' \in [Devices -> SUBSET Bulk]
    BY <1>9 DEF DeviceRemoved, TypeOK, Stages
  <2> QED
    BY <1>1, <1>9, <2>1, <2>2 DEF DeviceRemoved, TypeOK
<1> QED
  BY <1>2, <1>3, <1>4, <1>5, <1>6, <1>7, <1>8, <1>9 DEF DeviceStep

(* A write's steps leave the devices alone and move only the write. *)
LEMMA WriteStepMoves ==
  ASSUME NEW w \in Writes, WriteStep(w)
  PROVE  /\ UNCHANGED lifecycleVars
         /\ \/ UNCHANGED handler
            \/ handler[w] = "idle" /\ stage[Port] = "D0"
               /\ handler' \in {[handler EXCEPT ![w] = q] : q \in {"send", "returned"}}
            \/ handler[w] \in {"send", "sent"}
               /\ handler' \in {[handler EXCEPT ![w] = q] : q \in {"sent", "returned"}}
BY DEF WriteStep, EvtIoWrite, SendWrite, PipeTakes, PipeFails, PipeCancels,
       EvtWriteComplete, AppCancel

LEMMA WriteStepTypeOK ==
  ASSUME TypeOK, NEW w \in Writes, WriteStep(w)
  PROVE  TypeOK'
<1>1. UNCHANGED lifecycleVars
  BY WriteStepMoves
<1>2. handler' \in [Writes -> {"idle", "send", "sent", "returned"}]
  BY WriteStepMoves DEF TypeOK
<1>3. /\ cancelled' \subseteq Writes
      /\ status' \in [Writes -> {"NONE", "SUCCESS", "CANCELLED", "UNSUCCESSFUL"}]
  BY DEF TypeOK, WriteStep, EvtIoWrite, SendWrite, PipeTakes, PipeFails, PipeCancels,
         EvtWriteComplete, AppCancel, Complete
<1> QED
  BY <1>1, <1>2, <1>3 DEF TypeOK

LEMMA NextTypeOK == TypeOK /\ [Next]_vars => TypeOK'
<1> SUFFICES ASSUME TypeOK, [Next]_vars PROVE TypeOK'
  OBVIOUS
<1>1. CASE Next
  BY <1>1, DeviceStepTypeOK, WriteStepTypeOK DEF Next
<1>2. CASE UNCHANGED vars
  BY <1>2 DEF vars, TypeOK
<1> QED
  BY <1>1, <1>2

(* The types of WritePath and Lifecycle hold in every reachable state. *)
THEOREM DeviceTypeCorrect == Spec => []TypeOK
<1> QED
  BY InitTypeOK, NextTypeOK, PTL DEF Spec

-----------------------------------------------------------------------------
(* No stale entry in SERIALCOMM.  NoStaleEntry is inductive by itself: the *)
(* stages between EvtDeviceD0Entry and EvtDeviceReleaseHardware keep       *)
(* MapsAs, PortNumber is only written when the device is added, and what   *)
(* Release does not delete it leaves in undeleted.                         *)

LEMMA DeviceStepNoStaleEntry ==
  ASSUME TypeOK, NoStaleEntry, NEW d \in Devices, DeviceStep(d)
  PROVE  NoStaleEntry'
<1>1. ASSUME UNCHANGED mapVars,
             \A e \in Devices, n \in Nat : MapsAs(e, n) => MapsAs(e, n)'
      PROVE  NoStaleEntry'
  BY <1>1 DEF NoStaleEntry, TypeOK
<1>2. CASE \E n \in PortNames : AssignPortName(d, n)
  BY <1>1, <1>2 DEF AssignPortName, MapsAs
<1>3. CASE EvtDeviceAdd(d)
  <2>1. /\ ~ Present(d)
        /\ stage' = [stage EXCEPT ![d] = "added"]
        /\ \A e \in Devices \ {d} : /\ PortNumber'[e] = PortNumber[e]
                                    /\ PortRegistered'[e] = PortRegistered[e]
        /\ UNCHANGED mapVars
    BY <1>3 DEF EvtDeviceAdd, SerialRegisterComPort, TypeOK
  <2> QED
    BY <1>1, <2>1 DEF MapsAs, Present, TypeOK
<1>4. CASE DeviceAddFails(d)
  BY <1>1, <1>4 DEF DeviceAddFails, MapsAs
<1>5. CASE EvtDevicePrepareHardware(d)
  BY <1>1, <1>5 DEF EvtDevicePrepareHardware, MapsAs, TypeOK
<1>6. CASE EvtDeviceD0Entry(d)
  <2>1. /\ \A e \in Devices, n \in Nat : MapsAs(e, n) => MapsAs(e, n)'
        /\ stage'[d] \in {"D0", "failed"}
    BY <1>6 DEF EvtDeviceD0Entry, MapsAs, TypeOK
  <2>2. CASE UNCHANGED mapVars
    BY <1>1, <2>1, <2>2
  <2>3. CASE /\ PortRegistered[d]
             /\ serialcomm' = serialcomm \cup {PortNumber[d]}
             /\ undeleted' = undeleted \ {PortNumber[d]}
    <3>1. PICK k \in Nat : k = PortNumber[d]
      BY DEF TypeOK
    <3>2. MapsAs(d, k)'
      BY <1>6, <2>1, <2>3, <3>1 DEF EvtDeviceD0Entry, MapsAs
    <3>3. \A n \in serialcomm : n \in undeleted \/ \E e \in Devices : MapsAs(e, n)'
      BY <2>1 DEF NoStaleEntry, TypeOK
    <3> QED
      BY <2>3, <3>1, <3>2, <3>3 DEF NoStaleEntry
  <2> QED
    BY <1>6, <2>2, <2>3 DEF EvtDeviceD0Entry, SerialMapComPort
<1>7. CASE EvtDeviceD0Exit(d)
  BY <1>1, <1>7 DEF EvtDeviceD0Exit, MapsAs, TypeOK
<1>8. CASE EvtDeviceReleaseHardware(d)
  <2>1. \A e \in Devices \ {d}, n \in Nat : MapsAs(e, n) => MapsAs(e, n)'
    BY <1>8 DEF EvtDeviceReleaseHardware, MapsAs, TypeOK
  <2>2. /\ serialcomm' \subseteq serialcomm
        /\ \A n \in serialcomm' : n \in undeleted => n \in undeleted'
        /\ \A n \in serialcomm' : MapsAs(d, n) => n \in undeleted'
    BY <1>8 DEF EvtDeviceReleaseHardware, SerialUnmapComPort, MapsAs
  <2> QED
    BY <2>1, <2>2 DEF NoStaleEntry, TypeOK
<1>9. CASE DeviceRemoved(d)
  BY <1>1, <1>9 DEF DeviceRemoved, MapsAs, TypeOK
<1> QED
  BY <1>2, <1>3, <1>4, <1>5, <1>6, <1>7, <1>8, <1>9 DEF DeviceStep

(* In whatever order devices come and go and are renamed, and whatever     *)
(* fails but the delete itself, the device map lists no port without a     *)
(* device behind it: one that is so listed is one whose last delete the    *)
(* registry refused, with no write since.                                  *)
THEOREM DeviceMapIsClean == Spec => []NoStaleEntry
<1>1. Init => NoStaleEntry
  BY DEF Init, LifecycleInit, EmptyMap, NoStaleEntry
<1>2. TypeOK /\ NoStaleEntry /\ [Next]_vars => NoStaleEntry'
  <2> SUFFICES ASSUME TypeOK, NoStaleEntry, [Next]_vars PROVE NoStaleEntry'
    OBVIOUS
  <2>1. CASE \E d \in Devices : DeviceStep(d)
    BY <2>1, DeviceStepNoStaleEntry
  <2>2. CASE UNCHANGED lifecycleVars
    BY <2>2 DEF NoStaleEntry, MapsAs
  <2> QED
    BY <2>1, <2>2, WriteStepMoves DEF Next, vars
<1> QED
  BY <1>1, <1>2, DeviceTypeCorrect, PTL DEF Spec

-----------------------------------------------------------------------------
(* The buffers.  BuffersAccounted needs to know where a buffer can be lost *)
(* with its device: only before the device was prepared.                   *)

LostOnlyUnprepared ==
  \A d \in Devices :
    /\ stage[d] = "added" => buffer[d] \in unprepared \cup {NULL}
    /\ stage[d] = "broken" => buffer[d] = NULL

BuffersInv == BuffersAccounted /\ LostOnlyUnprepared

LEMMA DeviceStepBuffersInv ==
  ASSUME TypeOK, BuffersInv, NEW d \in Devices, DeviceStep(d)
  PROVE  BuffersInv'
<1>1. /\ BuffersAccounted /\ LostOnlyUnprepared
      /\ stage \in [Devices -> Stages] /\ buffer \in [Devices -> Nat \cup {NULL}]
      /\ pool \subseteq 1..adds /\ adds \in Nat
  BY DEF BuffersInv, TypeOK
<1>2. CASE \E n \in PortNames : AssignPortName(d, n)
  BY <1>1, <1>2 DEF AssignPortName, BuffersInv, BuffersAccounted, LostOnlyUnprepared,
                    Present
<1>3. CASE EvtDeviceAdd(d)
  <2>1. /\ stage' = [stage EXCEPT ![d] = "added"]
        /\ buffer' = [buffer EXCEPT ![d] = adds + 1]
        /\ pool' = pool \cup {adds + 1}
        /\ unprepared' = unprepared \cup {adds + 1}
    BY <1>3 DEF EvtDeviceAdd
  <2>2. adds + 1 \notin pool /\ adds + 1 # NULL
    BY <1>1
  <2>3. BuffersAccounted'
    <3>1. \A e \in Devices : buffer'[e] = IF e = d THEN adds + 1 ELSE buffer[e]
      BY <1>1, <2>1
    <3>2. \A e \in Devices : buffer[e] # NULL => buffer[e] # adds + 1
      BY <1>1, <2>2 DEF BuffersAccounted
    <3>3. \A e \in Devices : buffer'[e] # NULL => Present(e)' /\ buffer'[e] \in pool'
      BY <1>1, <2>1, <3>1 DEF BuffersAccounted, Present
    <3>4. \A a \in pool' : a \in unprepared' \/ \E e \in Devices : buffer'[e] = a
      <4>1. buffer[d] = NULL
        BY <1>1, <1>3 DEF BuffersAccounted, EvtDeviceAdd
      <4> QED
        BY <1>1, <2>1, <3>1, <4>1 DEF BuffersAccounted
    <3>5. \A e, f \in Devices : buffer'[e] = buffer'[f] /\ buffer'[e] # NULL => e = f
      BY <1>1, <2>2, <3>1, <3>2 DEF BuffersAccounted
    <3> QED
      BY <3>3, <3>4, <3>5 DEF BuffersAccounted
  <2>4. LostOnlyUnprepared'
    BY <1>1, <2>1 DEF LostOnlyUnprepared
  <2> QED
    BY <2>3, <2>4 DEF BuffersInv
<1>4. CASE DeviceAddFails(d)
  <2>1. /\ UNCHANGED <<stage, buffer>>
        /\ pool' = pool \cup {adds + 1}
        /\ unprepared' = unprepared \cup {adds + 1}
    BY <1>4 DEF DeviceAddFails
  <2> QED
    BY <1>1, <2>1 DEF BuffersInv, BuffersAccounted, LostOnlyUnprepared, Present
<1>5. CASE EvtDevicePrepareHardware(d)
  <2>1. /\ stage[d] = "added" /\ stage'[d] \in {"prepared", "failed"}
        /\ \A e \in Devices \ {d} : stage'[e] = stage[e]
        /\ unprepared' = unprepared \ {buffer[d]}
        /\ UNCHANGED <<buffer, pool>>
    BY <1>1, <1>5 DEF EvtDevicePrepareHardware
  <2>2. BuffersAccounted'
    BY <1>1, <2>1 DEF BuffersAccounted, Present
  <2>3. LostOnlyUnprepared'
    BY <1>1, <2>1 DEF LostOnlyUnprepared, BuffersAccounted
  <2> QED
    BY <2>2, <2>3 DEF BuffersInv
<1>6. CASE EvtDeviceD0Entry(d) \/ EvtDeviceD0Exit(d)
  <2>1. /\ Present(d) /\ stage'[d] \in {"D0", "asleep", "failed"}
        /\ \A e \in Devices \ {d} : stage'[e] = stage[e]
        /\ UNCHANGED <<buffer, poolVars>>
    BY <1>1, <1>6 DEF EvtDeviceD0Entry, EvtDeviceD0Exit, Present
  <2> QED
    BY <1>1, <2>1 DEF BuffersInv, BuffersAccounted, LostOnlyUnprepared, Present
<1>7. CASE EvtDeviceReleaseHardware(d)
  <2>1. /\ stage'[d] \in {"added", "broken"}
        /\ \A e \in Devices \ {d} : stage'[e] = stage[e]
        /\ pool' = pool \ {buffer[d]}
        /\ buffer' = [buffer EXCEPT ![d] = NULL]
        /\ UNCHANGED unprepared
    BY <1>1, <1>7 DEF EvtDeviceReleaseHardware
  <2>2. BuffersAccounted'
    <3>1. \A e \in Devices : buffer'[e] = IF e = d THEN NULL ELSE buffer[e]
      BY <1>1, <2>1
    <3>2. \A e \in Devices \ {d} : buffer[e] # NULL => buffer[e] # buffer[d]
      BY <1>1 DEF BuffersAccounted
    <3>3. \A e \in Devices : buffer'[e] # NULL => Present(e)' /\ buffer'[e] \in pool'
      BY <1>1, <2>1, <3>1, <3>2 DEF BuffersAccounted, Present
    <3>4. \A a \in pool' : a \in unprepared' \/ \E e \in Devices : buffer'[e] = a
      BY <1>1, <2>1, <3>1 DEF BuffersAccounted
    <3>5. \A e, f \in Devices : buffer'[e] = buffer'[f] /\ buffer'[e] # NULL => e = f
      BY <1>1, <3>1 DEF BuffersAccounted
    <3> QED
      BY <3>3, <3>4, <3>5 DEF BuffersAccounted
  <2>3. LostOnlyUnprepared'
    BY <1>1, <2>1 DEF LostOnlyUnprepared
  <2> QED
    BY <2>2, <2>3 DEF BuffersInv
<1>8. CASE DeviceRemoved(d)
  <2>1. /\ stage[d] \in {"added", "broken"} /\ stage'[d] = "gone"
        /\ \A e \in Devices \ {d} : stage'[e] = stage[e]
        /\ buffer' = [buffer EXCEPT ![d] = NULL]
        /\ UNCHANGED poolVars
    BY <1>1, <1>8 DEF DeviceRemoved
  <2>2. BuffersAccounted'
    BY <1>1, <2>1 DEF BuffersAccounted, LostOnlyUnprepared, Present
  <2>3. LostOnlyUnprepared'
    BY <1>1, <2>1 DEF LostOnlyUnprepared
  <2> QED
    BY <2>2, <2>3 DEF BuffersInv
<1> QED
  BY <1>2, <1>3, <1>4, <1>5, <1>6, <1>7, <1>8 DEF DeviceStep

(* No buffer is freed twice, shared by two devices or used after it was    *)
(* freed, and only devices that were never prepared leave one behind.      *)
THEOREM NoBufferIsLost == Spec => []BuffersAccounted
<1>1. Init => BuffersInv
  BY DEF Init, LifecycleInit, BuffersInv, BuffersAccounted, LostOnlyUnprepared
<1>2. TypeOK /\ BuffersInv /\ [Next]_vars => BuffersInv'
  <2> SUFFICES ASSUME TypeOK, BuffersInv, [Next]_vars PROVE BuffersInv'
    OBVIOUS
  <2>1. CASE \E d \in Devices : DeviceStep(d)
    BY <2>1, DeviceStepBuffersInv
  <2>2. CASE UNCHANGED lifecycleVars
    BY <2>2 DEF BuffersInv, BuffersAccounted, LostOnlyUnprepared, Present
  <2> QED
    BY <2>1, <2>2, WriteStepMoves DEF Next, vars
<1>3. BuffersInv => BuffersAccounted
  BY DEF BuffersInv
<1> QED
  BY <1>1, <1>2, <1>3, DeviceTypeCorrect, PTL DEF Spec

-----------------------------------------------------------------------------
(* The pipe of a write.  A device that was prepared has both bulk pipes,   *)
(* and a write on its way keeps the device from being prepared again.      *)

PipesInv ==
  /\ \A d \in Devices : stage[d] \in {"prepared", "D0", "asleep"} => pipes[d] = Bulk
  /\ \A w \in Writes : handler[w] \in {"send", "sent"} =>
       stage[Port] \in {"D0", "asleep", "failed"} /\ pipes[Port] = Bulk

LEMMA NextPipesInv == TypeOK /\ PipesInv /\ [Next]_vars => PipesInv'
<1> SUFFICES ASSUME TypeOK, PipesInv, [Next]_vars PROVE PipesInv'
  OBVIOUS
<1>1. stage \in [Devices -> Stages] /\ pipes \in [Devices -> SUBSET Bulk]
      /\ handler \in [Writes -> {"idle", "send", "sent", "returned"}]
  BY DEF TypeOK
<1>2. CASE \E w \in Writes : WriteStep(w)
  <2>1. PICK w \in Writes : WriteStep(w)
    BY <1>2
  <2> QED
    BY <1>1, <2>1, WriteStepMoves DEF PipesInv
<1>3. CASE \E d \in Devices : DeviceStep(d)
  <2>1. PICK d \in Devices : DeviceStep(d)
    BY <1>3
  <2>2. UNCHANGED handler
    BY <2>1 DEF DeviceStep
  <2>3. CASE \/ \E n \in PortNames : AssignPortName(d, n)
             \/ DeviceAddFails(d)
    BY <2>2, <2>3 DEF AssignPortName, DeviceAddFails, PipesInv
  <2>4. CASE EvtDeviceAdd(d) \/ DeviceRemoved(d)
    <3>1. /\ stage[d] \in {"gone", "added", "broken"} /\ stage'[d] \in {"gone", "added"}
          /\ \A e \in Devices \ {d} : stage'[e] = stage[e] /\ pipes'[e] = pipes[e]
      BY <1>1, <2>4 DEF EvtDeviceAdd, DeviceRemoved, Present
    <3> QED
      BY <2>2, <3>1 DEF PipesInv
  <2>5. CASE EvtDevicePrepareHardware(d)
    <3>1. /\ stage[d] = "added"
          /\ \/ stage'[d] = "failed"
             \/ stage'[d] = "prepared" /\ pipes'[d] = Bulk
          /\ \A e \in Devices \ {d} : stage'[e] = stage[e] /\ pipes'[e] = pipes[e]
      BY <1>1, <2>5 DEF EvtDevicePrepareHardware
    <3> QED
      BY <2>2, <3>1 DEF PipesInv
  <2>6. CASE EvtDeviceD0Entry(d) \/ EvtDeviceD0Exit(d)
    <3>1. /\ stage[d] \in {"prepared", "D0", "asleep"}
          /\ stage'[d] \in {"D0", "asleep", "failed"}
          /\ \A e \in Devices \ {d} : stage'[e] = stage[e]
          /\ UNCHANGED pipes
      BY <1>1, <2>6 DEF EvtDeviceD0Entry, EvtDeviceD0Exit
    <3> QED
      BY <2>2, <3>1 DEF PipesInv
  <2>7. CASE (d = Port => AllReturned) /\ EvtDeviceReleaseHardware(d)
    <3>1. /\ stage'[d] \in {"added", "broken"}
          /\ \A e \in Devices \ {d} : stage'[e] = stage[e]
          /\ UNCHANGED pipes
      BY <1>1, <2>7 DEF EvtDeviceReleaseHardware
    <3> QED
      BY <1>1, <2>2, <2>7, <3>1 DEF PipesInv, AllReturned
  <2> QED
    BY <2>1, <2>3, <2>4, <2>5, <2>6, <2>7 DEF DeviceStep
<1>4. CASE UNCHANGED vars
  BY <1>4 DEF vars, PipesInv
<1> QED
  BY <1>2, <1>3, <1>4 DEF Next

(* EvtIoWrite and the framework that carries the write out never meet a    *)
(* device without a bulk OUT pipe, however often it is prepared.           *)
THEOREM WritesHaveTheirPipe == Spec => []WriteHasPipe
<1>1. Init => PipesInv
  BY DEF Init, LifecycleInit, PipesInv
<1>2. PipesInv => WriteHasPipe
  BY DEF PipesInv, WriteHasPipe, Bulk
<1> QED
  BY <1>1, <1>2, NextPipesInv, DeviceTypeCorrect, PTL DEF Spec
-----------------------------------------------------------------------------
(* Writes are served.  What the application sees of them: the values       *)
(* WritePath gives the variables of RequestService.                        *)

Phase == [w \in Writes |-> IF Completed(w) THEN "done"
                           ELSE IF handler[w] = "idle" THEN "unsent"
                           ELSE "pending"]

CancelAsked(w) == w \in cancelled

Asked == [w \in Writes |-> CancelAsked(w)]

(* Whoever has a write completes it when it is through with it, and nobody *)
(* completes it before: this is what makes its outcome final.              *)
CompletedOnReturn == \A w \in Writes : Completed(w) <=> handler[w] = "returned"

ServiceStep == Service!Next \/ UNCHANGED Service!serviceVars

LEMMA NextCompletedOnReturn == TypeOK /\ CompletedOnReturn /\ [Next]_vars => CompletedOnReturn'
<1> SUFFICES ASSUME TypeOK, CompletedOnReturn, [Next]_vars PROVE CompletedOnReturn'
  OBVIOUS
<1>1. CASE \E w \in Writes : WriteStep(w)
  BY <1>1 DEF TypeOK, CompletedOnReturn, Completed, Complete, WriteStep, EvtIoWrite,
              SendWrite, PipeTakes, PipeFails, PipeCancels, EvtWriteComplete, AppCancel
<1>2. CASE UNCHANGED writeVars
  BY <1>2 DEF CompletedOnReturn, Completed
<1> QED
  BY <1>1, <1>2 DEF Next, DeviceStep, vars

(* The steps of RequestService in these terms.                             *)

LEMMA StutterStep ==
  ASSUME UNCHANGED <<Phase, Asked, status, Leaving>>
  PROVE  ServiceStep
BY DEF ServiceStep, Phase, Asked, Leaving, CancelAsked, Service!serviceVars

LEMMA LeavingStep ==
  ASSUME Leaving' = ~ Leaving, UNCHANGED <<Phase, Asked, status>>
  PROVE  ServiceStep
<1>1. Service!LeaveOrReturn
  BY DEF Phase, Asked, CancelAsked, Service!LeaveOrReturn
<1> QED
  BY <1>1 DEF ServiceStep, Service!Next

LEMMA SendStep ==
  ASSUME NEW w \in Writes,
         Phase[w] = "unsent", Phase' = [Phase EXCEPT ![w] = "pending"],
         UNCHANGED <<Asked, status, Leaving>>
  PROVE  ServiceStep
<1>1. Service!Send(w)
  BY DEF Phase, Asked, CancelAsked, Service!Send
<1> QED
  BY <1>1 DEF ServiceStep, Service!Next

LEMMA CancelStep ==
  ASSUME NEW w \in Writes,
         Phase[w] = "pending", Asked' = [Asked EXCEPT ![w] = TRUE],
         UNCHANGED <<Phase, status, Leaving>>
  PROVE  ServiceStep
<1>1. Service!Cancel(w)
  BY DEF Phase, Asked, CancelAsked, Service!Cancel
<1> QED
  BY <1>1 DEF ServiceStep, Service!Next

LEMMA FinishStep ==
  ASSUME NEW w \in Writes, NEW s \in {"SUCCESS", "CANCELLED", "UNSUCCESSFUL"},
         Phase[w] = "pending", Phase' = [Phase EXCEPT ![w] = "done"],
         s = "CANCELLED" => Asked[w] \/ Leaving,
         status' = [status EXCEPT ![w] = s],
         UNCHANGED <<Asked, Leaving>>
  PROVE  ServiceStep
<1>1. Service!Finish(w, s)
  BY DEF Phase, Asked, CancelAsked, Service!Finish
<1> QED
  BY <1>1 DEF ServiceStep, Service!Next, Service!Statuses

LEMMA ServeStep ==
  ASSUME NEW w \in Writes,
         Phase[w] = "unsent", Phase' = [Phase EXCEPT ![w] = "done"],
         status' = [status EXCEPT ![w] = "UNSUCCESSFUL"],
         UNCHANGED <<Asked, Leaving>>
  PROVE  ServiceStep
<1>1. Service!Serve(w, "UNSUCCESSFUL")
  BY DEF Phase, Asked, CancelAsked, Service!Serve
<1> QED
  BY <1>1 DEF ServiceStep, Service!Next, Service!Statuses

(* How the steps of a write move what the application sees of it.          *)

LEMMA Progresses ==
  ASSUME TypeOK, CompletedOnReturn, NEW w \in Writes, NEW q \in {"send", "sent"},
         ~ Completed(w), handler' = [handler EXCEPT ![w] = q], UNCHANGED status
  PROVE  Phase' = [Phase EXCEPT ![w] = "pending"]
BY DEF Phase, Completed, TypeOK

LEMMA Returns ==
  ASSUME TypeOK, NEW w \in Writes, NEW s \in {"SUCCESS", "CANCELLED", "UNSUCCESSFUL"},
         handler' = [handler EXCEPT ![w] = "returned"], Complete(w, s)
  PROVE  Phase' = [Phase EXCEPT ![w] = "done"]
BY DEF Phase, Completed, Complete, TypeOK

LEMMA PhaseOf ==
  ASSUME CompletedOnReturn, NEW w \in Writes
  PROVE  /\ handler[w] = "idle" => ~ Completed(w) /\ Phase[w] = "unsent"
         /\ handler[w] \in {"send", "sent"} => ~ Completed(w) /\ Phase[w] = "pending"
BY DEF CompletedOnReturn, Phase

LEMMA WriteStepServes ==
  ASSUME TypeOK, CompletedOnReturn, NEW w \in Writes, WriteStep(w)
  PROVE  ServiceStep
<1>1. UNCHANGED Leaving
  BY WriteStepMoves DEF Leaving
<1>2. UNCHANGED cancelled => UNCHANGED Asked
  BY DEF Asked, CancelAsked
<1>3. ASSUME NEW s \in {"SUCCESS", "CANCELLED", "UNSUCCESSFUL"},
             handler[w] \in {"send", "sent"}, s = "CANCELLED" => MayCancel(w),
             handler' = [handler EXCEPT ![w] = "returned"], Complete(w, s),
             UNCHANGED cancelled
      PROVE  ServiceStep
  <2>1. s = "CANCELLED" => Asked[w] \/ Leaving
    BY <1>3 DEF MayCancel, Asked, CancelAsked
  <2> QED
    BY <1>1, <1>2, <1>3, <2>1, PhaseOf, Returns, FinishStep DEF Complete
<1>4. CASE EvtIoWrite(w)
  <2>1. CASE handler' = [handler EXCEPT ![w] = "send"] /\ UNCHANGED status
    BY <1>1, <1>2, <1>4, <2>1, PhaseOf, Progresses, SendStep DEF EvtIoWrite
  <2>2. CASE handler' = [handler EXCEPT ![w] = "returned"] /\ Complete(w, "UNSUCCESSFUL")
    BY <1>1, <1>2, <1>4, <2>2, PhaseOf, Returns, ServeStep DEF EvtIoWrite, Complete
  <2> QED
    BY <1>4, <2>1, <2>2 DEF EvtIoWrite
<1>5. CASE SendWrite(w)
  <2>1. CASE handler' = [handler EXCEPT ![w] = "sent"] /\ UNCHANGED status
    <3>1. handler[w] = "send" /\ UNCHANGED Phase
      BY <1>5, <2>1, PhaseOf DEF SendWrite, Phase, Completed, TypeOK
    <3> QED
      BY <1>1, <1>2, <1>5, <2>1, <3>1, StutterStep DEF SendWrite
  <2> QED
    BY <1>3, <1>5, <2>1 DEF SendWrite
<1>6. CASE PipeTakes(w) \/ PipeFails(w) \/ PipeCancels(w)
  BY <1>3, <1>6 DEF PipeTakes, PipeFails, PipeCancels, EvtWriteComplete
<1>7. CASE AppCancel(w)
  <2>1. handler[w] \in {"send", "sent"} /\ UNCHANGED <<handler, status>>
    BY <1>7 DEF AppCancel, CompletedOnReturn, TypeOK
  <2>2. UNCHANGED Phase
    BY <2>1 DEF Phase, Completed
  <2>3. CancelAsked(w)' /\ \A v \in Writes \ {w} : CancelAsked(v)' = CancelAsked(v)
    BY <1>7 DEF AppCancel, CancelAsked
  <2>4. Asked' = [Asked EXCEPT ![w] = TRUE]
    BY <2>3 DEF Asked
  <2> QED
    BY <1>1, <2>1, <2>2, <2>4, PhaseOf, CancelStep
<1> QED
  BY <1>4, <1>5, <1>6, <1>7 DEF WriteStep

LEMMA NextServes == TypeOK /\ CompletedOnReturn /\ [Next]_vars => ServiceStep
<1> SUFFICES ASSUME TypeOK, CompletedOnReturn, [Next]_vars PROVE ServiceStep
  OBVIOUS
<1>1. CASE \E w \in Writes : WriteStep(w)
  BY <1>1, WriteStepServes
<1>2. CASE UNCHANGED writeVars
  <2>1. UNCHANGED <<Phase, Asked, status>>
    BY <1>2 DEF Phase, Completed, Asked, CancelAsked
  <2>2. Leaving' = Leaving \/ Leaving' = ~ Leaving
    BY DEF Leaving
  <2> QED
    BY <2>1, <2>2, StutterStep, LeavingStep
<1> QED
  BY <1>1, <1>2 DEF Next, DeviceStep, vars

(* For any number of devices and writes, a write has one outcome that is   *)
(* never changed again, and STATUS_CANCELLED only if it was cancelled or   *)
(* met the device leaving D0: WritePath implements RequestService.         *)
THEOREM WritesAreServed == Spec => ImplementsService
<1>1. Init => Service!Init
  <2> SUFFICES ASSUME Init PROVE Service!Init
    OBVIOUS
  <2>1. Phase = [w \in Writes |-> "unsent"]
    BY DEF Init, Phase, Completed
  <2>2. Asked = [w \in Writes |-> FALSE]
    <3>1. \A w \in Writes : CancelAsked(w) = FALSE
      BY DEF Init, CancelAsked
    <3> QED
      BY <3>1 DEF Asked
  <2>3. Leaving = FALSE
    BY DEF Init, LifecycleInit, Leaving
  <2> QED
    BY <2>1, <2>2, <2>3 DEF Init, Phase, Asked, CancelAsked, Service!Init
<1>2. Init => CompletedOnReturn
  BY DEF Init, CompletedOnReturn, Completed
<1>3. TypeOK /\ CompletedOnReturn /\ [Next]_vars => [Service!Next]_(Service!serviceVars)
  BY NextServes DEF ServiceStep
<1> QED
  BY <1>1, <1>2, <1>3, NextCompletedOnReturn, DeviceTypeCorrect, PTL
     DEF Spec, ImplementsService, Service!Spec
=============================================================================
