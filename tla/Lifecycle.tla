----------------------------- MODULE Lifecycle -----------------------------
(***************************************************************************)
(* The life of the driver's devices, from EvtDeviceAdd to the deletion of  *)
(* the device object, and what it does to things that outlive a device or  *)
(* are shared by several: the pool, the COM port names in the registry,    *)
(* the \DosDevices links and the SERIALCOMM device map.                    *)
(*                                                                         *)
(* External, from how the code registers its callbacks: the framework      *)
(* calls EvtDevicePrepareHardware and EvtDeviceD0Entry in this order,      *)
(* EvtDeviceReleaseHardware after a failure of either and whenever the     *)
(* device is stopped or leaves, and a stopped device may be prepared       *)
(* again.  A device object that is deleted takes its links with it.        *)
(***************************************************************************)
EXTENDS Integers, Functions

CONSTANTS
  Devices,    \* the adapters, each with a hardware key in the registry
  PortNames,  \* the numbers n of the port names COMn; 0, a name without one
  MaxAdds,    \* bound: calls of EvtDeviceAdd in one behaviour
  NULL

DEFAULT_PORT == 10  \* the driver's default name is COM10

ASSUME LifecycleAssumption ==
  /\ PortNames \subseteq Nat
  /\ DEFAULT_PORT \in PortNames
  /\ MaxAdds \in Nat
  /\ NULL \notin Nat

VARIABLES
  stage,       \* how far the framework has brought the device
  \* DEVICE_CONTEXT
  PortNumber,
  PortRegistered,
  buffer,      \* RxBuffer.Buffer, the allocation it points to, or NULL
  pipes,       \* which of BulkInPipe and BulkOutPipe are set
  \* outside the driver
  PortName,    \* the PortName values of the hardware keys, or NULL
  links,       \* the \DosDevices\COMn links: name -> device
  serialcomm,  \* the numbers n of the entries \Device\ch341arm64_n in SERIALCOMM
  pool,        \* the driver's pool allocations
  adds,        \* calls of EvtDeviceAdd so far, which number the allocations
  unprepared,  \* history: allocations of devices that were never prepared
  undeleted    \* history: numbers of entries the registry would not delete

contextVars == <<PortNumber, PortRegistered, buffer, pipes>>
mapVars == <<serialcomm, undeleted>>
systemVars == <<PortName, links, mapVars>>
poolVars == <<pool, adds, unprepared>>

lifecycleVars == <<stage, contextVars, systemVars, poolVars>>

EmptyMap == [n \in {} |-> NULL]

(* A device object exists. *)
Present(d) == stage[d] # "gone"

LifecycleInit ==
  /\ stage = [d \in Devices |-> "gone"]
  /\ PortNumber = [d \in Devices |-> 0]
  /\ PortRegistered = [d \in Devices |-> FALSE]
  /\ buffer = [d \in Devices |-> NULL]
  /\ pipes = [d \in Devices |-> {}]
  /\ PortName \in [Devices -> {NULL}]
  /\ links = EmptyMap
  /\ serialcomm = {}
  /\ undeleted = {}
  /\ pool = {}
  /\ adds = 0
  /\ unprepared = {}

(* External: Windows, or its user, gives the adapter another port. *)
AssignPortName(d, n) ==
  /\ PortName' = [PortName EXCEPT ![d] = n]
  /\ UNCHANGED <<stage, contextVars, links, mapVars, poolVars>>

-----------------------------------------------------------------------------
(* EvtDeviceAdd. *)

(* The digits after "COM"; a name without any counts as the default. *)
ParsePortNumber(n) == IF n > 0 THEN n ELSE DEFAULT_PORT

(* A wrong SerialRegisterComPort: a key that cannot be opened leaves the   *)
(* name empty, and the link is made all the same.                          *)
SerialRegisterUnnamed(d) ==
  \E opened \in BOOLEAN :
    LET number == IF opened /\ PortName[d] # NULL THEN PortName[d] ELSE DEFAULT_PORT
        name == IF opened THEN number ELSE NULL
    IN
    /\ PortName' = IF opened THEN [PortName EXCEPT ![d] = number] ELSE PortName
    /\ PortNumber' = [PortNumber EXCEPT ![d] = ParsePortNumber(number)]
    /\ PortRegistered' = [PortRegistered EXCEPT ![d] = TRUE]
    /\ links' = [n \in DOMAIN links \cup {name} |-> IF n = name THEN d ELSE links[n]]

(* The key is opened and queried, and given the default unless a name was  *)
(* found in it; each of the three may fail.  The link is not made when the *)
(* name is taken, or for another reason; that is not an error.             *)
SerialRegisterComPort(d) ==
  \E opened, queried, stored \in BOOLEAN :
    LET portNameExists == opened /\ queried /\ PortName[d] # NULL
        name == IF portNameExists THEN PortName[d] ELSE DEFAULT_PORT
    IN
    /\ PortName' = IF opened /\ stored THEN [PortName EXCEPT ![d] = name] ELSE PortName
    /\ PortNumber' = [PortNumber EXCEPT ![d] = ParsePortNumber(name)]
    /\ PortRegistered' = [PortRegistered EXCEPT ![d] = TRUE]
    /\ \/ /\ name \notin DOMAIN links
          /\ links' = [n \in DOMAIN links \cup {name} |->
                         IF n = name THEN d ELSE links[n]]
       \/ UNCHANGED links

(* The context is zeroed and RingBufInit allocates the buffer.             *)
EvtDeviceAdd(d) ==
  /\ ~ Present(d)
  /\ adds < MaxAdds
  /\ adds' = adds + 1
  /\ pool' = pool \cup {adds'}
  /\ unprepared' = unprepared \cup {adds'}
  /\ stage' = [stage EXCEPT ![d] = "added"]
  /\ buffer' = [buffer EXCEPT ![d] = adds']
  /\ pipes' = [pipes EXCEPT ![d] = {}]
  /\ SerialRegisterComPort(d)
  /\ UNCHANGED mapVars

(* QueueInitialize or the device interface fails.  The framework deletes   *)
(* the device object; nothing frees the buffer.  (A failure before the     *)
(* allocation changes nothing.)                                            *)
DeviceAddFails(d) ==
  /\ ~ Present(d)
  /\ adds < MaxAdds
  /\ adds' = adds + 1
  /\ pool' = pool \cup {adds'}
  /\ unprepared' = unprepared \cup {adds'}
  /\ UNCHANGED <<stage, contextVars, systemVars>>

-----------------------------------------------------------------------------
Bulk == {"bulkIn", "bulkOut"}

(* A wrong EvtDevicePrepareHardware: only the bulk IN endpoint is required. *)
PrepareWithoutBulkOut(d) ==
  /\ stage[d] = "added"
  /\ unprepared' = unprepared \ {buffer[d]}
  /\ \E found \in SUBSET Bulk :
       /\ pipes' = [pipes EXCEPT ![d] = found]
       /\ stage' = [stage EXCEPT ![d] =
                      IF "bulkIn" \in found THEN "prepared" ELSE "failed"]
  /\ UNCHANGED <<PortNumber, PortRegistered, buffer, systemVars, pool, adds>>

(* DeviceConfigureUsb, DeviceDiscoverEndpoints and DeviceStartContinuous-  *)
(* Reader; each can fail and ends the callback.  Without an interrupt      *)
(* endpoint the device is started too; InterruptPipe, like ReaderStarted,  *)
(* is never read.                                                          *)
EvtDevicePrepareHardware(d) ==
  /\ stage[d] = "added"
  /\ unprepared' = unprepared \ {buffer[d]}
  /\ \/ /\ stage' = [stage EXCEPT ![d] = "failed"]
        /\ UNCHANGED pipes
     \/ \E found \in SUBSET Bulk :
          /\ pipes' = [pipes EXCEPT ![d] = found]
          /\ \/ stage' = [stage EXCEPT ![d] = "failed"]
             \/ /\ found = Bulk
                /\ stage' = [stage EXCEPT ![d] = "prepared"]
  /\ UNCHANGED <<PortNumber, PortRegistered, buffer, systemVars, pool, adds>>

(* A wrong SerialUnmapComPort: the entry of the name Windows has assigned. *)
SerialUnmapAssignedName(d) ==
  \/ /\ serialcomm' = serialcomm \ {PortName[d]}
     /\ undeleted' = undeleted \ {PortName[d]}
  \/ /\ undeleted' = undeleted \cup ({PortName[d]} \cap serialcomm)
     /\ UNCHANGED serialcomm

(* SerialMapComPort.  The entry is named for the number the driver parsed  *)
(* in EvtDeviceAdd.  Its data, which the driver never looks at again, is   *)
(* left out: the name the registry holds now, or the driver's if that      *)
(* cannot be read.  A failing write is only logged.                        *)
SerialMapComPort(d) ==
  \/ UNCHANGED mapVars
  \/ /\ serialcomm' = serialcomm \cup {PortNumber[d]}
     /\ undeleted' = undeleted \ {PortNumber[d]}

(* The delete may fail, of which the code does not take notice: the entry  *)
(* stays until a device of the same number writes or deletes it.           *)
SerialUnmapComPort(d) ==
  \/ /\ serialcomm' = serialcomm \ {PortNumber[d]}
     /\ undeleted' = undeleted \ {PortNumber[d]}
  \/ /\ undeleted' = undeleted \cup ({PortNumber[d]} \cap serialcomm)
     /\ UNCHANGED serialcomm

(* Ch341InitHardware can fail. *)
EvtDeviceD0Entry(d) ==
  /\ stage[d] \in {"prepared", "asleep"}
  /\ \/ /\ stage' = [stage EXCEPT ![d] = "failed"]
        /\ UNCHANGED mapVars
     \/ /\ stage' = [stage EXCEPT ![d] = "D0"]
        /\ IF PortRegistered[d] THEN SerialMapComPort(d) ELSE UNCHANGED mapVars
  /\ UNCHANGED <<contextVars, PortName, links, poolVars>>

(* What it does to the data path is in RxPath. *)
EvtDeviceD0Exit(d) ==
  /\ stage[d] = "D0"
  /\ stage' = [stage EXCEPT ![d] = "asleep"]
  /\ UNCHANGED <<contextVars, systemVars, poolVars>>

(* A wrong EvtDeviceReleaseHardware: the buffer is freed and its pointer   *)
(* kept.                                                                   *)
ReleaseKeepsPointer(d) ==
  /\ stage[d] \in {"asleep", "failed"}
  /\ stage' = [stage EXCEPT ![d] = IF @ = "asleep" THEN "added" ELSE "broken"]
  /\ IF PortRegistered[d] THEN SerialUnmapComPort(d) ELSE UNCHANGED mapVars
  /\ pool' = pool \ {buffer[d]}
  /\ UNCHANGED <<PortNumber, PortRegistered, buffer, pipes, PortName, links,
                 adds, unprepared>>

(* A device that failed to start is not prepared again. *)
EvtDeviceReleaseHardware(d) ==
  /\ stage[d] \in {"asleep", "failed"}
  /\ stage' = [stage EXCEPT ![d] = IF @ = "asleep" THEN "added" ELSE "broken"]
  /\ IF PortRegistered[d] THEN SerialUnmapComPort(d) ELSE UNCHANGED mapVars
  /\ pool' = pool \ {buffer[d]}
  /\ buffer' = [buffer EXCEPT ![d] = NULL]
  /\ UNCHANGED <<PortNumber, PortRegistered, pipes, PortName, links, adds,
                 unprepared>>

(* External: the device object is deleted, its context and links with it.  *)
(* The driver registers no cleanup callback.                               *)
DeviceRemoved(d) ==
  /\ stage[d] \in {"added", "broken"}
  /\ stage' = [stage EXCEPT ![d] = "gone"]
  /\ PortNumber' = [PortNumber EXCEPT ![d] = 0]
  /\ PortRegistered' = [PortRegistered EXCEPT ![d] = FALSE]
  /\ buffer' = [buffer EXCEPT ![d] = NULL]
  /\ pipes' = [pipes EXCEPT ![d] = {}]
  /\ links' = Restrict(links, {n \in DOMAIN links : links[n] # d})
  /\ UNCHANGED <<PortName, mapVars, poolVars>>
=============================================================================
