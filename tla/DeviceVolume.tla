---------------------------- MODULE DeviceVolume ----------------------------
(***************************************************************************)
(* The server's idea of the toy's volume (internal/server/                 *)
(* xiaozhi_device.go): the ticker polls the device's status, the reader    *)
(* takes the answers and corrects a volume out of range, the replier       *)
(* carries out volume commands.  Reader and replier write to the device    *)
(* first and to c.volume afterwards, without a common lock.  Every status  *)
(* carries a volume; answers to set_volume, whose id is never the status   *)
(* id, are left out.                                                       *)
(***************************************************************************)
EXTENDS Integers, Sequences, Functions

CONSTANTS
    Top,                    \* the device's own scale is 0..Top
    VolumeMin, VolumeMax,   \* PUPBOX_XIAOZHI_VOLUME_MIN, _MAX
    DefaultVolume, Step,    \* defaultDeviceVolume, deviceVolumeStep
    MaxCommands, MaxKeys,   \* volume commands, key presses in a behaviour
    MaxLate                 \* polls while an earlier one is not answered yet

ASSUME VolumeAssumption ==
    /\ {Top, VolumeMin, VolumeMax, DefaultVolume, Step, MaxCommands, MaxKeys} \subseteq Nat
    /\ VolumeMin <= VolumeMax /\ VolumeMax <= Top /\ MaxLate \in Nat

VARIABLES
    volume, volumeKnown,   \* under deviceMu
    wants,                 \* what reader and replier want to set, or have set
    pc,                    \* "idle", "write" or "store", for each of them
    down, up,              \* requests and answers on their way
    device,                \* the device's volume
    broken,                \* the connection no longer takes writes
    commands, keys, latePolls

budgets == <<commands, keys, latePolls>>
volumeVars == <<volume, volumeKnown, wants, pc, down, up, device, broken, budgets>>

Writers == {"reader", "replier"}
Scale == 0..Top
\* Mutant: the loudest volume is not enforced.
clampDeviceVolume_Unbounded(v) == IF v < VolumeMin THEN VolumeMin ELSE v
clampDeviceVolume(v) ==
    IF v < VolumeMin THEN VolumeMin ELSE IF v > VolumeMax THEN VolumeMax ELSE v
currentDeviceVolume == IF volumeKnown THEN volume ELSE DefaultVolume

\* A status request or answer; only the answer to the latest request counts.
Status(v) == [kind |-> "status", value |-> v, latest |-> TRUE]
Set(v) == [kind |-> "set", value |-> v, latest |-> FALSE]
Outdated(queue) == [i \in DOMAIN queue |-> [queue[i] EXCEPT !.latest = FALSE]]
Waiting == \E m \in Range(down) \union Range(up) : m.kind = "status"

VolumeInit ==
    /\ volume = 0 /\ volumeKnown = FALSE
    /\ wants = [w \in Writers |-> 0] /\ pc = [w \in Writers |-> "idle"]
    /\ down = <<Status(0)>> /\ up = <<>> /\ device \in Scale
    /\ broken = FALSE /\ commands = 0 /\ keys = 0 /\ latePolls = 0

\* requestDeviceStatus(): a new statusMCPID, then the request.
requestDeviceStatus ==
    /\ \/ ~Waiting /\ UNCHANGED latePolls
       \/ Waiting /\ latePolls < MaxLate /\ latePolls' = latePolls + 1
    /\ IF broken THEN UNCHANGED down ELSE down' = Append(Outdated(down), Status(0))
    /\ up' = Outdated(up)
    /\ UNCHANGED <<volume, volumeKnown, wants, pc, device, broken, commands, keys>>

\* setDeviceVolume() in two steps.
Goes(w, from, to) == pc[w] = from /\ pc' = [pc EXCEPT ![w] = to]

WriteVolume(w) ==
    /\ \/ ~broken /\ Goes(w, "write", "store") /\ down' = Append(down, Set(wants[w]))
       \/ broken /\ Goes(w, "write", "idle") /\ UNCHANGED down
    /\ UNCHANGED <<volume, volumeKnown, wants, up, device, broken, budgets>>

StoreVolume(w) ==
    /\ Goes(w, "store", "idle") /\ volume' = wants[w] /\ volumeKnown' = TRUE
    /\ UNCHANGED <<wants, down, up, device, broken, budgets>>

\* resolveVolumeCommand(): a number, a step from the current volume, the
\* loudest or the softest.
Targets ==
    Scale \union {currentDeviceVolume + Step, currentDeviceVolume - Step, VolumeMin, VolumeMax}
Command ==
    /\ commands < MaxCommands /\ commands' = commands + 1 /\ Goes("replier", "idle", "write")
    /\ wants' \in {[wants EXCEPT !["replier"] = clampDeviceVolume(v)] : v \in Targets}
    /\ UNCHANGED <<volume, volumeKnown, down, up, device, broken, keys, latePolls>>

\* Mutant: a volume out of range is not corrected.
handleMCPResponse_Accepts ==
    /\ pc["reader"] = "idle" /\ up # <<>> /\ up' = Tail(up)
    /\ IF Head(up).latest
       THEN volume' = clampDeviceVolume(Head(up).value) /\ volumeKnown' = TRUE
       ELSE UNCHANGED <<volume, volumeKnown>>
    /\ UNCHANGED <<wants, pc, down, device, broken, budgets>>

handleMCPResponse ==
    /\ pc["reader"] = "idle" /\ up # <<>> /\ up' = Tail(up)
    /\ LET raw == Head(up).value
           safe == clampDeviceVolume(raw)
       IN IF ~Head(up).latest THEN UNCHANGED <<volume, volumeKnown, wants, pc>>
          ELSE /\ volume' = safe /\ volumeKnown' = TRUE
               /\ IF raw = safe THEN UNCHANGED <<wants, pc>>
                  ELSE /\ wants' = [wants EXCEPT !["reader"] = safe]
                       /\ Goes("reader", "idle", "write")
    /\ UNCHANGED <<down, device, broken, budgets>>

\* The device carries out its requests in order; somebody presses a key.
DeviceServes ==
    /\ down # <<>> /\ down' = Tail(down)
    /\ IF Head(down).kind = "set" THEN device' = Head(down).value /\ UNCHANGED up
       ELSE up' = Append(up, [Head(down) EXCEPT !.value = device]) /\ UNCHANGED device
    /\ UNCHANGED <<volume, volumeKnown, wants, pc, broken, budgets>>

DeviceKey ==
    /\ keys < MaxKeys /\ keys' = keys + 1 /\ device' \in ({device - 1, device + 1} \intersect Scale)
    /\ UNCHANGED <<volume, volumeKnown, wants, pc, down, up, broken, commands, latePolls>>

\* Everything on its way is lost.
LinkLost ==
    /\ ~broken /\ broken' = TRUE /\ down' = <<>> /\ up' = <<>>
    /\ UNCHANGED <<volume, volumeKnown, wants, pc, device, budgets>>

VolumeNext ==
    \/ requestDeviceStatus \/ Command \/ handleMCPResponse \/ DeviceServes
    \/ DeviceKey \/ LinkLost \/ \E w \in Writers : WriteVolume(w) \/ StoreVolume(w)

VolumeSpec == VolumeInit /\ [][VolumeNext]_volumeVars

\* The ticker, the goroutines and the device go on; only MaxLate answers take
\* longer than the 30 s between two polls.
VolumeFairSpec ==
    /\ VolumeSpec /\ WF_volumeVars(~Waiting /\ requestDeviceStatus)
    /\ WF_volumeVars(handleMCPResponse) /\ WF_volumeVars(DeviceServes)
    /\ \A w \in Writers : WF_volumeVars(WriteVolume(w)) /\ WF_volumeVars(StoreVolume(w))

-----------------------------------------------------------------------------
Asked == [kind : {"status", "set"}, value : Scale, latest : BOOLEAN]
Safe == VolumeMin..VolumeMax

\* The types, and: once known the volume is in range, and the device is asked
\* for none out of range, although it reports any and two goroutines write.
VolumeInRange ==
    /\ volume \in {0} \union Safe /\ volumeKnown \in BOOLEAN
    /\ volumeKnown => volume \in Safe
    /\ wants \in [Writers -> {0} \union Safe]
    /\ pc \in [Writers -> {"idle", "write", "store"}]
    /\ \A w \in Writers : pc[w] # "idle" => wants[w] \in Safe
    /\ down \in Seq(Asked) /\ up \in Seq(Asked)
    /\ \A i \in DOMAIN down : down[i].kind = "set" => down[i].value \in Safe
    /\ device \in Scale /\ broken \in BOOLEAN
    /\ commands \in 0..MaxCommands /\ keys \in 0..MaxKeys /\ latePolls \in 0..MaxLate

\* Once commands and key presses cease, the two agree for good on a volume in
\* range, whichever order the two goroutines wrote and stored in, and although
\* an answer may describe the volume before a command.
VolumesAgree == <>[](broken \/ (volumeKnown /\ volume = device /\ device \in Safe))
=============================================================================
