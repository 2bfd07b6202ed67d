------------------------------ MODULE Devices ------------------------------
(***************************************************************************)
(* The devices of one user: api/devices.py with its queries in             *)
(* services/auth_service.py.                                               *)
(*                                                                         *)
(* A device request is a transaction that reads, decides and is committed  *)
(* after it; what others commit meanwhile it does not see.  A pairing code *)
(* is its device: two are never alike.                                     *)
(***************************************************************************)
EXTENDS Integers, Sequences, FiniteSets

CONSTANTS
    Visitors,      \* device requests served at one time
    MaxTrusted,    \* max_trusted_devices
    CodeLife,      \* how long a pairing code is valid
    MaxDevices,    \* bound on the devices
    MaxClock       \* bound on the time

ASSUME DevicesAssumptions ==
    /\ IsFiniteSet(Visitors)
    /\ MaxTrusted \in Nat \ {0}
    /\ CodeLife \in Nat \ {0}
    /\ MaxDevices \in Nat
    /\ MaxClock \in Nat

VARIABLES
    clock,
    devices,    \* the devices table: status and the end of the code's life (0: no code)
    visit,      \* the transaction of each device request
    crowded,    \* a pairing or first registration began beside another (history)
    barred      \* devices revoked while no confirmation of them was under way (history)

deviceVars == <<clock, devices, visit, crowded, barred>>

NoVisit == [op |-> "none"]

DevicesInit ==
    /\ clock = 0
    /\ devices = <<>>
    /\ visit = [v \in Visitors |-> NoVisit]
    /\ crowded = FALSE
    /\ barred = {}

Tick ==
    /\ clock < MaxClock
    /\ clock' = clock + 1
    /\ UNCHANGED <<devices, visit, crowded, barred>>

-----------------------------------------------------------------------------
(* Devices.                                                                *)

Trusted == {i \in DOMAIN devices : devices[i].status = "trusted"}

\* A faulty variant: whatever the status.
Pending_Any == {i \in DOMAIN devices : devices[i].expires > clock}

\* The devices get_pending_device finds by their code.
Pending == {i \in DOMAIN devices : devices[i].status = "pending" /\ devices[i].expires > clock}

\* A faulty variant: one device too many.
Full_Late == Cardinality(Trusted) > MaxTrusted

Full == Cardinality(Trusted) >= MaxTrusted

\* Requests that add a device.
Adding == {v \in Visitors : visit[v].op \in {"register", "pair"}}

\* Devices that are being confirmed.
Confirming == {i \in DOMAIN devices : \E v \in Visitors : visit[v].op = "confirm" /\ visit[v].device = i}

\* Somebody may yet become trusted.
Underway == Pending # {} \/ Adding # {} \/ Confirming # {}

Opens(v, s) ==
    /\ visit[v] = NoVisit
    /\ visit' = [visit EXCEPT ![v] = s]
    /\ UNCHANGED <<clock, devices, barred>>

\* The bound on the devices.
Room == Len(devices) + Cardinality(Adding) < MaxDevices

RegisterFirstDevice(v) ==
    /\ Trusted = {}
    /\ Opens(v, [op |-> "register"])
    /\ Room
    /\ crowded' = (crowded \/ Underway)

\* initiate_pairing, get_pairing_qr: only these count the trusted devices.
InitiatePairing(v) ==
    /\ ~Full
    /\ Opens(v, [op |-> "pair", expires |-> clock + CodeLife])
    /\ Room
    /\ crowded' = (crowded \/ Underway)

ConfirmPairing(v, i) ==
    /\ i \in Pending
    /\ Opens(v, [op |-> "confirm", device |-> i])
    /\ UNCHANGED crowded

RevokeDevice(v, i) ==
    /\ Opens(v, [op |-> "revoke", device |-> i, was |-> devices[i].status])
    /\ UNCHANGED crowded

Added(status, expires) == Append(devices, [status |-> status, expires |-> expires])

\* The commit writes what the request has assigned, whatever the row has become; the code
\* of a revoked device stays.
Saves(v) ==
    LET s == visit[v] IN
    /\ s.op # "none"
    /\ devices' = CASE s.op = "register" -> Added("trusted", 0)
                    [] s.op = "pair"     -> Added("pending", s.expires)
                    [] s.op = "confirm"  -> [devices EXCEPT ![s.device] = [status |-> "trusted", expires |-> 0]]
                    [] s.op = "revoke"   -> [devices EXCEPT ![s.device].status =
                                               IF s.was = "revoked" THEN @ ELSE "revoked"]
    /\ barred' = IF s.op = "revoke" /\ devices'[s.device].status = "revoked" /\ s.device \notin Confirming
                 THEN barred \union {s.device} ELSE barred
    /\ visit' = [visit EXCEPT ![v] = NoVisit]
    /\ UNCHANGED <<clock, crowded>>

\* The commit fails, or the process dies.
Drops(v) ==
    /\ visit[v] # NoVisit
    /\ visit' = [visit EXCEPT ![v] = NoVisit]
    /\ UNCHANGED <<clock, devices, crowded, barred>>

-----------------------------------------------------------------------------
DeviceRequest(v) ==
    \/ RegisterFirstDevice(v)
    \/ InitiatePairing(v)
    \/ \E i \in DOMAIN devices : ConfirmPairing(v, i) \/ RevokeDevice(v, i)
    \/ Saves(v)
    \/ Drops(v)

DevicesNext == Tick \/ \E v \in Visitors : DeviceRequest(v)

DevicesSpec == DevicesInit /\ [][DevicesNext]_deviceVars

-----------------------------------------------------------------------------
(* Properties.                                                             *)

VisitType(s) ==
    \/ s = NoVisit
    \/ s = [op |-> "register"]
    \/ s.op = "pair" /\ s.expires \in Nat
    \/ s.op \in {"confirm", "revoke"} /\ s.device \in DOMAIN devices

DevicesTypeOK ==
    /\ clock \in Nat
    /\ devices \in Seq([status : {"pending", "trusted", "revoked"}, expires : Nat])
    /\ DOMAIN visit = Visitors
    /\ \A v \in Visitors : VisitType(visit[v])
    /\ crowded \in BOOLEAN
    /\ barred \subseteq DOMAIN devices

\* A revoked device is never trusted again, although its code stays valid for the rest of
\* its life, unless its confirmation was under way when it was revoked; and there are more
\* trusted devices than allowed only if a pairing or a first registration began beside
\* another, since devices are counted when a code is given out and not when it is used.
TrustIsGuarded ==
    /\ \A i \in barred : devices[i].status = "revoked"
    /\ Cardinality(Trusted) > MaxTrusted => crowded
=============================================================================
