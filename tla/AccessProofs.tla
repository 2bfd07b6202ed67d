---------------------------- MODULE AccessProofs ---------------------------
(***************************************************************************)
(* Proofs about Devices and RateLimit, for any number of devices, of       *)
(* requests at one time and of attempts, and any length of the window.     *)
(* The limit of trusted devices needs an invariant that counts, besides    *)
(* the trusted devices, everybody who may yet become one: as long as       *)
(* nothing has crowded in, they all have room.  The limit of attempts      *)
(* needs that the numbers the list has forgotten are of attempts that are  *)
(* outside of the window of any later one.                                 *)
(***************************************************************************)
EXTENDS Devices, RateLimit, FiniteSetTheorems, TLAPS

\* The devices that are trusted or may become so by the requests and codes there are.
Trustable == Trusted \union Pending \union Confirming

\* What a device was barred from stays away from it: nobody is about to confirm it.
BarredStayRevoked ==
    \A i \in barred : devices[i].status = "revoked" /\ i \notin Confirming

RoomForAll == ~crowded => Cardinality(Trustable) + Cardinality(Adding) <= MaxTrusted

DevicesInv == DevicesTypeOK /\ BarredStayRevoked /\ RoomForAll

Device == [status : {"pending", "trusted", "revoked"}, expires : Nat]

-----------------------------------------------------------------------------
(* Types.                                                                  *)

\* What a request opens, or has opened, is a visit, and the others are as they were.
LEMMA OpenedVisit ==
    ASSUME NEW v \in Visitors, NEW s, DevicesTypeOK, Opens(v, s)
    PROVE  /\ DOMAIN visit' = Visitors
           /\ visit'[v] = s
           /\ \A w \in Visitors \ {v} : visit'[w] = visit[w]
           /\ visit[v] = NoVisit
           /\ UNCHANGED <<clock, devices, barred>>
BY DEF Opens, DevicesTypeOK

LEMMA ClosedVisit ==
    ASSUME NEW v \in Visitors, DevicesTypeOK, visit' = [visit EXCEPT ![v] = NoVisit]
    PROVE  /\ DOMAIN visit' = Visitors
           /\ visit'[v] = NoVisit
           /\ \A w \in Visitors \ {v} : visit'[w] = visit[w]
BY DEF DevicesTypeOK

\* A device that is added is the last one.
LEMMA AppendedDevice ==
    ASSUME NEW t \in Seq(Device), NEW d \in Device
    PROVE  /\ Append(t, d) \in Seq(Device)
           /\ DOMAIN Append(t, d) = DOMAIN t \union {Len(t) + 1}
           /\ Len(t) + 1 \notin DOMAIN t
           /\ Append(t, d)[Len(t) + 1] = d
           /\ \A i \in DOMAIN t : Append(t, d)[i] = t[i]
<1>1. Append(t, d) \in Seq(Device) /\ Len(Append(t, d)) = Len(t) + 1 /\ Len(t) \in Nat
  OBVIOUS
<1>2. DOMAIN t = 1..Len(t) /\ DOMAIN Append(t, d) = 1..Len(t) + 1
  BY <1>1
<1>3. 1..Len(t) + 1 = (1..Len(t)) \union {Len(t) + 1} /\ Len(t) + 1 \notin 1..Len(t)
  BY <1>1
<1>4. Append(t, d)[Len(t) + 1] = d /\ \A i \in 1..Len(t) : Append(t, d)[i] = t[i]
  BY <1>1
<1> QED BY <1>1, <1>2, <1>3, <1>4

LEMMA ChangedDevice ==
    ASSUME NEW t \in Seq(Device), NEW i \in DOMAIN t, NEW d \in Device
    PROVE  /\ [t EXCEPT ![i] = d] \in Seq(Device)
           /\ DOMAIN [t EXCEPT ![i] = d] = DOMAIN t
           /\ [t EXCEPT ![i] = d][i] = d
           /\ \A j \in DOMAIN t \ {i} : [t EXCEPT ![i] = d][j] = t[j]
OBVIOUS

\* A commit keeps every device a device and at its place.
LEMMA SavedDevices ==
    ASSUME NEW v \in Visitors, DevicesTypeOK, Saves(v)
    PROVE  devices' \in Seq(Device) /\ DOMAIN devices \subseteq DOMAIN devices'
<1> DEFINE s == visit[v]
<1>0. VisitType(s) /\ devices \in Seq(Device) /\ s.op # "none" /\ s # NoVisit
  BY DEF DevicesTypeOK, Device, Saves, NoVisit
<1>1. CASE s.op = "register"
  <2>1. devices' = Append(devices, [status |-> "trusted", expires |-> 0])
    BY <1>1 DEF Saves, Added
  <2>2. [status |-> "trusted", expires |-> 0] \in Device
    BY DEF Device
  <2> QED BY <1>0, <2>1, <2>2, AppendedDevice
<1>2. CASE s.op = "pair"
  <2>1. devices' = Append(devices, [status |-> "pending", expires |-> s.expires])
    BY <1>2 DEF Saves, Added
  <2>2. s.expires \in Nat
    BY <1>0, <1>2 DEF VisitType
  <2>3. [status |-> "pending", expires |-> s.expires] \in Device
    BY <2>2 DEF Device
  <2> QED BY <1>0, <2>1, <2>3, AppendedDevice
<1>3. CASE s.op = "confirm"
  <2>1. devices' = [devices EXCEPT ![s.device] = [status |-> "trusted", expires |-> 0]]
    BY <1>3 DEF Saves
  <2>2. [status |-> "trusted", expires |-> 0] \in Device
    BY DEF Device
  <2>3. s.device \in DOMAIN devices
    BY <1>0, <1>3 DEF VisitType, NoVisit
  <2> QED BY <1>0, <2>1, <2>2, <2>3, ChangedDevice
<1>4. CASE s.op = "revoke"
  <2>1. devices' = [devices EXCEPT ![s.device].status = IF s.was = "revoked" THEN @ ELSE "revoked"]
    BY <1>4 DEF Saves
  <2>2. s.device \in DOMAIN devices
    BY <1>0, <1>4 DEF VisitType
  <2>3. devices[s.device] \in Device
    BY <1>0, <2>2
  <2>4. [devices[s.device] EXCEPT !.status = IF s.was = "revoked" THEN @ ELSE "revoked"] \in Device
    BY <2>3 DEF Device
  <2>5. devices' = [devices EXCEPT ![s.device] =
                      [devices[s.device] EXCEPT !.status = IF s.was = "revoked" THEN @ ELSE "revoked"]]
    BY <2>1
  <2> QED BY <1>0, <2>2, <2>4, <2>5, ChangedDevice
<1> QED BY <1>0, <1>1, <1>2, <1>3, <1>4 DEF VisitType

LEMMA TypeStep == DevicesTypeOK /\ [DevicesNext]_deviceVars => DevicesTypeOK'
<1> SUFFICES ASSUME DevicesTypeOK, [DevicesNext]_deviceVars PROVE DevicesTypeOK'
  OBVIOUS
<1> USE DevicesAssumptions
<1>1. CASE UNCHANGED deviceVars
  BY <1>1 DEF deviceVars, DevicesTypeOK, VisitType
<1>2. CASE Tick
  BY <1>2 DEF Tick, DevicesTypeOK, VisitType
<1>3. ASSUME NEW v \in Visitors, RegisterFirstDevice(v) PROVE DevicesTypeOK'
  <2>1. Opens(v, [op |-> "register"]) /\ crowded' = (crowded \/ Underway)
    BY <1>3 DEF RegisterFirstDevice
  <2>2. VisitType(visit[v])' /\ \A w \in Visitors \ {v} : VisitType(visit[w])'
    BY <2>1, OpenedVisit DEF VisitType, DevicesTypeOK
  <2>3. crowded' \in BOOLEAN
    BY <2>1
  <2> QED BY <2>1, <2>2, <2>3, OpenedVisit DEF DevicesTypeOK, VisitType
<1>4. ASSUME NEW v \in Visitors, InitiatePairing(v) PROVE DevicesTypeOK'
  <2>1. Opens(v, [op |-> "pair", expires |-> clock + CodeLife]) /\ crowded' = (crowded \/ Underway)
    BY <1>4 DEF InitiatePairing
  <2>2. clock + CodeLife \in Nat
    BY DEF DevicesTypeOK
  <2>3. VisitType(visit[v])'
    <3>1. visit'[v] = [op |-> "pair", expires |-> clock + CodeLife]
      BY <2>1, OpenedVisit
    <3>2. visit'[v].op = "pair" /\ visit'[v].expires = clock + CodeLife
      BY <3>1
    <3> QED BY <2>2, <3>2 DEF VisitType
  <2>4. ASSUME NEW w \in Visitors \ {v} PROVE VisitType(visit[w])'
    <3>1. visit'[w] = visit[w] /\ devices' = devices
      BY <2>1, <2>4, OpenedVisit
    <3>2. VisitType(visit[w])
      BY <2>4 DEF DevicesTypeOK
    <3> QED BY <3>1, <3>2 DEF VisitType
  <2>5. crowded' \in BOOLEAN
    BY <2>1
  <2> QED BY <2>1, <2>3, <2>4, <2>5, OpenedVisit DEF DevicesTypeOK
<1>5. ASSUME NEW v \in Visitors, NEW i \in DOMAIN devices, ConfirmPairing(v, i) PROVE DevicesTypeOK'
  <2>1. Opens(v, [op |-> "confirm", device |-> i]) /\ crowded' = crowded
    BY <1>5 DEF ConfirmPairing
  <2> QED BY <2>1, OpenedVisit DEF DevicesTypeOK, VisitType
<1>6. ASSUME NEW v \in Visitors, NEW i \in DOMAIN devices, RevokeDevice(v, i) PROVE DevicesTypeOK'
  <2>1. Opens(v, [op |-> "revoke", device |-> i, was |-> devices[i].status]) /\ crowded' = crowded
    BY <1>6 DEF RevokeDevice
  <2> QED BY <2>1, OpenedVisit DEF DevicesTypeOK, VisitType
<1>7. ASSUME NEW v \in Visitors, Saves(v) PROVE DevicesTypeOK'
  <2>1. /\ visit' = [visit EXCEPT ![v] = NoVisit]
        /\ UNCHANGED <<clock, crowded>>
    BY <1>7 DEF Saves
  <2>2. devices' \in Seq(Device) /\ DOMAIN devices \subseteq DOMAIN devices'
    BY <1>7, SavedDevices
  <2>3. \A w \in Visitors : VisitType(visit[w])'
    BY <2>1, <2>2, ClosedVisit DEF VisitType, DevicesTypeOK
  <2>4. barred' \subseteq DOMAIN devices'
    <3>1. CASE visit[v].op = "revoke"
      BY <1>7, <2>2, <3>1 DEF Saves, DevicesTypeOK, VisitType, NoVisit
    <3>2. CASE visit[v].op # "revoke"
      BY <1>7, <2>2, <3>2 DEF Saves, DevicesTypeOK
    <3> QED BY <3>1, <3>2
  <2> QED BY <2>1, <2>2, <2>3, <2>4, ClosedVisit DEF DevicesTypeOK, Device, VisitType
<1>8. ASSUME NEW v \in Visitors, Drops(v) PROVE DevicesTypeOK'
  <2>1. visit' = [visit EXCEPT ![v] = NoVisit] /\ UNCHANGED <<clock, devices, crowded, barred>>
    BY <1>8 DEF Drops
  <2> QED BY <2>1, ClosedVisit DEF DevicesTypeOK, VisitType
<1> QED BY <1>1, <1>2, <1>3, <1>4, <1>5, <1>6, <1>7, <1>8 DEF DevicesNext, DeviceRequest

LEMMA InitialTypes == DevicesInit => DevicesTypeOK
<1> SUFFICES ASSUME DevicesInit PROVE DevicesTypeOK
  OBVIOUS
<1>1. DOMAIN visit = Visitors /\ \A v \in Visitors : VisitType(visit[v])
  BY DEF DevicesInit, VisitType
<1>2. devices \in Seq(Device) /\ barred \subseteq DOMAIN devices
  BY DEF DevicesInit
<1> QED BY <1>1, <1>2 DEF DevicesInit, DevicesTypeOK, Device

\* Every state has the types of Devices (devices.py 52-165).
THEOREM DevicesTypeCorrect == DevicesSpec => []DevicesTypeOK
BY InitialTypes, TypeStep, PTL DEF DevicesSpec

-----------------------------------------------------------------------------
(* Revoked devices.                                                        *)

\* Whether a device is being confirmed depends on the visits alone.
LEMMA ConfirmingOpened ==
    ASSUME NEW v \in Visitors, NEW s, DevicesTypeOK, Opens(v, s)
    PROVE  Confirming' = Confirming \union {i \in DOMAIN devices : s.op = "confirm" /\ s.device = i}
BY OpenedVisit DEF Confirming, NoVisit

LEMMA ConfirmingClosed ==
    ASSUME NEW v \in Visitors, DevicesTypeOK, visit' = [visit EXCEPT ![v] = NoVisit],
           DOMAIN devices \subseteq DOMAIN devices'
    PROVE  /\ Confirming' \subseteq Confirming
           /\ visit[v].op # "confirm" => Confirming' = Confirming
<1>1. \A w \in Visitors : \A i : visit'[w].op = "confirm" /\ visit'[w].device = i => visit[w].op = "confirm" /\ visit[w].device = i
  BY ClosedVisit DEF NoVisit
<1>2. \A w \in Visitors : visit[w].op = "confirm" => visit[w].device \in DOMAIN devices
  BY DEF DevicesTypeOK, VisitType, NoVisit
<1>3. Confirming' \subseteq Confirming
  BY <1>1, <1>2 DEF Confirming
<1>4. ASSUME visit[v].op # "confirm" PROVE Confirming \subseteq Confirming'
  BY <1>4, ClosedVisit DEF Confirming
<1> QED BY <1>3, <1>4

LEMMA BarredStep ==
    ASSUME DevicesTypeOK, BarredStayRevoked, [DevicesNext]_deviceVars
    PROVE  BarredStayRevoked'
<1>1. CASE UNCHANGED deviceVars
  BY <1>1 DEF deviceVars, BarredStayRevoked, Confirming
<1>2. CASE Tick
  BY <1>2 DEF Tick, BarredStayRevoked, Confirming
<1>3. ASSUME NEW v \in Visitors, RegisterFirstDevice(v) PROVE BarredStayRevoked'
  <2>1. Confirming' = Confirming /\ UNCHANGED <<devices, barred>>
    <3>1. PICK s : s = [op |-> "register"]
      OBVIOUS
    <3>2. Opens(v, s) /\ s.op # "confirm"
      BY <1>3, <3>1 DEF RegisterFirstDevice
    <3>3. Confirming' = Confirming \union {i \in DOMAIN devices : s.op = "confirm" /\ s.device = i}
      BY <3>2, ConfirmingOpened
    <3>4. UNCHANGED <<devices, barred>>
      BY <3>2, OpenedVisit
    <3> QED BY <3>2, <3>3, <3>4
  <2> QED BY <2>1 DEF BarredStayRevoked
<1>4. ASSUME NEW v \in Visitors, InitiatePairing(v) PROVE BarredStayRevoked'
  <2>1. Confirming' = Confirming /\ UNCHANGED <<devices, barred>>
    <3>1. PICK s : s = [op |-> "pair", expires |-> clock + CodeLife]
      OBVIOUS
    <3>2. Opens(v, s) /\ s.op # "confirm"
      BY <1>4, <3>1 DEF InitiatePairing
    <3>3. Confirming' = Confirming \union {i \in DOMAIN devices : s.op = "confirm" /\ s.device = i}
      BY <3>2, ConfirmingOpened
    <3>4. UNCHANGED <<devices, barred>>
      BY <3>2, OpenedVisit
    <3> QED BY <3>2, <3>3, <3>4
  <2> QED BY <2>1 DEF BarredStayRevoked
<1>5. ASSUME NEW v \in Visitors, NEW i \in DOMAIN devices, ConfirmPairing(v, i) PROVE BarredStayRevoked'
  <2>1. Confirming' = Confirming \union {i} /\ UNCHANGED <<devices, barred>>
    BY <1>5, ConfirmingOpened, OpenedVisit DEF ConfirmPairing
  <2>2. devices[i].status # "revoked"
    BY <1>5 DEF ConfirmPairing, Pending
  <2> QED BY <2>1, <2>2 DEF BarredStayRevoked
<1>6. ASSUME NEW v \in Visitors, NEW i \in DOMAIN devices, RevokeDevice(v, i) PROVE BarredStayRevoked'
  <2>1. Confirming' = Confirming /\ UNCHANGED <<devices, barred>>
    BY <1>6, ConfirmingOpened, OpenedVisit DEF RevokeDevice
  <2> QED BY <2>1 DEF BarredStayRevoked
<1>7. ASSUME NEW v \in Visitors, Saves(v) PROVE BarredStayRevoked'
  <2> DEFINE s == visit[v]
  <2>1. VisitType(s) /\ devices \in Seq(Device) /\ barred \subseteq DOMAIN devices
    BY DEF DevicesTypeOK, Device
  <2>2. visit' = [visit EXCEPT ![v] = NoVisit] /\ s.op # "none" /\ s # NoVisit
    BY <1>7 DEF Saves, NoVisit
  <2>3. DOMAIN devices \subseteq DOMAIN devices'
    BY <1>7, SavedDevices
  <2>4. Confirming' \subseteq Confirming /\ (s.op # "confirm" => Confirming' = Confirming)
    BY <2>2, <2>3, ConfirmingClosed
  <2>5. CASE s.op \in {"register", "pair"}
    <3>1. \A i \in DOMAIN devices : devices'[i] = devices[i]
      <4>1. CASE s.op = "register"
        BY <1>7, <2>1, <4>1, AppendedDevice DEF Saves, Added, Device
      <4>2. CASE s.op = "pair"
        <5>1. s.expires \in Nat
          BY <2>1, <2>2, <4>2 DEF VisitType
        <5> QED BY <1>7, <2>1, <4>2, <5>1, AppendedDevice DEF Saves, Added, Device
      <4> QED BY <2>5, <4>1, <4>2
    <3>2. barred' = barred
      BY <1>7, <2>5 DEF Saves
    <3> QED BY <2>1, <2>4, <3>1, <3>2 DEF BarredStayRevoked
  <2>6. CASE s.op = "confirm"
    <3>1. s.device \in Confirming
      BY <2>1, <2>2, <2>6 DEF VisitType, Confirming
    <3>2. barred' = barred /\ devices' = [devices EXCEPT ![s.device] = [status |-> "trusted", expires |-> 0]]
      BY <1>7, <2>6 DEF Saves
    <3>3. \A i \in barred : i # s.device /\ devices'[i] = devices[i]
      BY <2>1, <3>1, <3>2 DEF BarredStayRevoked
    <3> QED BY <2>4, <3>2, <3>3 DEF BarredStayRevoked
  <2>7. CASE s.op = "revoke"
    <3>1. s.device \in DOMAIN devices
      BY <2>1, <2>2, <2>7 DEF VisitType
    <3>2. devices' = [devices EXCEPT ![s.device].status = IF s.was = "revoked" THEN @ ELSE "revoked"]
      BY <1>7, <2>7 DEF Saves
    <3>3. \A i \in DOMAIN devices : devices[i].status = "revoked" => devices'[i].status = "revoked"
      BY <2>1, <3>1, <3>2 DEF Device
    <3>4. \A i \in barred' \ barred : devices'[i].status = "revoked" /\ i \notin Confirming
      BY <1>7, <2>7 DEF Saves
    <3>5. barred \subseteq DOMAIN devices
      BY <2>1
    <3> QED BY <2>4, <2>7, <3>3, <3>4, <3>5 DEF BarredStayRevoked
  <2> QED BY <2>1, <2>2, <2>5, <2>6, <2>7 DEF VisitType
<1>8. ASSUME NEW v \in Visitors, Drops(v) PROVE BarredStayRevoked'
  <2>1. Confirming' \subseteq Confirming /\ UNCHANGED <<devices, barred>>
    BY <1>8, ConfirmingClosed DEF Drops
  <2> QED BY <2>1 DEF BarredStayRevoked
<1> QED BY <1>1, <1>2, <1>3, <1>4, <1>5, <1>6, <1>7, <1>8 DEF DevicesNext, DeviceRequest

-----------------------------------------------------------------------------
(* The limit.                                                              *)

LEMMA CountsAreFinite ==
    ASSUME DevicesTypeOK
    PROVE  /\ IsFiniteSet(Trustable) /\ Cardinality(Trustable) \in Nat
           /\ IsFiniteSet(Adding) /\ Cardinality(Adding) \in Nat
           /\ Trustable \subseteq DOMAIN devices
<1>1. DOMAIN devices = 1..Len(devices) /\ Len(devices) \in Nat
  BY DEF DevicesTypeOK
<1>2. IsFiniteSet(DOMAIN devices)
  BY <1>1, FS_Interval
<1>3. Trustable \subseteq DOMAIN devices
  BY DEF Trustable, Trusted, Pending, Confirming
<1>4. IsFiniteSet(Trustable)
  BY <1>2, <1>3, FS_Subset
<1>5. Adding \subseteq Visitors
  BY DEF Adding
<1>6. IsFiniteSet(Adding)
  BY <1>5, FS_Subset, DevicesAssumptions
<1> QED BY <1>3, <1>4, <1>6, FS_CardinalityType

\* The first who begins while nobody else may become trusted finds room.
LEMMA RoomWhenOpened ==
    ASSUME DevicesTypeOK, ~Full, crowded' = (crowded \/ Underway),
           NEW v \in Visitors, Adding' \subseteq Adding \union {v},
           Trustable' \subseteq Trustable
    PROVE  RoomForAll'
<1> SUFFICES ASSUME ~crowded' PROVE Cardinality(Trustable') + Cardinality(Adding') <= MaxTrusted
  BY DEF RoomForAll
<1>1. Trustable' \subseteq Trusted /\ Adding' \subseteq {v}
  BY DEF Underway, Trustable
<1>2. IsFiniteSet(Trusted) /\ IsFiniteSet({v}) /\ Cardinality({v}) = 1
  <2>1. Trusted \subseteq Trustable
    BY DEF Trustable
  <2> QED BY <2>1, CountsAreFinite, FS_Subset, FS_Singleton
<1>3. /\ IsFiniteSet(Trustable') /\ Cardinality(Trustable') <= Cardinality(Trusted)
      /\ IsFiniteSet(Adding') /\ Cardinality(Adding') <= 1
  BY <1>1, <1>2, FS_Subset
<1>4. Cardinality(Trusted) < MaxTrusted
  <2>1. Cardinality(Trusted) \in Nat
    BY <1>2, FS_CardinalityType
  <2> QED BY <2>1, DevicesAssumptions DEF Full
<1>5. Cardinality(Trustable') \in Nat /\ Cardinality(Adding') \in Nat /\ Cardinality(Trusted) \in Nat
  BY <1>2, <1>3, FS_CardinalityType
<1> QED BY <1>3, <1>4, <1>5, DevicesAssumptions

LEMMA RoomWhenFewer ==
    ASSUME DevicesTypeOK, RoomForAll, crowded' = crowded,
           Trustable' \subseteq Trustable, Adding' \subseteq Adding
    PROVE  RoomForAll'
<1>1. /\ IsFiniteSet(Trustable') /\ Cardinality(Trustable') <= Cardinality(Trustable)
      /\ IsFiniteSet(Adding') /\ Cardinality(Adding') <= Cardinality(Adding)
  BY CountsAreFinite, FS_Subset
<1>2. Cardinality(Trustable') \in Nat /\ Cardinality(Adding') \in Nat
  BY <1>1, FS_CardinalityType
<1> QED BY <1>1, <1>2, CountsAreFinite, DevicesAssumptions DEF RoomForAll

\* Who has been adding a device takes the room it had.
LEMMA RoomWhenAdded ==
    ASSUME DevicesTypeOK, RoomForAll, crowded' = crowded,
           NEW v \in Adding, Adding' = Adding \ {v},
           NEW n, Trustable' \subseteq Trustable \union {n}
    PROVE  RoomForAll'
<1>1. Cardinality(Adding') = Cardinality(Adding) - 1
  BY CountsAreFinite, FS_RemoveElement
<1>2. Cardinality(Trustable') \in Nat /\ Cardinality(Trustable') <= Cardinality(Trustable) + 1
  <2>1. /\ IsFiniteSet(Trustable \union {n})
        /\ Cardinality(Trustable \union {n}) =
             IF n \in Trustable THEN Cardinality(Trustable) ELSE Cardinality(Trustable) + 1
    BY CountsAreFinite, FS_AddElement
  <2>2. IsFiniteSet(Trustable') /\ Cardinality(Trustable') <= Cardinality(Trustable \union {n})
    BY <2>1, FS_Subset
  <2>3. Cardinality(Trustable') \in Nat
    BY <2>2, FS_CardinalityType
  <2> QED BY <2>1, <2>2, <2>3, CountsAreFinite
<1> QED BY <1>1, <1>2, CountsAreFinite, DevicesAssumptions DEF RoomForAll

LEMMA AddingOpened ==
    ASSUME NEW v \in Visitors, NEW s, DevicesTypeOK, Opens(v, s)
    PROVE  /\ Adding' \subseteq Adding \union {v}
           /\ s.op \notin {"register", "pair"} => Adding' \subseteq Adding
BY OpenedVisit DEF Adding

LEMMA AddingClosed ==
    ASSUME NEW v \in Visitors, DevicesTypeOK, visit' = [visit EXCEPT ![v] = NoVisit]
    PROVE  Adding' = Adding \ {v}
BY ClosedVisit DEF Adding, NoVisit

\* A request that begins makes nobody a candidate but the pending device it confirms.
LEMMA CandidatesOpened ==
    ASSUME NEW v \in Visitors, NEW s, DevicesTypeOK, Opens(v, s),
           s.op = "confirm" => s.device \in Pending
    PROVE  Trustable' \subseteq Trustable
<1>1. Trusted' = Trusted /\ Pending' = Pending
  BY OpenedVisit DEF Trusted, Pending
<1> QED BY <1>1, ConfirmingOpened DEF Trustable

\* A commit that adds no device makes nobody a candidate.
LEMMA CandidatesSaved ==
    ASSUME NEW v \in Visitors, DevicesTypeOK, Saves(v), visit[v].op \in {"confirm", "revoke"}
    PROVE  Trustable' \subseteq Trustable
<1> DEFINE s == visit[v]
<1>1. s.device \in DOMAIN devices /\ devices \in Seq(Device)
  BY DEF DevicesTypeOK, VisitType, NoVisit, Device
<1>2. Confirming' \subseteq Confirming
  BY SavedDevices, ConfirmingClosed DEF Saves
<1>3. clock' = clock
  BY DEF Saves
<1>4. CASE s.op = "confirm"
  <2>1. devices' = [devices EXCEPT ![s.device] = [status |-> "trusted", expires |-> 0]]
    BY <1>4 DEF Saves
  <2>2. s.device \in Confirming
    BY <1>1, <1>4 DEF Confirming
  <2>3. DOMAIN devices' = DOMAIN devices /\ \A i \in DOMAIN devices \ {s.device} : devices'[i] = devices[i]
    BY <1>1, <2>1
  <2> QED BY <1>2, <1>3, <2>2, <2>3 DEF Trustable, Trusted, Pending
<1>5. CASE s.op = "revoke"
  <2>1. devices' = [devices EXCEPT ![s.device].status = IF s.was = "revoked" THEN @ ELSE "revoked"]
    BY <1>5 DEF Saves
  <2>2. /\ DOMAIN devices' = DOMAIN devices
        /\ \A i \in DOMAIN devices : devices'[i].status \in {devices[i].status, "revoked"}
        /\ \A i \in DOMAIN devices : devices'[i].expires = devices[i].expires
    BY <1>1, <2>1 DEF Device
  <2> QED BY <1>2, <1>3, <2>2 DEF Trustable, Trusted, Pending
<1> QED BY <1>4, <1>5

\* One that adds a device makes it one.
LEMMA CandidatesAdded ==
    ASSUME NEW v \in Visitors, DevicesTypeOK, Saves(v), visit[v].op \in {"register", "pair"}
    PROVE  Trustable' \subseteq Trustable \union {Len(devices) + 1}
<1> DEFINE s == visit[v]
<1>1. devices \in Seq(Device) /\ (s.op = "pair" => s.expires \in Nat)
  BY DEF DevicesTypeOK, VisitType, NoVisit, Device
<1>2. Confirming' \subseteq Confirming
  BY SavedDevices, ConfirmingClosed DEF Saves
<1>3. PICK d \in Device : devices' = Append(devices, d)
  <2>1. CASE s.op = "register"
    BY <2>1 DEF Saves, Added, Device
  <2>2. CASE s.op = "pair"
    BY <1>1, <2>2 DEF Saves, Added, Device
  <2> QED BY <2>1, <2>2
<1>4. /\ DOMAIN devices' = DOMAIN devices \union {Len(devices) + 1}
      /\ \A i \in DOMAIN devices : devices'[i] = devices[i]
  BY <1>1, <1>3, AppendedDevice
<1>5. clock' = clock
  BY DEF Saves
<1> QED BY <1>2, <1>4, <1>5 DEF Trustable, Trusted, Pending

LEMMA RoomStep ==
    ASSUME DevicesTypeOK, RoomForAll, [DevicesNext]_deviceVars
    PROVE  RoomForAll'
<1>1. CASE UNCHANGED deviceVars
  <2>1. Trustable' = Trustable /\ Adding' = Adding /\ crowded' = crowded
    BY <1>1 DEF deviceVars, Trustable, Trusted, Pending, Confirming, Adding
  <2> QED BY <2>1, RoomWhenFewer
<1>2. CASE Tick
  <2>1. Trusted' = Trusted /\ Confirming' = Confirming /\ Adding' = Adding /\ crowded' = crowded
    BY <1>2 DEF Tick, Trusted, Confirming, Adding
  <2>2. Pending' \subseteq Pending
    <3>1. \A i \in DOMAIN devices : devices[i].expires \in Nat
      <4>1. devices \in Seq(Device)
        BY DEF DevicesTypeOK, Device
      <4>2. \A i \in DOMAIN devices : devices[i] \in Device
        BY <4>1
      <4> QED BY <4>2 DEF Device
    <3> QED BY <1>2, <3>1 DEF Tick, Pending, DevicesTypeOK
  <2> QED BY <2>1, <2>2, RoomWhenFewer DEF Trustable
<1>3. ASSUME NEW v \in Visitors, RegisterFirstDevice(v) PROVE RoomForAll'
  <2>1. Opens(v, [op |-> "register"]) /\ crowded' = (crowded \/ Underway)
    BY <1>3 DEF RegisterFirstDevice
  <2>2. ~Full
    BY <1>3, FS_EmptySet, DevicesAssumptions DEF RegisterFirstDevice, Full
  <2>3. Trustable' \subseteq Trustable /\ Adding' \subseteq Adding \union {v}
    BY <2>1, CandidatesOpened, AddingOpened
  <2> QED BY <2>1, <2>2, <2>3, RoomWhenOpened
<1>4. ASSUME NEW v \in Visitors, InitiatePairing(v) PROVE RoomForAll'
  <2>1. Opens(v, [op |-> "pair", expires |-> clock + CodeLife]) /\ crowded' = (crowded \/ Underway) /\ ~Full
    BY <1>4 DEF InitiatePairing
  <2>2. Trustable' \subseteq Trustable /\ Adding' \subseteq Adding \union {v}
    BY <2>1, CandidatesOpened, AddingOpened
  <2> QED BY <2>1, <2>2, RoomWhenOpened
<1>5. ASSUME NEW v \in Visitors, NEW i \in DOMAIN devices, ConfirmPairing(v, i) PROVE RoomForAll'
  <2>1. Opens(v, [op |-> "confirm", device |-> i]) /\ crowded' = crowded /\ i \in Pending
    BY <1>5 DEF ConfirmPairing
  <2>2. Trustable' \subseteq Trustable /\ Adding' \subseteq Adding
    BY <2>1, CandidatesOpened, AddingOpened
  <2> QED BY <2>1, <2>2, RoomWhenFewer
<1>6. ASSUME NEW v \in Visitors, NEW i \in DOMAIN devices, RevokeDevice(v, i) PROVE RoomForAll'
  <2>1. Opens(v, [op |-> "revoke", device |-> i, was |-> devices[i].status]) /\ crowded' = crowded
    BY <1>6 DEF RevokeDevice
  <2>2. Trustable' \subseteq Trustable /\ Adding' \subseteq Adding
    BY <2>1, CandidatesOpened, AddingOpened
  <2> QED BY <2>1, <2>2, RoomWhenFewer
<1>7. ASSUME NEW v \in Visitors, Saves(v) PROVE RoomForAll'
  <2>1. visit' = [visit EXCEPT ![v] = NoVisit] /\ crowded' = crowded
    BY <1>7 DEF Saves
  <2>2. Adding' = Adding \ {v}
    BY <2>1, AddingClosed
  <2>3. CASE visit[v].op \in {"register", "pair"}
    <3>1. v \in Adding
      BY <2>3 DEF Adding
    <3>2. Trustable' \subseteq Trustable \union {Len(devices) + 1}
      BY <1>7, <2>3, CandidatesAdded
    <3> QED BY <2>1, <2>2, <3>1, <3>2, RoomWhenAdded
  <2>4. CASE visit[v].op \in {"confirm", "revoke"}
    <3>1. Trustable' \subseteq Trustable
      BY <1>7, <2>4, CandidatesSaved
    <3> QED BY <2>1, <2>2, <3>1, RoomWhenFewer
  <2>5. visit[v].op \in {"register", "pair", "confirm", "revoke"}
    BY <1>7 DEF DevicesTypeOK, VisitType, NoVisit, Saves
  <2> QED BY <2>3, <2>4, <2>5
<1>8. ASSUME NEW v \in Visitors, Drops(v) PROVE RoomForAll'
  <2>1. visit' = [visit EXCEPT ![v] = NoVisit] /\ UNCHANGED <<clock, devices, crowded, barred>>
    BY <1>8 DEF Drops
  <2>2. Adding' \subseteq Adding /\ Confirming' \subseteq Confirming
    BY <2>1, AddingClosed, ConfirmingClosed
  <2>3. Trusted' = Trusted /\ Pending' = Pending
    BY <2>1 DEF Trusted, Pending
  <2> QED BY <2>1, <2>2, <2>3, RoomWhenFewer DEF Trustable
<1> QED BY <1>1, <1>2, <1>3, <1>4, <1>5, <1>6, <1>7, <1>8 DEF DevicesNext, DeviceRequest

-----------------------------------------------------------------------------
LEMMA GuardedByInvariant == DevicesInv => TrustIsGuarded
<1> SUFFICES ASSUME DevicesInv, ~crowded PROVE ~(Cardinality(Trusted) > MaxTrusted)
  BY DEF DevicesInv, BarredStayRevoked, TrustIsGuarded
<1>1. DevicesTypeOK
  BY DEF DevicesInv
<1>2. Trusted \subseteq Trustable
  BY DEF Trustable
<1>3. /\ IsFiniteSet(Trustable) /\ Cardinality(Trustable) \in Nat
      /\ Cardinality(Adding) \in Nat
  BY <1>1, CountsAreFinite
<1>4. IsFiniteSet(Trusted) /\ Cardinality(Trusted) <= Cardinality(Trustable)
  BY <1>2, <1>3, FS_Subset
<1>5. Cardinality(Trusted) \in Nat
  BY <1>4, FS_CardinalityType
<1>6. Cardinality(Trustable) + Cardinality(Adding) <= MaxTrusted
  BY DEF DevicesInv, RoomForAll
<1> QED BY <1>3, <1>4, <1>5, <1>6, DevicesAssumptions

\* Of any number of devices and overlapping requests: a revoked device is not trusted
\* again by its code, and the limit holds unless a pairing or a first registration began
\* beside another (devices.py 52-165).
THEOREM DevicesAreGuarded == DevicesSpec => []TrustIsGuarded
<1>1. DevicesInit => DevicesInv
  <2> SUFFICES ASSUME DevicesInit PROVE DevicesInv
    OBVIOUS
  <2>1. DevicesTypeOK
    BY InitialTypes
  <2>2. Trustable = {} /\ Adding = {}
    BY DEF DevicesInit, Trustable, Trusted, Pending, Confirming, Adding, NoVisit
  <2>3. RoomForAll
    BY <2>2, FS_EmptySet, DevicesAssumptions DEF RoomForAll
  <2> QED BY <2>1, <2>3 DEF DevicesInv, BarredStayRevoked, DevicesInit
<1>2. DevicesInv /\ [DevicesNext]_deviceVars => DevicesInv'
  BY TypeStep, BarredStep, RoomStep DEF DevicesInv
<1> QED BY <1>1, <1>2, GuardedByInvariant, PTL DEF DevicesSpec

-----------------------------------------------------------------------------
(* The attempts to log in.                                                 *)

\* The attempts that were let through since the k-th, within its window.
Span(k) == {l \in DOMAIN passed : l >= k /\ passed[l] < passed[k] + Window}

\* Attempts are numbered in the order they came.
PassedInOrder ==
    /\ \A k \in DOMAIN passed : passed[k] <= now
    /\ \A k, l \in DOMAIN passed : k <= l => passed[k] <= passed[l]

\* The list has forgotten only what is too old to matter.
ForgottenIsOld ==
    \A k \in DOMAIN passed : k \notin attempts => passed[k] + Window <= now

RateInv == RateTypeOK /\ PassedInOrder /\ ForgottenIsOld /\ RateIsLimited

-----------------------------------------------------------------------------
\* One attempt more.
LEMMA AppendedAttempt ==
    ASSUME NEW s \in Seq(Nat), NEW t \in Nat
    PROVE  /\ Append(s, t) \in Seq(Nat)
           /\ Len(Append(s, t)) = Len(s) + 1
           /\ DOMAIN s = 1..Len(s)
           /\ DOMAIN Append(s, t) = 1..Len(s) + 1
           /\ Append(s, t)[Len(s) + 1] = t
           /\ \A k \in DOMAIN s : Append(s, t)[k] = s[k]
           /\ Len(s) \in Nat
           /\ \A k \in DOMAIN s : s[k] \in Nat
<1>1. Append(s, t) \in Seq(Nat) /\ Len(Append(s, t)) = Len(s) + 1 /\ Len(s) \in Nat
  OBVIOUS
<1>2. DOMAIN s = 1..Len(s) /\ DOMAIN Append(s, t) = 1..Len(s) + 1
  BY <1>1
<1>3. Append(s, t)[Len(s) + 1] = t /\ \A k \in 1..Len(s) : Append(s, t)[k] = s[k]
  BY <1>1
<1>4. \A k \in 1..Len(s) : s[k] \in Nat
  OBVIOUS
<1> QED BY <1>1, <1>2, <1>3, <1>4

\* An attempt that passes finds room within the window of each of the earlier ones.
LEMMA PassedStep == RateInv /\ AttemptPasses => RateInv'
<1> SUFFICES ASSUME RateInv, AttemptPasses PROVE RateInv'
  OBVIOUS
<1> DEFINE n == Len(passed) + 1
<1>1. /\ RateTypeOK /\ PassedInOrder /\ ForgottenIsOld /\ RateIsLimited
      /\ now \in Nat /\ passed \in Seq(Nat) /\ attempts \subseteq DOMAIN passed /\ tries \in Nat
  BY DEF RateInv, RateTypeOK
<1>2. /\ now' = now /\ tries' = tries + 1
      /\ passed' = Append(passed, now)
      /\ attempts' = Recent \union {Len(passed')}
      /\ ~(Cardinality(Recent) >= Limit)
  BY DEF AttemptPasses, Attempting, Exhausted
<1>3. /\ passed' \in Seq(Nat)
      /\ n \in Nat
      /\ Len(passed') = n
      /\ DOMAIN passed = 1..Len(passed)
      /\ DOMAIN passed' = 1..n
      /\ passed'[n] = now
      /\ \A k \in DOMAIN passed : passed'[k] = passed[k] /\ passed[k] \in Nat
      /\ n >= 1
      /\ DOMAIN passed' = DOMAIN passed \union {n}
      /\ \A k \in DOMAIN passed : k \in Nat /\ k < n
      /\ n \notin DOMAIN passed
  <2>1. /\ passed' \in Seq(Nat)
        /\ Len(passed') = n
        /\ DOMAIN passed = 1..Len(passed)
        /\ DOMAIN passed' = 1..n
        /\ passed'[n] = now
        /\ \A k \in DOMAIN passed : passed'[k] = passed[k] /\ passed[k] \in Nat
        /\ Len(passed) \in Nat
    BY <1>1, <1>2, AppendedAttempt
  <2> QED BY <2>1
<1> HIDE DEF n
<1>4. attempts' = Recent \union {n} /\ Recent \subseteq DOMAIN passed
  BY <1>1, <1>2, <1>3 DEF Recent
<1>5. RateTypeOK'
  BY <1>1, <1>2, <1>3, <1>4 DEF RateTypeOK
<1>6. PassedInOrder'
  <2>1. \A k \in DOMAIN passed' : passed'[k] <= now'
    BY <1>1, <1>2, <1>3 DEF PassedInOrder
  <2>2. \A k, l \in DOMAIN passed' : k <= l => passed'[k] <= passed'[l]
    BY <1>1, <1>2, <1>3 DEF PassedInOrder
  <2> QED BY <2>1, <2>2 DEF PassedInOrder
<1>7. ForgottenIsOld'
  <2> SUFFICES ASSUME NEW k \in DOMAIN passed, k \notin Recent
               PROVE  passed[k] + Window <= now
    BY <1>2, <1>3, <1>4 DEF ForgottenIsOld
  <2>1. CASE k \notin attempts
    BY <1>1, <2>1 DEF ForgottenIsOld
  <2>2. CASE k \in attempts
    BY <1>1, <1>3, <2>2, RateAssumptions DEF Recent
  <2> QED BY <2>1, <2>2
<1>8. RateIsLimited'
  <2> SUFFICES ASSUME NEW k \in DOMAIN passed' PROVE Cardinality(Span(k)') <= Limit
    BY DEF RateIsLimited, Span
  <2>0. Limit \in Nat /\ Window \in Nat
    BY RateAssumptions
  <2>1. IsFiniteSet(Recent) /\ Cardinality(Recent) \in Nat
    <3>0. Len(passed) \in Int /\ 1 \in Int
      BY <1>1
    <3>1. IsFiniteSet(DOMAIN passed)
      BY <1>3, <3>0, FS_Interval
    <3>2. Recent \in SUBSET (DOMAIN passed)
      BY <1>4
    <3> QED BY <3>1, <3>2, FS_Subset, FS_CardinalityType
  <2>2. Cardinality(Recent) + 1 <= Limit
    BY <1>2, <2>0, <2>1
  <2>3. CASE k # n /\ now < passed[k] + Window
    <3>1. k \in DOMAIN passed
      BY <1>3, <2>3
    <3>2. Span(k)' \subseteq Recent \union {n}
      <4> SUFFICES ASSUME NEW l \in Span(k)', l # n PROVE l \in Recent
        OBVIOUS
      <4>1. l \in DOMAIN passed /\ l >= k
        BY <1>3 DEF Span
      <4>2. passed[k] <= passed[l] /\ passed[k] \in Nat /\ passed[l] \in Nat
        BY <1>1, <1>3, <3>1, <4>1 DEF PassedInOrder
      <4>3. ~(passed[l] + Window <= now)
        BY <1>1, <2>0, <2>3, <4>2
      <4>4. l \in attempts
        BY <1>1, <4>1, <4>3 DEF ForgottenIsOld
      <4> QED BY <1>1, <2>0, <4>2, <4>3, <4>4 DEF Recent
    <3>3. Span(k)' \in SUBSET (Recent \union {n})
      BY <3>2
    <3>4. /\ IsFiniteSet(Recent \union {n})
          /\ Cardinality(Recent \union {n}) =
                IF n \in Recent THEN Cardinality(Recent) ELSE Cardinality(Recent) + 1
      BY <2>1, FS_AddElement
    <3>5. Cardinality(Recent \union {n}) <= Limit /\ Cardinality(Recent \union {n}) \in Nat
      BY <2>0, <2>1, <2>2, <3>4
    <3>6. IsFiniteSet(Span(k)') /\ Cardinality(Span(k)') <= Cardinality(Recent \union {n})
      BY <3>3, <3>4, FS_Subset, Zenon
    <3>7. Cardinality(Span(k)') \in Nat
      BY <3>6, FS_CardinalityType, Zenon
    <3> QED BY <2>0, <3>5, <3>6, <3>7
  <2>4. CASE k # n /\ ~(now < passed[k] + Window)
    <3>1. k \in DOMAIN passed
      BY <1>3, <2>4
    <3>2. Span(k)' = Span(k)
      <4>1. n \notin Span(k)'
        BY <1>1, <1>3, <2>4, <3>1 DEF Span
      <4>2. ASSUME NEW l \in DOMAIN passed PROVE l \in Span(k)' <=> l \in Span(k)
        BY <1>3, <3>1, <4>2 DEF Span
      <4>3. \A l \in Span(k)' : l \in DOMAIN passed \/ l = n
        BY <1>3 DEF Span
      <4>4. \A l \in Span(k) : l \in DOMAIN passed
        BY DEF Span
      <4> QED BY <4>1, <4>2, <4>3, <4>4
    <3> QED BY <1>1, <3>1, <3>2 DEF RateIsLimited, Span
  <2>5. CASE k = n
    <3>1. Span(k)' \in SUBSET {n}
      BY <1>3, <2>5 DEF Span
    <3>2. IsFiniteSet({n}) /\ Cardinality({n}) = 1
      BY FS_Singleton
    <3>3. IsFiniteSet(Span(k)') /\ Cardinality(Span(k)') <= 1
      BY <3>1, <3>2, FS_Subset, Zenon
    <3>4. Cardinality(Span(k)') \in Nat
      BY <3>3, FS_CardinalityType, Zenon
    <3> QED BY <2>0, <2>1, <2>2, <3>3, <3>4
  <2> QED BY <2>3, <2>4, <2>5
<1> QED BY <1>5, <1>6, <1>7, <1>8 DEF RateInv

LEMMA RateStep == RateInv /\ [RateNext]_rateVars => RateInv'
<1> SUFFICES ASSUME RateInv, [RateNext]_rateVars PROVE RateInv'
  OBVIOUS
<1>0. /\ now \in Nat /\ passed \in Seq(Nat) /\ attempts \subseteq DOMAIN passed /\ tries \in Nat
      /\ PassedInOrder /\ ForgottenIsOld /\ RateIsLimited /\ RateTypeOK
      /\ Limit \in Nat /\ Window \in Nat
      /\ \A k \in DOMAIN passed : passed[k] \in Nat
  BY RateAssumptions DEF RateInv, RateTypeOK
<1>1. CASE TimePasses
  <2>1. now' = now + 1 /\ passed' = passed /\ attempts' = attempts /\ tries' = tries
    BY <1>1 DEF TimePasses
  <2>2. RateTypeOK' /\ RateIsLimited'
    BY <1>0, <2>1 DEF RateTypeOK, RateIsLimited
  <2>3. PassedInOrder'
    BY <1>0, <2>1 DEF PassedInOrder
  <2>4. ForgottenIsOld'
    BY <1>0, <2>1 DEF ForgottenIsOld
  <2> QED BY <2>2, <2>3, <2>4 DEF RateInv
<1>2. CASE AttemptPasses
  BY <1>2, PassedStep
<1>3. CASE AttemptRefused
  <2>1. now' = now /\ passed' = passed /\ attempts' = Recent /\ tries' = tries + 1
    BY <1>3 DEF AttemptRefused, Attempting
  <2>2. RateTypeOK' /\ RateIsLimited' /\ PassedInOrder'
    BY <1>0, <2>1 DEF RateTypeOK, RateIsLimited, PassedInOrder, Recent
  <2>3. ForgottenIsOld'
    <3> SUFFICES ASSUME NEW k \in DOMAIN passed, k \notin Recent
                 PROVE  passed[k] + Window <= now
      BY <2>1 DEF ForgottenIsOld
    <3> QED BY <1>0 DEF ForgottenIsOld, Recent
  <2> QED BY <2>2, <2>3 DEF RateInv
<1>4. CASE Restart
  <2>1. now' = now /\ passed' = <<>> /\ attempts' = {} /\ tries' = tries
    BY <1>4 DEF Restart
  <2>2. passed' \in Seq(Nat) /\ DOMAIN passed' = {}
    BY <2>1
  <2> QED BY <1>0, <2>1, <2>2 DEF RateInv, RateTypeOK, PassedInOrder, ForgottenIsOld, RateIsLimited
<1>5. CASE UNCHANGED rateVars
  <2>1. now' = now /\ passed' = passed /\ attempts' = attempts /\ tries' = tries
    BY <1>5 DEF rateVars
  <2> QED BY <1>0, <2>1 DEF RateInv, RateTypeOK, PassedInOrder, ForgottenIsOld, RateIsLimited
<1> QED BY <1>1, <1>2, <1>3, <1>4, <1>5 DEF RateNext

LEMMA RateStart == RateInit => RateInv
<1> SUFFICES ASSUME RateInit PROVE RateInv
  OBVIOUS
<1>1. now = 0 /\ passed = <<>> /\ attempts = {} /\ tries = 0
  BY DEF RateInit
<1>2. passed \in Seq(Nat) /\ DOMAIN passed = {}
  BY <1>1
<1> QED BY <1>1, <1>2 DEF RateInv, RateTypeOK, PassedInOrder, ForgottenIsOld, RateIsLimited

\* Types of the limit of attempts, for any limit and window.
THEOREM RateTypeCorrect == RateSpec => []RateTypeOK
<1>1. RateInv => RateTypeOK
  BY DEF RateInv
<1> QED BY <1>1, RateStart, RateStep, PTL DEF RateSpec

\* However attempts and the passing of time mix, and however much the list forgets on
\* the way, no span of the length of the window has more attempts that passed than the
\* limit (auth.py 29-36).
THEOREM AttemptsAreLimited == RateSpec => []RateIsLimited
<1>1. RateInv => RateIsLimited
  BY DEF RateInv
<1> QED BY <1>1, RateStart, RateStep, PTL DEF RateSpec
=============================================================================
