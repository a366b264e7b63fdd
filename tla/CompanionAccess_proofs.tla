----------------------- MODULE CompanionAccess_proofs -----------------------
(***************************************************************************)
(* Proofs that the invariants of CompanionAccess hold for any number of    *)
(* files, races, sessions, phones and grants.                              *)
(***************************************************************************)
EXTENDS CompanionAccess, TLAPS

(* The initial state has no rows and no grants.                            *)
LEMMA InitAccess == Init => AccessInv
<1> SUFFICES ASSUME Init PROVE AccessInv
  OBVIOUS
<1> USE DEF Init, IsSession, IsDevice, IsPairing, Holds
<1>1. TypeOK
  BY DEF TypeOK, Time
<1>2. OneActiveSessionPerRace /\ OneRolePerDevice /\ LeaseHolderIsPaired
  BY DEF OneActiveSessionPerRace, OneRolePerDevice, LeaseHolderIsPaired
<1>3. GrantsAreIssued /\ GrantPairsOnce
  BY DEF GrantsAreIssued, GrantPairsOnce
<1>4. RowsArePast /\ GrantedWithinSession
  BY DEF RowsArePast, GrantedWithinSession
<1> QED
  BY <1>1, <1>2, <1>3, <1>4 DEF AccessInv

(* A session row that is inserted or stopped is a session row.             *)
LEMMA SessionRows ==
  ASSUME TypeOK
  PROVE  /\ \A r \in Race, e \in Event \cup {CommonChute}, now \in Time :
              Opened(r, e, now) \in SessionRow
         /\ \A s \in Session : IsSession(s) =>
              /\ Ended(s) \in SessionRow
              /\ Ended(s).status = "stopped"
              /\ Ended(s).stopped = clock
              /\ Ended(s).race = session[s].race
              /\ Ended(s).expires = session[s].expires
<1> USE TimeAssumption DEF TypeOK, SessionRow, Time, IsSession
<1>1. ASSUME NEW r \in Race, NEW e \in Event \cup {CommonChute}, NEW now \in Time
      PROVE Opened(r, e, now) \in SessionRow
  <2>1. now + SessionTTL \in Nat
    OBVIOUS
  <2> QED
    BY <2>1 DEF Opened
<1>2. ASSUME NEW s \in Session, IsSession(s)
      PROVE /\ Ended(s) \in SessionRow
            /\ Ended(s).status = "stopped"
            /\ Ended(s).stopped = clock
            /\ Ended(s).race = session[s].race
            /\ Ended(s).expires = session[s].expires
  <2>1. session[s] \in SessionRow
    BY <1>2
  <2> QED
    BY <2>1 DEF Ended
<1> QED
  BY <1>1, <1>2

(* The clock never runs back during a call.                                *)
LEMMA TimeStep == TypeOK /\ TimePasses => clock' \in Time /\ clock' >= clock
  BY TimeAssumption DEF TypeOK, TimePasses, Time

(* Every step keeps the tables well formed.                                *)
LEMMA StepTypeOK == TypeOK /\ [Next]_vars => TypeOK'
<1> SUFFICES ASSUME TypeOK, [Next]_vars PROVE TypeOK'
  OBVIOUS
<1> USE FilesAssumption, TimeAssumption, CredentialAssumption, NoneAssumption
        DEF TypeOK, DeviceRow, LeaseRow, PairingGrant, Credential,
            Time, rows, IsSession, IsDevice, IsPairing
<1>1. ASSUME NEW s \in Session, NEW r \in Race, NEW e \in Event \cup {CommonChute},
             StartSession(s, r, e)
      PROVE TypeOK'
  <2>0. clock' \in Time
    BY <1>1, TimeStep DEF StartSession
  <2>1. ASSUME NEW t \in Session
        PROVE (IF t = s THEN Opened(r, e, clock')
               ELSE IF Superseded(t, r) THEN Ended(t)
               ELSE session[t]) \in SessionRow \cup {None}
    BY <2>0, SessionRows DEF Superseded
  <2>2. session' = [t \in Session |-> IF t = s THEN Opened(r, e, clock')
                                     ELSE IF Superseded(t, r) THEN Ended(t)
                                     ELSE session[t]]
    BY <1>1 DEF StartSession
  <2>3. session' \in [Session -> SessionRow \cup {None}]
    BY ONLY <2>1, <2>2
  <2> QED
    BY <1>1, <2>0, <2>3 DEF StartSession
<1>2. ASSUME NEW s \in Session, StopSession(s) PROVE TypeOK'
  BY <1>2, SessionRows DEF StopSession, Found
<1>3. ASSUME NEW s \in Session, NEW g \in Grant, NEW code \in Code,
             CreatePairing(s, g, code)
      PROVE TypeOK'
  <2> DEFINE grant == [id |-> g, session |-> s, expires |-> clock' + GrantTTL]
  <2>0. clock' \in Time
    BY <1>3, TimeStep DEF CreatePairing
  <2>1. grant \in PairingGrant
    <3>1. \A now \in Time : now + GrantTTL \in Nat
      OBVIOUS
    <3>2. clock' + GrantTTL \in Nat
      BY ONLY <2>0, <3>1
    <3> QED
      BY <3>2
  <2>2. pairings' = [pairings EXCEPT ![g] = grant, ![code] = grant]
    BY <1>3 DEF CreatePairing
  <2>3. pairings' \in [Credential -> PairingGrant \cup {None}]
    <3> HIDE DEF grant, PairingGrant
    <3> QED
      BY <2>1, <2>2
  <2>4. UNCHANGED <<handle, session, device, lease>> /\ issued' \subseteq Grant
    BY <1>3 DEF CreatePairing
  <2> HIDE DEF grant, PairingGrant, DeviceRow, LeaseRow, Credential
  <2> QED
    BY ONLY <2>0, <2>3, <2>4, TypeOK DEF TypeOK, Time
<1>4. ASSUME NEW c \in Credential, NEW d \in Device, Pair(c, d) PROVE TypeOK'
  <2>0. clock' \in Time
    BY <1>4, TimeStep DEF Pair
  <2>1. pairings[c] \in PairingGrant
    BY <1>4 DEF Pair, Presentable
  <2>2. device' \in [Device -> DeviceRow \cup {None}]
    BY <1>4, <2>0, <2>1 DEF Pair
  <2>3. pairings' \in [Credential -> PairingGrant \cup {None}]
    BY <1>4 DEF Pair, WithoutGrant
  <2> QED
    BY <1>4, <2>0, <2>2, <2>3 DEF Pair
<1>5. ASSUME NEW c \in Credential, PairInsertFails(c) PROVE TypeOK'
  BY <1>5 DEF PairInsertFails, WithoutGrant
<1>6. ASSUME NEW c \in Credential, PairRefused(c) PROVE TypeOK'
  BY <1>6 DEF PairRefused, WithoutGrant
<1>7. ASSUME NEW d \in Device, NEW r \in Role, AcquireRole(d, r) PROVE TypeOK'
  BY <1>7, TimeStep DEF AcquireRole, Authenticated
<1>8. ASSUME NEW d \in Device, NEW r \in Role, ReleaseRole(d, r) PROVE TypeOK'
  BY <1>8 DEF ReleaseRole, Authenticated
<1>9. ASSUME NEW s \in Session, NEW r \in Role, ClearRole(s, r) PROVE TypeOK'
  BY <1>9 DEF ClearRole
<1>10. ASSUME NEW d \in Device, IsDevice(d), Revoke(d) PROVE TypeOK'
  BY <1>10 DEF Revoke, WithoutLeasesOf
<1>11. CASE CloseHandle
  BY <1>11 DEF CloseHandle
<1>12. ASSUME NEW h \in File \cup {Nil}, SetDB(h) PROVE TypeOK'
  BY <1>12 DEF SetDB
<1>13. CASE Restart
  BY <1>13 DEF Restart
<1>14. CASE Tick
  BY <1>14 DEF Tick
<1>15. CASE UNCHANGED vars
  BY <1>15 DEF vars
<1> QED
  BY <1>1, <1>2, <1>3, <1>4, <1>5, <1>6, <1>7, <1>8, <1>9, <1>10, <1>11,
     <1>12, <1>13, <1>14, <1>15 DEF Next, RevokeDevice, Unpair, Authenticated

(* Rows of every table keep their type (see TypeOK).                       *)
THEOREM AccessTypeOK == Spec => []TypeOK
<1>1. Init => TypeOK
  BY InitAccess DEF AccessInv
<1> QED
  BY <1>1, StepTypeOK, PTL DEF Spec

-----------------------------------------------------------------------------
(* Rows that are not touched are of the past at any later time too.        *)
LEMMA LaterRows ==
  ASSUME TypeOK, RowsArePast, clock' \in Time, clock' >= clock
  PROVE  /\ \A d \in Device : IsDevice(d) => device[d].paired <= clock'
         /\ \A s \in Session, r \in Role :
              lease[s][r] # None => lease[s][r].acquired <= clock'
<1>1. ASSUME NEW d \in Device, IsDevice(d) PROVE device[d].paired <= clock'
  BY <1>1 DEF RowsArePast, IsDevice, TypeOK, DeviceRow, Time
<1>2. ASSUME NEW s \in Session, NEW r \in Role, lease[s][r] # None
      PROVE lease[s][r].acquired <= clock'
  <2>1. lease[s][r].acquired \in Nat
    BY <1>2 DEF TypeOK, LeaseRow, Time
  <2> QED
    BY <1>2, <2>1 DEF RowsArePast, TypeOK, Time
<1> QED
  BY <1>1, <1>2

(* The properties of a state that the sessions alone can disturb.          *)
LEMMA SessionStep ==
  ASSUME AccessInv, TypeOK',
         UNCHANGED <<device, lease, pairings, issued>>, clock' >= clock,
         \A t \in Session : IsSession(t) =>
           /\ IsSession(t)'
           /\ session'[t].race = session[t].race
           /\ session'[t].expires = session[t].expires
           /\ session'[t].status = "active" => session'[t] = session[t]
           /\ session'[t].stopped \in {session[t].stopped, clock},
         \A t \in Session : IsSession(t)' /\ session'[t].status = "active"
                            => session'[t].stopped = None,
         OneActiveSessionPerRace'
  PROVE  AccessInv'
<1> USE DEF AccessInv, IsDevice, IsPairing, Holds
<1>1. OneRolePerDevice' /\ LeaseHolderIsPaired'
  BY DEF OneRolePerDevice, LeaseHolderIsPaired
<1>2. GrantsAreIssued' /\ GrantPairsOnce'
  BY DEF GrantsAreIssued, GrantPairsOnce
<1>3. RowsArePast'
  BY LaterRows DEF RowsArePast, TypeOK
<1>4. GrantedWithinSession'
  <2>1. ASSUME NEW d \in Device, IsDevice(d)
        PROVE LET s == device[d].session
              IN  /\ IsSession(s)'
                  /\ session'[s].stopped # None => device[d].paired <= session'[s].stopped
    <3>1. device[d].session \in Session /\ device[d].paired <= clock
      BY <2>1 DEF TypeOK, DeviceRow, RowsArePast
    <3> QED
      BY <2>1, <3>1 DEF GrantedWithinSession
  <2>2. ASSUME NEW s \in Session, NEW r \in Role, lease[s][r] # None
        PROVE /\ device[lease[s][r].device].paired <= lease[s][r].acquired
              /\ device[lease[s][r].device].paired <= session'[s].expires
              /\ session'[s].stopped # None => lease[s][r].acquired <= session'[s].stopped
    <3>1. lease[s][r].acquired <= clock
      BY <2>2 DEF RowsArePast
    <3>2. IsSession(s)
      <4>1. lease[s][r].device \in Device
        BY <2>2 DEF TypeOK, LeaseRow
      <4> QED
        BY <2>2, <4>1 DEF LeaseHolderIsPaired, GrantedWithinSession
    <3> QED
      BY <2>2, <3>1, <3>2 DEF GrantedWithinSession
  <2> QED
    BY <2>1, <2>2 DEF GrantedWithinSession
<1> QED
  BY <1>1, <1>2, <1>3, <1>4

(* Taking grants out of memory, changing the handle and letting time pass  *)
(* disturb nothing.                                                        *)
LEMMA QuietStep ==
  ASSUME AccessInv, TypeOK', UNCHANGED <<session, device, lease, issued>>,
         clock' >= clock,
         \A c \in Credential : pairings'[c] \in {pairings[c], None}
  PROVE  AccessInv'
<1> USE DEF AccessInv, IsDevice, IsPairing, IsSession, Holds
<1>1. OneActiveSessionPerRace' /\ OneRolePerDevice' /\ LeaseHolderIsPaired'
  BY DEF OneActiveSessionPerRace, OneRolePerDevice, LeaseHolderIsPaired
<1>2. GrantsAreIssued'
  BY DEF GrantsAreIssued
<1>3. GrantPairsOnce'
  BY DEF GrantPairsOnce
<1>4. RowsArePast'
  BY LaterRows DEF RowsArePast, TypeOK
<1>5. GrantedWithinSession'
  BY DEF GrantedWithinSession
<1> QED
  BY <1>1, <1>2, <1>3, <1>4, <1>5

(* Taking leases away disturbs nothing, and neither does revoking a device *)
(* that holds none.                                                        *)
LEMMA LeaseRemovalStep ==
  ASSUME AccessInv, TypeOK', UNCHANGED <<clock, session, pairings, issued>>,
         \A s \in Session, r \in Role :
           lease'[s][r] = lease[s][r] \/ lease'[s][r] = None,
         \A d \in Device : IsDevice(d)' <=> IsDevice(d),
         \A d \in Device : IsDevice(d) =>
           /\ device'[d].session = device[d].session
           /\ device'[d].paired = device[d].paired
           /\ device'[d].grant = device[d].grant,
         \A d \in Device : IsDevice(d) /\ device'[d].revoked # device[d].revoked =>
           \A s \in Session, r \in Role : ~Holds(d, s, r)'
  PROVE  AccessInv'
<1> USE DEF AccessInv, IsPairing, IsSession, IsDevice, Holds
<1>1. OneActiveSessionPerRace'
  BY DEF OneActiveSessionPerRace
<1>2. \A d \in Device, s \in Session, r \in Role : Holds(d, s, r)' => Holds(d, s, r)
  OBVIOUS
<1>3. OneRolePerDevice'
  BY <1>2 DEF OneRolePerDevice
<1>4. LeaseHolderIsPaired'
  <2> SUFFICES ASSUME NEW s \in Session, NEW r \in Role, lease'[s][r] # None
               PROVE LET d == lease'[s][r].device
                     IN device'[d] # None /\ device'[d].session = s /\ ~device'[d].revoked
    BY DEF LeaseHolderIsPaired
  <2>1. lease'[s][r] = lease[s][r] /\ lease[s][r] # None
    OBVIOUS
  <2>2. lease[s][r].device \in Device
    BY <2>1 DEF TypeOK, LeaseRow
  <2>3. Holds(lease[s][r].device, s, r)'
    BY <2>1
  <2> QED
    BY <2>1, <2>2, <2>3 DEF LeaseHolderIsPaired
<1>5. GrantsAreIssued' /\ GrantPairsOnce'
  BY DEF GrantsAreIssued, GrantPairsOnce
<1>6. RowsArePast'
  <2>1. \A d \in Device : IsDevice(d)' => device'[d].paired <= clock'
    BY DEF RowsArePast
  <2>2. ASSUME NEW s \in Session, NEW r \in Role, lease'[s][r] # None
        PROVE lease'[s][r].acquired <= clock'
    <3>1. lease'[s][r] = lease[s][r]
      BY <2>2
    <3> QED
      BY <2>2, <3>1 DEF RowsArePast
  <2> QED
    BY <2>1, <2>2 DEF RowsArePast
<1>7. GrantedWithinSession'
  <2>1. ASSUME NEW d \in Device, IsDevice(d)'
        PROVE LET s == device'[d].session
              IN  /\ session'[s] # None
                  /\ session'[s].stopped # None => device'[d].paired <= session'[s].stopped
    BY <2>1 DEF GrantedWithinSession
  <2>2. ASSUME NEW s \in Session, NEW r \in Role, lease'[s][r] # None
        PROVE /\ device'[lease'[s][r].device].paired <= lease'[s][r].acquired
              /\ device'[lease'[s][r].device].paired <= session'[s].expires
              /\ session'[s].stopped # None => lease'[s][r].acquired <= session'[s].stopped
    <3>1. lease'[s][r] = lease[s][r] /\ lease[s][r] # None
      BY <2>2
    <3>2. lease[s][r].device \in Device /\ IsDevice(lease[s][r].device)
      BY <3>1 DEF TypeOK, LeaseRow, LeaseHolderIsPaired
    <3> QED
      BY <3>1, <3>2 DEF GrantedWithinSession
  <2> QED
    BY <2>1, <2>2 DEF GrantedWithinSession
<1> QED
  BY <1>1, <1>3, <1>4, <1>5, <1>6, <1>7

-----------------------------------------------------------------------------
(* Every step preserves the inductive invariant.                           *)
LEMMA StepAccess == AccessInv /\ [Next]_vars => AccessInv'
<1> SUFFICES ASSUME AccessInv, [Next]_vars PROVE AccessInv'
  OBVIOUS
<1>0. TypeOK /\ TypeOK'
  BY StepTypeOK DEF AccessInv
<1> USE <1>0
<1>1. ASSUME NEW s \in Session, NEW r \in Race, NEW e \in Event \cup {CommonChute},
             StartSession(s, r, e)
      PROVE AccessInv'
  <2> USE NoneAssumption DEF IsSession
  <2>0. clock' \in Time /\ clock' >= clock
    BY <1>1, TimeStep DEF StartSession
  <2>1. /\ Opened(r, e, clock') \in SessionRow
        /\ Opened(r, e, clock').race = r
        /\ Opened(r, e, clock').stopped = None
    BY <2>0, SessionRows DEF Opened
  <2>2. ASSUME NEW t \in Session
        PROVE session'[t] = IF t = s THEN Opened(r, e, clock')
                            ELSE IF Superseded(t, r) THEN Ended(t)
                            ELSE session[t]
    BY <1>1 DEF StartSession
  <2>3. ASSUME NEW t \in Session, IsSession(t)
        PROVE /\ IsSession(t)'
              /\ session'[t].race = session[t].race
              /\ session'[t].expires = session[t].expires
              /\ session'[t].status = "active" => session'[t] = session[t]
              /\ session'[t].stopped \in {session[t].stopped, clock}
    BY <1>1, <2>2, <2>3, SessionRows DEF StartSession
  <2>4. ASSUME NEW t \in Session, IsSession(t)', session'[t].status = "active"
        PROVE session'[t].stopped = None
    <3>1. IsSession(t) /\ session[t].status = "active" => session[t].stopped = None
      BY DEF AccessInv, RowsArePast
    <3> QED
      BY <2>1, <2>2, <2>4, <3>1, SessionRows DEF Superseded
  <2>5. ASSUME NEW t \in Session, NEW u \in Session,
               IsSession(t)', session'[t].status = "active",
               IsSession(u)', session'[u].status = "active",
               session'[t].race = session'[u].race
        PROVE t = u
    <3>1. ASSUME NEW v \in Session, IsSession(v)', session'[v].status = "active"
          PROVE v = s \/ /\ IsSession(v)
                         /\ session'[v] = session[v]
                         /\ ~Superseded(v, r)
      BY <2>2, <3>1, SessionRows DEF Superseded
    <3> QED
      BY <2>1, <2>2, <2>5, <3>1 DEF Superseded, AccessInv, OneActiveSessionPerRace
  <2>6. OneActiveSessionPerRace'
    BY <2>5 DEF OneActiveSessionPerRace
  <2>7. UNCHANGED <<device, lease, pairings, issued>>
    BY <1>1 DEF StartSession
  <2> QED
    BY <2>0, <2>3, <2>4, <2>6, <2>7, SessionStep
<1>2. ASSUME NEW s \in Session, StopSession(s) PROVE AccessInv'
  <2> USE NoneAssumption DEF IsSession
  <2>1. ASSUME NEW t \in Session
        PROVE session'[t] = IF t = s THEN Ended(s) ELSE session[t]
    BY <1>2 DEF StopSession, TypeOK
  <2>2. ASSUME NEW t \in Session, IsSession(t)
        PROVE /\ IsSession(t)'
              /\ session'[t].race = session[t].race
              /\ session'[t].expires = session[t].expires
              /\ session'[t].status = "active" => session'[t] = session[t]
              /\ session'[t].stopped \in {session[t].stopped, clock}
    BY <2>1, <2>2, SessionRows
  <2>3. ASSUME NEW t \in Session, IsSession(t)', session'[t].status = "active"
        PROVE IsSession(t) /\ session'[t] = session[t] /\ session'[t].stopped = None
    <3>1. t # s
      BY <1>2, <2>1, <2>3, SessionRows DEF StopSession, Found
    <3> QED
      BY <2>1, <2>3, <3>1 DEF AccessInv, RowsArePast
  <2>4. OneActiveSessionPerRace'
    BY <2>3 DEF AccessInv, OneActiveSessionPerRace
  <2>5. UNCHANGED <<device, lease, pairings, issued>> /\ clock' >= clock
    BY <1>2 DEF StopSession, TypeOK, Time
  <2> QED
    BY <2>2, <2>3, <2>4, <2>5, SessionStep
<1>3. ASSUME NEW s \in Session, NEW g \in Grant, NEW code \in Code,
             CreatePairing(s, g, code)
      PROVE AccessInv'
  <2> USE <1>3 DEF CreatePairing, IsDevice, IsPairing, IsSession, Holds
  <2>1. OneActiveSessionPerRace' /\ OneRolePerDevice' /\ LeaseHolderIsPaired'
    BY DEF AccessInv, OneActiveSessionPerRace, OneRolePerDevice, LeaseHolderIsPaired
  <2>2. ASSUME NEW c \in Credential, pairings'[c] # None
        PROVE pairings'[c].id = g \/ /\ pairings[c] # None
                                     /\ pairings'[c] = pairings[c]
    BY <2>2 DEF TypeOK
  <2>3. GrantsAreIssued'
    <3>1. ASSUME NEW c \in Credential, pairings'[c] # None
          PROVE pairings'[c].id \in issued'
      <4>1. issued' = issued \cup {g}
        OBVIOUS
      <4>2. \A k \in Credential : pairings[k] # None => pairings[k].id \in issued
        BY DEF AccessInv, GrantsAreIssued
      <4> QED
        BY ONLY <2>2, <3>1, <4>1, <4>2
    <3>2. \A d \in Device : device'[d] # None => device'[d].grant \in issued'
      BY DEF AccessInv, GrantsAreIssued
    <3> QED
      BY <3>1, <3>2 DEF GrantsAreIssued
  <2>4. GrantPairsOnce'
    BY <2>2 DEF AccessInv, GrantsAreIssued, GrantPairsOnce
  <2>5. clock' >= clock /\ UNCHANGED <<session, device, lease>>
    BY TimeStep
  <2>6. RowsArePast'
    BY <2>5, LaterRows DEF AccessInv, RowsArePast, TypeOK
  <2>7. GrantedWithinSession'
    BY <2>5 DEF AccessInv, GrantedWithinSession
  <2> QED
    BY <2>1, <2>3, <2>4, <2>6, <2>7 DEF AccessInv
<1>4. ASSUME NEW c \in Credential, NEW d \in Device, Pair(c, d) PROVE AccessInv'
  <2> DEFINE g == pairings[c].id
             s == pairings[c].session
  <2>1. /\ pairings[c] \in PairingGrant
        /\ pairings[c] # None
        /\ Joinable(s)
        /\ device[d] = None
    BY <1>4 DEF Pair, Presentable, IsPairing, IsDevice, TypeOK
  <2>2. /\ device' = [device EXCEPT ![d] =
             [session |-> s, paired |-> clock', revoked |-> FALSE, grant |-> g]]
        /\ UNCHANGED <<session, lease, issued>>
        /\ clock' \in Time /\ clock' >= clock
    BY <1>4, TimeStep DEF Pair
  <2>3. \A o \in Device \ {d} : device'[o] = device[o]
    BY <2>2 DEF TypeOK
  <2>4. device'[d] = [session |-> s, paired |-> clock', revoked |-> FALSE, grant |-> g]
    BY <2>2 DEF TypeOK
  <2>5. \A k \in Credential : pairings'[k] # None =>
          /\ pairings[k] # None
          /\ pairings'[k] = pairings[k]
          /\ pairings[k].id # g
    BY <1>4 DEF Pair, WithoutGrant, IsPairing
  <2>6. OneActiveSessionPerRace' /\ OneRolePerDevice'
    BY <2>2 DEF AccessInv, OneActiveSessionPerRace, OneRolePerDevice, IsSession, Holds
  <2>7. \A t \in Session, r \in Role : lease[t][r] # None =>
          lease[t][r].device \in Device \ {d}
    BY <2>1 DEF AccessInv, LeaseHolderIsPaired, IsDevice, TypeOK, LeaseRow
  <2>8. LeaseHolderIsPaired'
    BY <2>2, <2>3, <2>7 DEF AccessInv, LeaseHolderIsPaired, IsDevice
  <2>9. GrantsAreIssued'
    BY <2>1, <2>2, <2>3, <2>4, <2>5 DEF AccessInv, GrantsAreIssued, IsDevice, IsPairing
  <2>10. \A o \in Device : device[o] # None => device[o].grant # g
    BY <2>1 DEF AccessInv, GrantPairsOnce, IsDevice, IsPairing
  <2>11. GrantPairsOnce'
    BY <2>3, <2>4, <2>5, <2>10 DEF AccessInv, GrantPairsOnce, IsDevice, IsPairing
  <2>12. RowsArePast'
    <3>1. \A o \in Device : device'[o] # None => device'[o].paired <= clock'
      BY <2>2, <2>3, <2>4, LaterRows DEF AccessInv, IsDevice, Time
    <3> QED
      BY <2>2, <3>1, LaterRows DEF AccessInv, RowsArePast, IsDevice, IsSession
  <2>13. GrantedWithinSession'
    <3>1. /\ s \in Session
          /\ session[s] # None
          /\ session[s].stopped = None
      <4>1. s \in Session
        BY <2>1 DEF PairingGrant
      <4>2. session[s] # None /\ session[s].status = "active"
        BY <2>1 DEF Joinable, Found, IsSession
      <4> QED
        BY <4>1, <4>2 DEF AccessInv, RowsArePast, IsSession
    <3>2. ASSUME NEW o \in Device, device'[o] # None
          PROVE LET t == device'[o].session
                IN  /\ session'[t] # None
                    /\ session'[t].stopped # None => device'[o].paired <= session'[t].stopped
      <4>1. CASE o = d
        BY <4>1, <2>2, <2>4, <3>1
      <4>2. CASE o # d
        BY <4>2, <2>2, <2>3, <3>2 DEF AccessInv, GrantedWithinSession, IsDevice, IsSession
      <4> QED
        BY <4>1, <4>2
    <3>3. ASSUME NEW t \in Session, NEW r \in Role, lease'[t][r] # None
          PROVE /\ device'[lease'[t][r].device].paired <= lease'[t][r].acquired
                /\ device'[lease'[t][r].device].paired <= session'[t].expires
                /\ session'[t].stopped # None => lease'[t][r].acquired <= session'[t].stopped
      <4>1. device'[lease[t][r].device] = device[lease[t][r].device]
        BY <2>2, <2>3, <2>7, <3>3
      <4> QED
        BY <2>2, <3>3, <4>1 DEF AccessInv, GrantedWithinSession
    <3> QED
      BY <3>2, <3>3 DEF GrantedWithinSession, IsDevice, IsSession
  <2> QED
    BY <2>6, <2>8, <2>9, <2>11, <2>12, <2>13 DEF AccessInv
<1>5. ASSUME NEW c \in Credential, PairInsertFails(c) \/ PairRefused(c)
      PROVE AccessInv'
  <2>1. UNCHANGED <<session, device, lease, issued>> /\ clock' >= clock
    BY <1>5 DEF PairInsertFails, PairRefused, rows, TypeOK, Time
  <2>2. \A k \in Credential : pairings'[k] \in {pairings[k], None}
    BY <1>5 DEF PairInsertFails, PairRefused, WithoutGrant
  <2> QED
    BY <2>1, <2>2, QuietStep
<1>6. ASSUME NEW d \in Device, NEW r \in Role, AcquireRole(d, r) PROVE AccessInv'
  <2> DEFINE s == device[d].session
             taken == [device |-> d, acquired |-> clock']
  <2>1. /\ device[d] \in DeviceRow
        /\ s \in Session
        /\ device[d] # None
        /\ ~device[d].revoked
        /\ session[s] # None
        /\ session[s].status = "active"
        /\ session[s].expires >= clock
        /\ device[d].paired <= clock
        /\ session[s].stopped = None
    <3>1. device[d] \in DeviceRow /\ device[d] # None
      BY <1>6 DEF AcquireRole, Authenticated, IsDevice, TypeOK
    <3>2. s \in Session
      BY <3>1 DEF DeviceRow
    <3> QED
      BY <1>6, <3>1, <3>2
      DEF AcquireRole, Authenticated, Found, IsSession, IsDevice, AccessInv, RowsArePast
  <2>2. /\ \A q \in Role \ {r} : ~Holds(d, s, q)
        /\ lease' = [lease EXCEPT ![s][r] = taken]
        /\ UNCHANGED <<session, device, pairings, issued>>
        /\ clock' \in Time /\ clock' >= clock
    BY <1>6, TimeStep DEF AcquireRole
  <2>3. ASSUME NEW t \in Session, NEW q \in Role
        PROVE lease'[t][q] = IF t = s /\ q = r THEN taken ELSE lease[t][q]
    BY <2>1, <2>2 DEF TypeOK
  <2>4. OneActiveSessionPerRace' /\ GrantsAreIssued' /\ GrantPairsOnce'
    BY <2>2 DEF AccessInv, OneActiveSessionPerRace, GrantsAreIssued, GrantPairsOnce,
                IsSession, IsDevice, IsPairing
  <2>5. LeaseHolderIsPaired'
    BY <2>1, <2>2, <2>3 DEF AccessInv, LeaseHolderIsPaired, IsDevice
  <2>6. \A t \in Session, q \in Role : Holds(d, t, q) => t = s /\ q = r
    BY <2>2 DEF AccessInv, LeaseHolderIsPaired, Holds
  <2>7. OneRolePerDevice'
    BY <2>3, <2>6 DEF AccessInv, OneRolePerDevice, Holds
  <2>8. RowsArePast'
    <3>1. ASSUME NEW t \in Session, NEW q \in Role, lease'[t][q] # None
          PROVE lease'[t][q].acquired <= clock'
      BY <2>2, <2>3, <3>1, LaterRows DEF AccessInv, Time
    <3> QED
      BY <2>2, <3>1, LaterRows DEF AccessInv, RowsArePast, IsDevice, IsSession
  <2>9. GrantedWithinSession'
    <3>1. ASSUME NEW t \in Session, NEW q \in Role, lease'[t][q] # None
          PROVE /\ device[lease'[t][q].device].paired <= lease'[t][q].acquired
                /\ device[lease'[t][q].device].paired <= session[t].expires
                /\ session[t].stopped # None => lease'[t][q].acquired <= session[t].stopped
      <4>1. CASE t = s /\ q = r
        <5>1. lease'[t][q].device = d /\ lease'[t][q].acquired = clock'
          BY <2>3, <4>1
        <5>2. clock \in Nat /\ device[d].paired \in Nat /\ session[s].expires \in Nat
          BY <2>1 DEF DeviceRow, TypeOK, SessionRow, Time
        <5> QED
          BY <2>1, <2>2, <4>1, <5>1, <5>2 DEF Time
      <4>2. CASE ~(t = s /\ q = r)
        BY <2>3, <3>1, <4>2 DEF AccessInv, GrantedWithinSession
      <4> QED
        BY <4>1, <4>2
    <3> QED
      BY <2>2, <3>1 DEF AccessInv, GrantedWithinSession, IsDevice, IsSession
  <2> QED
    BY <2>4, <2>5, <2>7, <2>8, <2>9 DEF AccessInv
<1>7. ASSUME NEW s \in Session, NEW r \in Role, lease' = [lease EXCEPT ![s][r] = None],
             UNCHANGED <<clock, session, device, pairings, issued>>
      PROVE AccessInv'
  <2>1. \A t \in Session, q \in Role :
          lease'[t][q] = lease[t][q] \/ lease'[t][q] = None
    BY <1>7 DEF TypeOK
  <2> QED
    BY <1>7, <2>1, LeaseRemovalStep DEF IsDevice
<1>8. ASSUME NEW d \in Device, NEW r \in Role, ReleaseRole(d, r) PROVE AccessInv'
  <2>1. device[d].session \in Session
    BY <1>8 DEF ReleaseRole, Authenticated, IsDevice, TypeOK, DeviceRow
  <2> QED
    BY <1>7, <1>8, <2>1 DEF ReleaseRole
<1>9. ASSUME NEW s \in Session, NEW r \in Role, ClearRole(s, r) PROVE AccessInv'
  BY <1>7, <1>9 DEF ClearRole
<1>10. ASSUME NEW d \in Device, IsDevice(d), Revoke(d) PROVE AccessInv'
  <2>1. ASSUME NEW s \in Session, NEW r \in Role
        PROVE /\ lease'[s][r] = lease[s][r] \/ lease'[s][r] = None
              /\ ~Holds(d, s, r)'
    BY <1>10 DEF Revoke, WithoutLeasesOf, Holds
  <2>2. device[d] \in DeviceRow
    BY <1>10 DEF TypeOK, IsDevice
  <2>3. \A o \in Device : o # d => device'[o] = device[o]
    BY <1>10 DEF Revoke, TypeOK
  <2>4. device'[d] = [device[d] EXCEPT !.revoked = TRUE]
    BY <1>10 DEF Revoke, TypeOK
  <2>5. device'[d] \in DeviceRow
    BY <2>2, <2>4 DEF DeviceRow
  <2>6. \A o \in Device : IsDevice(o)' <=> IsDevice(o)
    BY <1>10, <2>3, <2>5, NoneAssumption DEF IsDevice
  <2>7. ASSUME NEW o \in Device, IsDevice(o)
        PROVE /\ device'[o].session = device[o].session
              /\ device'[o].paired = device[o].paired
              /\ device'[o].grant = device[o].grant
    BY <2>2, <2>3, <2>4 DEF DeviceRow
  <2>8. \A o \in Device : IsDevice(o) /\ device'[o].revoked # device[o].revoked =>
          \A s \in Session, r \in Role : ~Holds(o, s, r)'
    BY <2>1, <2>3 DEF Holds
  <2>9. UNCHANGED <<clock, session, pairings, issued>>
    BY <1>10 DEF Revoke
  <2>10. \A s \in Session, r \in Role :
           lease'[s][r] = lease[s][r] \/ lease'[s][r] = None
    BY <2>1
  <2> QED
    BY <2>6, <2>7, <2>8, <2>9, <2>10, LeaseRemovalStep
<1>11. CASE CloseHandle \/ (\E h \in File \cup {Nil} : SetDB(h)) \/ Restart
            \/ Tick \/ UNCHANGED vars
  <2>1. UNCHANGED <<session, device, lease, issued>>
    BY <1>11 DEF CloseHandle, SetDB, Restart, Tick, vars, rows
  <2>2. clock' >= clock
    BY <1>11 DEF CloseHandle, SetDB, Restart, Tick, vars, TypeOK, Time
  <2>3. \A c \in Credential : pairings'[c] \in {pairings[c], None}
    BY <1>11 DEF CloseHandle, SetDB, Restart, Tick, vars
  <2> QED
    BY <2>1, <2>2, <2>3, QuietStep
<1> QED
  BY <1>1, <1>2, <1>3, <1>4, <1>5, <1>6, <1>8, <1>9, <1>10, <1>11
  DEF Next, RevokeDevice, Unpair, Authenticated

(* The inductive invariant holds in every reachable state.                 *)
THEOREM AccessSafety == Spec => []AccessInv
BY InitAccess, StepAccess, PTL DEF Spec

(* OneActiveSessionPerRace: starting a session replaces the active one.    *)
THEOREM OneActiveSession == Spec => []OneActiveSessionPerRace
<1>1. AccessInv => OneActiveSessionPerRace
  BY DEF AccessInv
<1> QED
  BY <1>1, AccessSafety, PTL

(* "Only one device may hold each role, and one device may hold only one   *)
(* role at a time", and the holder is a paired device that is not revoked. *)
THEOREM RoleExclusion == Spec => [](OneRolePerDevice /\ LeaseHolderIsPaired)
<1>1. AccessInv => OneRolePerDevice /\ LeaseHolderIsPaired
  BY DEF AccessInv
<1> QED
  BY <1>1, AccessSafety, PTL

(* "Pairing links are single use": at most one device pairs with a grant,  *)
(* be it by its link or by its code.                                       *)
THEOREM GrantSingleUse == Spec => []GrantPairsOnce
<1>1. AccessInv => GrantPairsOnce
  BY DEF AccessInv
<1> QED
  BY <1>1, AccessSafety, PTL

(* Although dates are read from the clock after the checks: no device and  *)
(* no lease is dated after its session was stopped, and every lease is of  *)
(* a phone that paired before it, and no later than the session expired.   *)
THEOREM WithinSession == Spec => []GrantedWithinSession
<1>1. AccessInv => GrantedWithinSession
  BY DEF AccessInv
<1> QED
  BY <1>1, AccessSafety, PTL

-----------------------------------------------------------------------------
(* No step hands a role from one phone straight to another.                *)
THEOREM LeaseNeverTakenOver == Spec => NoLeaseTakeover
<1> DEFINE Kept == \A s \in Session, r \in Role :
             lease[s][r] # None /\ lease'[s][r] # None
               => lease'[s][r].device = lease[s][r].device
<1>1. ASSUME TypeOK, Next PROVE Kept
  <2>1. CASE UNCHANGED lease
    BY <2>1
  <2>2. ASSUME NEW d \in Device, NEW q \in Role, AcquireRole(d, q) PROVE Kept
    <3>1. device[d].session \in Session
      BY <1>1, <2>2 DEF AcquireRole, Authenticated, IsDevice, TypeOK, DeviceRow
    <3> QED
      BY <1>1, <2>2, <3>1 DEF AcquireRole, Holds, TypeOK
  <2>3. ASSUME NEW s \in Session, NEW q \in Role, lease' = [lease EXCEPT ![s][q] = None]
        PROVE Kept
    BY <1>1, <2>3 DEF TypeOK
  <2>4. ASSUME NEW d \in Device, Revoke(d) PROVE Kept
    BY <2>4 DEF Revoke, WithoutLeasesOf
  <2>5. ASSUME NEW d \in Device, NEW q \in Role, ReleaseRole(d, q) PROVE Kept
    <3>1. device[d].session \in Session
      BY <1>1, <2>5 DEF ReleaseRole, Authenticated, IsDevice, TypeOK, DeviceRow
    <3> QED
      BY <2>3, <2>5, <3>1 DEF ReleaseRole
  <2> QED
    BY <1>1, <2>1, <2>2, <2>3, <2>4, <2>5
    DEF Next, StartSession, StopSession, CreatePairing, Pair, PairInsertFails,
        PairRefused, ClearRole, RevokeDevice, Unpair, CloseHandle, SetDB,
        Restart, Tick, rows
<1>2. TypeOK /\ [Next]_vars => [Kept]_vars
  BY <1>1
<1> QED
  BY <1>2, AccessTypeOK, PTL DEF Spec, NoLeaseTakeover

(* A session that is over, or whose file is not open, gains nothing.       *)
THEOREM DeadSessionsAreFrozen == Spec => DeadSessionsGainNothing
<1> DEFINE Frozen(s) ==
      /\ session[s].status = "stopped" => session'[s].status = "stopped"
      /\ \A d \in Device :
           device'[d] # None /\ device'[d].session = s => IsDevice(d)
      /\ \A r \in Role : lease'[s][r] \in {lease[s][r], None}
<1>1. ASSUME TypeOK, Next, NEW s \in Session, Over(s) PROVE Frozen(s)
  <2> USE DEF IsDevice, IsSession
  <2>1. CASE UNCHANGED rows
    BY <2>1 DEF rows
  <2>2. ASSUME NEW t \in Session, NEW r \in Race,
               NEW e \in Event \cup {CommonChute}, StartSession(t, r, e)
        PROVE Frozen(s)
    <3>1. session'[s] = IF Superseded(s, r) THEN Ended(s) ELSE session[s]
      BY <1>1, <2>2 DEF StartSession, Over
    <3> QED
      BY <1>1, <2>2, <3>1, SessionRows DEF StartSession, Over
  <2>3. ASSUME NEW t \in Session, StopSession(t) PROVE Frozen(s)
    <3>1. session'[s] \in {Ended(s), session[s]}
      BY <1>1, <2>3 DEF StopSession, TypeOK
    <3> QED
      BY <1>1, <2>3, <3>1, SessionRows DEF StopSession, Over
  <2>4. ASSUME NEW c \in Credential, NEW d \in Device, Pair(c, d) PROVE Frozen(s)
    <3>1. pairings[c].session # s
      <4>1. s = pairings[c].session => ~Joinable(s)
        <5>1. session[s].expires \in Nat /\ clock \in Nat
          BY <1>1 DEF Over, TypeOK, SessionRow, Time
        <5> QED
          BY <1>1, <5>1 DEF Over, Joinable, Found
      <4> QED
        BY <2>4, <4>1 DEF Pair
    <3>2. \A o \in Device : o # d => device'[o] = device[o]
      BY <1>1, <2>4 DEF Pair, TypeOK
    <3>3. device'[d].session = pairings[c].session
      BY <1>1, <2>4 DEF Pair, TypeOK
    <3> QED
      BY <2>4, <3>1, <3>2, <3>3 DEF Pair
  <2>5. ASSUME NEW d \in Device, NEW q \in Role, AcquireRole(d, q) PROVE Frozen(s)
    <3>1. device[d].session \in Session
      BY <1>1, <2>5 DEF AcquireRole, Authenticated, TypeOK, DeviceRow
    <3>2. device[d].session # s
      <4>1. session[s].expires \in Nat /\ clock \in Nat
        BY <1>1 DEF Over, TypeOK, SessionRow, Time
      <4> QED
        BY <1>1, <2>5, <4>1 DEF AcquireRole, Authenticated, Over, Found
    <3>3. lease'[s] = lease[s]
      BY <1>1, <2>5, <3>1, <3>2 DEF AcquireRole, TypeOK
    <3> QED
      BY <2>5, <3>3 DEF AcquireRole
  <2>6. ASSUME NEW t \in Session, NEW q \in Role, lease' = [lease EXCEPT ![t][q] = None],
               UNCHANGED <<session, device>>
        PROVE Frozen(s)
    <3>1. \A r \in Role : lease'[s][r] = lease[s][r] \/ lease'[s][r] = None
      BY <1>1, <2>6 DEF TypeOK
    <3> QED
      BY <2>6, <3>1
  <2>7. ASSUME NEW d \in Device, NEW q \in Role, ReleaseRole(d, q) PROVE Frozen(s)
    <3>1. device[d].session \in Session
      BY <1>1, <2>7 DEF ReleaseRole, Authenticated, TypeOK, DeviceRow
    <3> QED
      BY <2>6, <2>7, <3>1 DEF ReleaseRole
  <2>8. ASSUME NEW t \in Session, NEW q \in Role, ClearRole(t, q) PROVE Frozen(s)
    BY <2>6, <2>8 DEF ClearRole
  <2>9. ASSUME NEW d \in Device, IsDevice(d), Revoke(d) PROVE Frozen(s)
    <3>1. \A r \in Role : lease'[s][r] = lease[s][r] \/ lease'[s][r] = None
      BY <2>9 DEF Revoke, WithoutLeasesOf
    <3>2. \A o \in Device : device'[o] # None => o = d \/ device'[o] = device[o]
      BY <1>1, <2>9 DEF Revoke, TypeOK
    <3> QED
      BY <2>9, <3>1, <3>2 DEF Revoke
  <2> QED
    BY <1>1, <2>1, <2>2, <2>3, <2>4, <2>5, <2>7, <2>8, <2>9
    DEF Next, CreatePairing, PairInsertFails, PairRefused, RevokeDevice, Unpair,
        Authenticated, CloseHandle, SetDB, Restart, Tick, rows
<1>2. TypeOK /\ [Next]_vars => [\A s \in Session : Over(s) => Frozen(s)]_vars
  BY <1>1
<1> QED
  BY <1>2, AccessTypeOK, PTL DEF Spec, DeadSessionsGainNothing
-----------------------------------------------------------------------------
(* The roles as the record of a race relies on them *)

(* A triple is in the book if the lease says so.                           *)
LEMMA HeldIs ==
  ASSUME NEW s \in Session, NEW r \in Role, NEW d \in Device
  PROVE  /\ <<s, r, d>> \in HeldRoles <=> Holds(d, s, r)
         /\ <<s, r, d>> \in HeldRoles' <=> Holds(d, s, r)'
  BY DEF HeldRoles

(* What is in the book are triples.                                        *)
LEMMA HeldAre ==
  /\ \A x \in HeldRoles : x \in Session \X Role \X Device
  /\ \A x \in HeldRoles' : x \in Session \X Role \X Device
  BY DEF HeldRoles

(* The book stays when nobody takes or gives up a role.                    *)
LEMMA HeldStays ==
  ASSUME \A t \in Session, q \in Role, o \in Device : Holds(o, t, q)' <=> Holds(o, t, q)
  PROVE  HeldRoles' = HeldRoles
<1>1. ASSUME NEW x \in Session \X Role \X Device
      PROVE  Holds(x[3], x[1], x[2])' <=> Holds(x[3], x[1], x[2])
  <2>1. x[1] \in Session /\ x[2] \in Role /\ x[3] \in Device
    OBVIOUS
  <2> QED
    BY <2>1
<1> QED
  BY <1>1 DEF HeldRoles

(* A device that is paired is in the book with its session.                *)
LEMMA PairedIs ==
  /\ DOMAIN PairedWith = Paired
  /\ \A d \in Device : IsDevice(d) => d \in Paired /\ PairedWith[d] = device[d].session
<1>1. DOMAIN PairedWith = Paired /\ \A d \in Paired : PairedWith[d] = device[d].session
  BY DEF PairedWith
<1>2. \A d \in Device : d \in Paired <=> IsDevice(d)
  BY DEF Paired
<1> QED
  BY <1>1, <1>2

(* The book stays when no device is paired anew.                           *)
LEMMA PairedStays ==
  ASSUME \A o \in Device : /\ IsDevice(o)' <=> IsDevice(o)
                          /\ device'[o].session = device[o].session
  PROVE  PairedWith' = PairedWith
<1>1. PairedWith' = [x \in Paired' |-> device'[x].session]
  BY DEF PairedWith
<1>2. Paired' = Paired
  BY DEF Paired
<1>3. \A x \in Paired : device'[x].session = device[x].session
  BY DEF Paired
<1> QED
  BY <1>1, <1>2, <1>3 DEF PairedWith

(* Pairing a device enters it.                                             *)
LEMMA PairEnters ==
  ASSUME TypeOK, NEW c \in Credential, NEW d \in Device, Pair(c, d)
  PROVE  Book!BookNext
<1> DEFINE s == pairings[c].session
<1>1. s \in Session
  BY DEF Pair, Presentable, IsPairing, TypeOK, PairingGrant
<1>2. \A o \in Device : o # d => device'[o] = device[o]
  BY DEF Pair, TypeOK
<1>3. device'[d] \in DeviceRow /\ device'[d].session = s
  BY <1>1, TimeStep DEF Pair, Presentable, IsPairing, TypeOK, PairingGrant, DeviceRow
<1>4. ~IsDevice(d) /\ IsDevice(d)' /\ \A o \in Device : o # d => (IsDevice(o)' <=> IsDevice(o))
  BY <1>2, <1>3, NoneAssumption DEF Pair, IsDevice
<1>5. d \in Device \ DOMAIN PairedWith
  BY <1>4, PairedIs DEF Paired
<1>6. PairedWith' = [x \in DOMAIN PairedWith \cup {d} |-> IF x = d THEN s ELSE PairedWith[x]]
  <2>1. PairedWith' = [x \in Paired' |-> device'[x].session]
    BY DEF PairedWith
  <2>2. Paired' = Paired \cup {d}
    BY <1>4 DEF Paired
  <2>3. ASSUME NEW x \in Paired \cup {d}
        PROVE  device'[x].session = IF x = d THEN s ELSE PairedWith[x]
    BY <1>2, <1>3, PairedIs DEF Paired
  <2> QED
    BY ONLY <2>1, <2>2, <2>3, PairedIs
<1>7. HeldRoles' = HeldRoles
  BY DEF HeldRoles, Holds, Pair
<1>8. d \in DOMAIN PairedWith' \ DOMAIN PairedWith /\ PairedWith'[d] = s
  BY <1>5, <1>6
<1>9. Book!Pair(d, s)
  BY <1>1, <1>6, <1>7 DEF Book!Pair
<1> QED
  BY <1>8, <1>9 DEF Book!BookNext

(* A role that is free is taken, or its holder takes it again.             *)
LEMMA AcquireEnters ==
  ASSUME AccessInv, NEW d \in Device, NEW r \in Role, AcquireRole(d, r)
  PROVE  Book!BookNext \/ UNCHANGED <<PairedWith, HeldRoles>>
<1> DEFINE s == device[d].session
           x == <<s, r, d>>
<1>1. TypeOK /\ IsDevice(d) /\ s \in Session
  BY DEF AccessInv, AcquireRole, Authenticated, IsDevice, TypeOK, DeviceRow
<1>2. /\ \A o \in Role \ {r} : ~Holds(d, s, o)
      /\ lease[s][r] = None \/ Holds(d, s, r)
      /\ UNCHANGED device
  BY DEF AcquireRole
<1>3. UNCHANGED PairedWith
  BY <1>2, PairedStays DEF IsDevice
<1>4. Holds(d, s, r)'
  <2>1. lease'[s][r] = [device |-> d, acquired |-> clock'] /\ clock' \in Time
    BY <1>1, TimeStep DEF AcquireRole, TypeOK
  <2>2. lease'[s][r] # None
    BY <2>1, NoneAssumption DEF LeaseRow
  <2> QED
    BY <1>2, <2>1, <2>2 DEF Holds
<1>5. ASSUME NEW t \in Session, NEW q \in Role, ~(t = s /\ q = r)
      PROVE  lease'[t][q] = lease[t][q]
  BY <1>1, <1>5 DEF AcquireRole, TypeOK
<1>6. HeldRoles' = HeldRoles \cup {x}
  <2>1. ASSUME NEW t \in Session, NEW q \in Role, NEW o \in Device
        PROVE  Holds(o, t, q)' <=> Holds(o, t, q) \/ <<t, q, o>> = x
    <3>1. CASE t = s /\ q = r
      <4>1. Holds(o, t, q)' <=> o = d
        BY <1>2, <1>4, <3>1 DEF Holds
      <4>2. Holds(o, t, q) => o = d
        BY <1>2, <3>1 DEF Holds
      <4>3. <<t, q, o>> = x <=> o = d
        BY <3>1
      <4> QED
        BY ONLY <4>1, <4>2, <4>3
    <3>2. CASE ~(t = s /\ q = r)
      <4>1. lease'[t][q] = lease[t][q]
        BY <1>5, <3>2
      <4>2. Holds(o, t, q)' <=> Holds(o, t, q)
        BY <4>1 DEF Holds
      <4>3. <<t, q, o>> # x
        BY <3>2
      <4> QED
        BY <4>2, <4>3
    <3> QED
      BY <3>1, <3>2
  <2>2. x \in Session \X Role \X Device
    BY <1>1
  <2> QED
    BY <2>1, <2>2, HeldIs, HeldAre
<1>7. CASE Holds(d, s, r)
  BY <1>1, <1>3, <1>6, <1>7, HeldIs
<1>8. CASE ~Holds(d, s, r)
  <2>1. x \notin HeldRoles /\ lease[s][r] = None
    BY <1>1, <1>2, <1>8, HeldIs
  <2>2. ASSUME NEW y \in HeldRoles
        PROVE  y[3] # d /\ ~(y[1] = s /\ y[2] = r)
    <3>1. PICK t \in Session, q \in Role, o \in Device : y = <<t, q, o>> /\ Holds(o, t, q)
      BY HeldAre, HeldIs
    <3>2. lease[t][q] # None /\ lease[t][q].device = o
      BY <3>1 DEF Holds
    <3>3. device[o].session = t
      BY <3>2 DEF AccessInv, LeaseHolderIsPaired
    <3> QED
      BY <1>2, <1>8, <2>1, <3>1, <3>2, <3>3
  <2>3. d \in DOMAIN PairedWith /\ s = PairedWith[d]
    BY <1>1, PairedIs
  <2>4. Book!Acquire(x)
    BY <1>1, <1>3, <1>6, <2>2, <2>3 DEF Book!Acquire
  <2> QED
    BY <1>6, <2>1, <2>4 DEF Book!BookNext
<1> QED
  BY <1>7, <1>8

(* A role that is given up leaves the book.                                *)
LEMMA RoleLeaves ==
  ASSUME TypeOK, NEW s \in Session, NEW r \in Role,
         lease' = [lease EXCEPT ![s][r] = None], UNCHANGED device
  PROVE  Book!BookNext \/ UNCHANGED <<PairedWith, HeldRoles>>
<1>1. UNCHANGED PairedWith
  BY PairedStays DEF IsDevice
<1>2. ASSUME NEW t \in Session, NEW q \in Role, NEW o \in Device
      PROVE  Holds(o, t, q)' <=> Holds(o, t, q) /\ <<t, q>> # <<s, r>>
  BY DEF Holds, TypeOK
<1>3. CASE lease[s][r] = None
  <2>1. \A t \in Session, q \in Role, o \in Device : Holds(o, t, q)' <=> Holds(o, t, q)
    BY <1>2, <1>3 DEF Holds
  <2>2. HeldRoles' = HeldRoles
    BY <2>1, HeldStays
  <2> QED
    BY <1>1, <2>2
<1>4. CASE lease[s][r] # None
  <2> DEFINE x == <<s, r, lease[s][r].device>>
  <2>1. lease[s][r].device \in Device /\ Holds(lease[s][r].device, s, r)
    BY <1>4 DEF TypeOK, LeaseRow, Holds
  <2>2. x \in HeldRoles
    BY <2>1, HeldIs
  <2>3. \A t \in Session, q \in Role, o \in Device :
          Holds(o, t, q)' <=> Holds(o, t, q) /\ <<t, q, o>> # x
    BY <1>2, <2>1 DEF Holds
  <2>4. HeldRoles' = HeldRoles \ {x}
    BY <2>3, HeldIs, HeldAre
  <2> QED
    BY <1>1, <2>2, <2>4 DEF Book!BookNext, Book!Drop
<1> QED
  BY <1>3, <1>4

(* A device that is revoked leaves its one role.                           *)
LEMMA RevokedLeaves ==
  ASSUME AccessInv, NEW d \in Device, IsDevice(d), Revoke(d)
  PROVE  Book!BookNext \/ UNCHANGED <<PairedWith, HeldRoles>>
<1>1. TypeOK /\ device[d] \in DeviceRow
  BY DEF AccessInv, TypeOK, IsDevice
<1>2. \A o \in Device : (IsDevice(o)' <=> IsDevice(o)) /\ device'[o].session = device[o].session
  <2>1. \A o \in Device : o # d => device'[o] = device[o]
    BY <1>1 DEF Revoke, TypeOK
  <2>2. device'[d] = [device[d] EXCEPT !.revoked = TRUE]
    BY <1>1 DEF Revoke, TypeOK
  <2>3. device'[d] \in DeviceRow /\ device'[d].session = device[d].session
    BY <1>1, <2>2 DEF DeviceRow
  <2> QED
    BY <2>1, <2>3, NoneAssumption DEF IsDevice
<1>3. UNCHANGED PairedWith
  BY <1>2, PairedStays
<1>4. ASSUME NEW t \in Session, NEW q \in Role, NEW o \in Device
      PROVE  Holds(o, t, q)' <=> Holds(o, t, q) /\ o # d
  <2>1. lease'[t][q] = IF Holds(d, t, q) THEN None ELSE lease[t][q]
    BY DEF Revoke, WithoutLeasesOf
  <2> QED
    BY <2>1 DEF Holds
<1>5. CASE \A t \in Session, q \in Role : ~Holds(d, t, q)
  <2>1. \A t \in Session, q \in Role, o \in Device : Holds(o, t, q)' <=> Holds(o, t, q)
    BY <1>4, <1>5
  <2>2. HeldRoles' = HeldRoles
    BY <2>1, HeldStays
  <2> QED
    BY <1>3, <2>2
<1>6. ASSUME NEW s \in Session, NEW r \in Role, Holds(d, s, r)
      PROVE  Book!BookNext
  <2> DEFINE x == <<s, r, d>>
  <2>1. \A t \in Session, q \in Role : Holds(d, t, q) => t = s /\ q = r
    BY <1>6 DEF AccessInv, OneRolePerDevice
  <2>2. \A t \in Session, q \in Role, o \in Device :
          Holds(o, t, q)' <=> Holds(o, t, q) /\ <<t, q, o>> # x
    BY <1>4, <2>1
  <2>3. HeldRoles' = HeldRoles \ {x}
    BY <2>2, HeldIs, HeldAre
  <2>4. x \in HeldRoles
    BY <1>6, HeldIs
  <2> QED
    BY <1>3, <2>3, <2>4 DEF Book!BookNext, Book!Drop
<1> QED
  BY <1>5, <1>6

(* Every call of the service is a step of RoleBook, or none: whatever the  *)
(* phones, the laptop, the clock and the files do, the record of a race    *)
(* may rely on the holder of a role as RoleBook says.                      *)
THEOREM RolesAreHandedOver == Spec => RolesChangeHands
<1>1. Init => Book!BookInit
  <2> SUFFICES ASSUME Init PROVE Book!BookInit
    OBVIOUS
  <2>1. \A d \in Device : ~IsDevice(d)
    BY DEF Init, IsDevice
  <2>2. DOMAIN PairedWith = {}
    BY <2>1, PairedIs DEF Paired
  <2>3. PairedWith \in [DOMAIN PairedWith -> Session]
    BY <2>2 DEF PairedWith
  <2>4. HeldRoles = {}
    BY DEF Init, HeldRoles, Holds
  <2> QED
    BY <2>2, <2>3, <2>4 DEF Book!BookInit
<1>2. AccessInv /\ [Next]_vars => [Book!BookNext]_<<PairedWith, HeldRoles>>
  <2> SUFFICES ASSUME AccessInv, [Next]_vars
               PROVE  Book!BookNext \/ UNCHANGED <<PairedWith, HeldRoles>>
    OBVIOUS
  <2>1. TypeOK
    BY DEF AccessInv
  <2>2. CASE UNCHANGED <<device, lease>>
    <3>1. UNCHANGED PairedWith
      BY <2>2, PairedStays DEF IsDevice
    <3>2. UNCHANGED HeldRoles
      BY <2>2, HeldStays DEF Holds
    <3> QED
      BY <3>1, <3>2
  <2>3. ASSUME NEW d \in Device, NEW r \in Role, ReleaseRole(d, r)
        PROVE  Book!BookNext \/ UNCHANGED <<PairedWith, HeldRoles>>
    <3>1. device[d].session \in Session
      BY <2>1, <2>3 DEF ReleaseRole, Authenticated, IsDevice, TypeOK, DeviceRow
    <3> QED
      BY <2>1, <2>3, <3>1, RoleLeaves DEF ReleaseRole
  <2>4. ASSUME NEW s \in Session, NEW r \in Role, ClearRole(s, r)
        PROVE  Book!BookNext \/ UNCHANGED <<PairedWith, HeldRoles>>
    BY <2>1, <2>4, RoleLeaves DEF ClearRole
  <2>5. ASSUME NEW d \in Device, RevokeDevice(d) \/ Unpair(d)
        PROVE  Book!BookNext \/ UNCHANGED <<PairedWith, HeldRoles>>
    <3>1. IsDevice(d) /\ Revoke(d)
      BY <2>5 DEF RevokeDevice, Unpair, Authenticated
    <3> QED
      BY <3>1, RevokedLeaves
  <2>6. CASE UNCHANGED vars
    BY <2>2, <2>6 DEF vars
  <2> QED
    BY <2>1, <2>2, <2>3, <2>4, <2>5, <2>6, PairEnters, AcquireEnters
    DEF Next, StartSession, StopSession, CreatePairing, PairInsertFails,
        PairRefused, CloseHandle, SetDB, Restart, Tick, rows
<1>3. AccessInv => TypeOK
  BY DEF AccessInv
<1> QED
  BY <1>1, <1>2, AccessSafety, PTL DEF Spec, RolesChangeHands, Book!BookSpec
=============================================================================
