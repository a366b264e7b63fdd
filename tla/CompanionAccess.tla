--------------------------- MODULE CompanionAccess ---------------------------
(***************************************************************************)
(* Who may write to the race from a phone: the sessions, pairing grants,   *)
(* paired devices and role leases of services/companion_service.go.        *)
(*                                                                         *)
(* Sessions, devices and leases are rows of the SQLite file that is open;  *)
(* the pairing grants live only in the memory of the laptop process.       *)
(* Every method of CompanionService runs under one mutex, so each call is  *)
(* one action.  The clock is no party to the mutex: a call that checks an  *)
(* expiry reads it again for the date it writes, and time may have passed  *)
(* in between.  A call the code refuses without changing anything is not   *)
(* an action: it is the absence of one.                                    *)
(***************************************************************************)
EXTENDS Integers, FiniteSets

CONSTANTS
  File,          (* database files the operator can open                   *)
  Race,          (* rows of the races tables of all files                  *)
  Event,         (* rows of the events tables of all files                 *)
  RaceFile,      (* the file a race is stored in                           *)
  EventRace,     (* the race an event belongs to                           *)
  DuplicateBibRace, (* races whose participants share a non-empty bib      *)
  CommonChute,   (* event id 0: one chute for all events of the race       *)
  Session, Device, Grant, (* identifiers the random generators may draw    *)
  Code,          (* the numeric pairing codes                              *)
  SessionTTL,    (* 24 hours                                               *)
  GrantTTL,      (* 5 minutes                                              *)
  MaxClock,      (* bound on the clock                                     *)
  Nil,           (* no database: CompanionService.db = nil                 *)
  Closed,        (* a handle that was closed and not yet replaced          *)
  None

ASSUME FilesAssumption ==
  /\ RaceFile \in [Race -> File]
  /\ EventRace \in [Event -> Race]
  /\ DuplicateBibRace \subseteq Race
  /\ CommonChute \notin Event
  /\ Nil \notin File /\ Closed \notin File /\ Nil # Closed

ASSUME TimeAssumption ==
  SessionTTL \in Nat \ {0} /\ GrantTTL \in Nat \ {0} /\ MaxClock \in Nat

(* The link token of a grant is as unique as the grant's identifier: the   *)
(* model names both by the same value.  Codes are short and may collide.   *)
ASSUME CredentialAssumption == Grant \cap Code = {}

VARIABLES
  handle,    (* the database the service works on                          *)
  clock,     (* time.Now() on the laptop                                   *)
  session,   (* companion_sessions                                         *)
  device,    (* companion_devices                                          *)
  lease,     (* companion_role_leases, by session and role                 *)
  pairings,  (* CompanionService.pairings: credential -> grant             *)
  issued     (* grant identifiers drawn so far (history)                   *)

rows == <<session, device, lease>>
vars == <<handle, clock, session, device, lease, pairings, issued>>

Role == {"start", "timer", "bib"}
Credential == Grant \cup Code
Time == Nat

-----------------------------------------------------------------------------
(* Rows *)

SessionRow == [race : Race, event : Event \cup {CommonChute},
               status : {"active", "stopped"},
               expires : Time, stopped : Time \cup {None}]

(* "grant" is history: the table does not record how a device paired.      *)
DeviceRow == [session : Session, paired : Time, revoked : BOOLEAN,
              grant : Grant]

LeaseRow == [device : Device, acquired : Time]

PairingGrant == [id : Grant, session : Session, expires : Time]

ASSUME NoneAssumption ==
  /\ None \notin SessionRow
  /\ None \notin DeviceRow
  /\ None \notin LeaseRow
  /\ None \notin PairingGrant

IsSession(s) == session[s] # None
IsDevice(d) == device[d] # None
IsPairing(c) == pairings[c] # None

FileOf(s) == RaceFile[session[s].race]

(* The session row is found in the open file.                              *)
Found(s) == IsSession(s) /\ FileOf(s) = handle

-----------------------------------------------------------------------------
(* Queries *)

(* Each definition named ...Slip is a slip in the definition after it: a   *)
(* forgotten clause, row or comparison, which the property the manifest    *)
(* pairs it with must notice.                                              *)
(* status='active' AND expires_at_unix_ms>now: the test for pairing.       *)
Joinable(s) ==
  Found(s) /\ session[s].status = "active" /\ session[s].expires > clock

AuthenticatedSlip(d) ==
  /\ IsDevice(d)
  /\ ~device[d].revoked
  /\ Found(device[d].session)
  /\ session[device[d].session].expires >= clock

AuthenticatedLateSlip(d) ==
  /\ IsDevice(d)
  /\ ~device[d].revoked
  /\ Found(device[d].session)
  /\ session[device[d].session].status = "active"

(* authenticateLocked: the token of d is accepted.  Its expiry test is not *)
(* the one above: a session still authenticates in its last millisecond.   *)
Authenticated(d) ==
  /\ IsDevice(d)
  /\ ~device[d].revoked
  /\ Found(device[d].session)
  /\ session[device[d].session].status = "active"
  /\ session[device[d].session].expires >= clock

Holds(d, s, r) == lease[s][r] # None /\ lease[s][r].device = d

WithoutGrantSlip(g) == [pairings EXCEPT ![g] = None]

(* deletePairingGrantLocked: every key of the grant goes, not only the one *)
(* that was presented.                                                     *)
WithoutGrant(g) ==
  [c \in Credential |->
     IF IsPairing(c) /\ pairings[c].id = g THEN None ELSE pairings[c]]

WithoutLeasesOf(d) ==
  [s \in Session |-> [r \in Role |->
     IF Holds(d, s, r) THEN None ELSE lease[s][r]]]

-----------------------------------------------------------------------------
Init ==
  /\ handle = Nil
  /\ clock = 0
  /\ session = [s \in Session |-> None]
  /\ device = [d \in Device |-> None]
  /\ lease = [s \in Session |-> [r \in Role |-> None]]
  /\ pairings = [c \in Credential |-> None]
  /\ issued = {}

(* time.Now() is read once more: clock is the time of the checks, clock'   *)
(* the time that is written.                                               *)
TimePasses == clock' \in clock .. MaxClock

(* The row a new session is inserted with.                                 *)
Opened(r, e, now) ==
  [race |-> r, event |-> e, status |-> "active",
   expires |-> now + SessionTTL, stopped |-> None]

EndedSlip(s) == [session[s] EXCEPT !.status = "ended", !.stopped = clock]

Ended(s) == [session[s] EXCEPT !.status = "stopped", !.stopped = clock]

SupersededSlip(s, r) ==
  IsSession(s) /\ session[s].race = r /\ session[s].status = "stopped"

(* Opening a session stops the active sessions of its race in the same     *)
(* transaction.                                                            *)
Superseded(s, r) ==
  IsSession(s) /\ session[s].race = r /\ session[s].status = "active"

StartSession(s, r, e) ==
  /\ handle = RaceFile[r]
  /\ e # CommonChute => EventRace[e] = r
  /\ e = CommonChute => r \notin DuplicateBibRace
  /\ ~IsSession(s)
  /\ TimePasses
  /\ session' = [t \in Session |-> IF t = s THEN Opened(r, e, clock')
                                   ELSE IF Superseded(t, r) THEN Ended(t)
                                   ELSE session[t]]
  /\ UNCHANGED <<handle, device, lease, pairings, issued>>

(* A session that is already stopped may be stopped again.                 *)
StopSession(s) ==
  /\ Found(s)
  /\ session' = [session EXCEPT ![s] = Ended(s)]
  /\ UNCHANGED <<handle, clock, device, lease, pairings, issued>>

CreatePairing(s, g, code) ==
  /\ Joinable(s)
  /\ g \notin issued
  /\ ~IsPairing(code)
  /\ TimePasses
  /\ LET grant == [id |-> g, session |-> s, expires |-> clock' + GrantTTL]
     IN  pairings' = [pairings EXCEPT ![g] = grant, ![code] = grant]
  /\ issued' = issued \cup {g}
  /\ UNCHANGED <<handle, session, device, lease>>

(* The grant presented is known and has not expired.                       *)
Presentable(c) == handle # Nil /\ IsPairing(c) /\ pairings[c].expires >= clock

(* Grant and session are checked, and the device is dated later: by then   *)
(* both may be over.                                                       *)
Pair(c, d) ==
  /\ Presentable(c)
  /\ Joinable(pairings[c].session)
  /\ ~IsDevice(d)
  /\ TimePasses
  /\ pairings' = WithoutGrant(pairings[c].id)
  /\ device' = [device EXCEPT ![d] =
       [session |-> pairings[c].session, paired |-> clock',
        revoked |-> FALSE, grant |-> pairings[c].id]]
  /\ UNCHANGED <<handle, session, lease, issued>>

(* The INSERT of the device fails after the grant was deleted: the file    *)
(* was closed under the call, or is busy.                                  *)
PairInsertFails(c) ==
  /\ Presentable(c)
  /\ Joinable(pairings[c].session)
  /\ pairings' = WithoutGrant(pairings[c].id)
  /\ UNCHANGED <<handle, clock, rows, issued>>

(* An expired grant, or one whose session is over or is not in the open    *)
(* file, is refused and deleted.  On a closed handle the session cannot be *)
(* looked up: the call fails and the grant stays.                          *)
PairRefused(c) ==
  /\ handle # Nil
  /\ IsPairing(c)
  /\ \/ pairings[c].expires < clock
     \/ handle \in File /\ ~Joinable(pairings[c].session)
  /\ pairings' = WithoutGrant(pairings[c].id)
  /\ UNCHANGED <<handle, clock, rows, issued>>

AcquireTwoSlip(d, r) ==
  /\ Authenticated(d)
  /\ TimePasses
  /\ LET s == device[d].session
     IN  /\ lease[s][r] = None \/ Holds(d, s, r)
         /\ lease' = [lease EXCEPT ![s][r] = [device |-> d, acquired |-> clock']]
  /\ UNCHANGED <<handle, session, device, pairings, issued>>

AcquireHeldSlip(d, r) ==
  /\ Authenticated(d)
  /\ TimePasses
  /\ LET s == device[d].session
     IN  /\ \A other \in Role \ {r} : ~Holds(d, s, other)
         /\ lease' = [lease EXCEPT ![s][r] = [device |-> d, acquired |-> clock']]
  /\ UNCHANGED <<handle, session, device, pairings, issued>>

(* The lease is dated after the phone was authenticated.                   *)
AcquireRole(d, r) ==
  /\ Authenticated(d)
  /\ TimePasses
  /\ LET s == device[d].session
     IN  /\ \A other \in Role \ {r} : ~Holds(d, s, other)
         /\ lease[s][r] = None \/ Holds(d, s, r)
         /\ lease' = [lease EXCEPT ![s][r] = [device |-> d, acquired |-> clock']]
  /\ UNCHANGED <<handle, session, device, pairings, issued>>

ReleaseRole(d, r) ==
  /\ Authenticated(d)
  /\ Holds(d, device[d].session, r)
  /\ lease' = [lease EXCEPT ![device[d].session][r] = None]
  /\ UNCHANGED <<handle, clock, session, device, pairings, issued>>

(* The laptop force-releases a role, whoever holds it by then.             *)
ClearRole(s, r) ==
  /\ Found(s)
  /\ lease[s][r] # None
  /\ lease' = [lease EXCEPT ![s][r] = None]
  /\ UNCHANGED <<handle, clock, session, device, pairings, issued>>

Revoke(d) ==
  /\ lease' = WithoutLeasesOf(d)
  /\ device' = [device EXCEPT ![d].revoked = TRUE]
  /\ UNCHANGED <<handle, clock, session, pairings, issued>>

RevokeDevice(d) == IsDevice(d) /\ Found(device[d].session) /\ Revoke(d)

Unpair(d) == Authenticated(d) /\ Revoke(d)

(* DatabaseService.Close and connectTo close the old handle before the     *)
(* service is told: until SetDB it works on a closed handle.               *)
CloseHandle ==
  /\ handle \in File
  /\ handle' = Closed
  /\ UNCHANGED <<clock, rows, pairings, issued>>

(* The grants in memory survive a change of file.                          *)
SetDB(h) ==
  /\ handle \notin File
  /\ h # handle
  /\ handle' = h
  /\ UNCHANGED <<clock, rows, pairings, issued>>

(* The laptop process ends and starts again.                               *)
Restart ==
  /\ handle' = Nil
  /\ pairings' = [c \in Credential |-> None]
  /\ UNCHANGED <<clock, rows, issued>>

Tick ==
  /\ clock < MaxClock
  /\ clock' = clock + 1
  /\ UNCHANGED <<handle, rows, pairings, issued>>

Next ==
  \/ \E s \in Session, r \in Race, e \in Event \cup {CommonChute} :
       StartSession(s, r, e)
  \/ \E s \in Session : StopSession(s)
  \/ \E s \in Session, g \in Grant, code \in Code : CreatePairing(s, g, code)
  \/ \E c \in Credential, d \in Device : Pair(c, d)
  \/ \E c \in Credential : PairInsertFails(c)
  \/ \E c \in Credential : PairRefused(c)
  \/ \E d \in Device, r \in Role : AcquireRole(d, r)
  \/ \E d \in Device, r \in Role : ReleaseRole(d, r)
  \/ \E s \in Session, r \in Role : ClearRole(s, r)
  \/ \E d \in Device : RevokeDevice(d)
  \/ \E d \in Device : Unpair(d)
  \/ CloseHandle
  \/ \E h \in File \cup {Nil} : SetDB(h)
  \/ Restart
  \/ Tick

Spec == Init /\ [][Next]_vars

-----------------------------------------------------------------------------
(* Properties *)

(* Every table and map holds rows of its own shape.                        *)
TypeOK ==
  /\ handle \in File \cup {Nil, Closed}
  /\ clock \in Time
  /\ session \in [Session -> SessionRow \cup {None}]
  /\ device \in [Device -> DeviceRow \cup {None}]
  /\ lease \in [Session -> [Role -> LeaseRow \cup {None}]]
  /\ pairings \in [Credential -> PairingGrant \cup {None}]
  /\ issued \subseteq Grant

(* A race never has two active sessions, whatever files are opened and     *)
(* whenever the process restarts: StartSession stops the older one in the  *)
(* transaction that inserts the newer one.                                 *)
OneActiveSessionPerRace ==
  \A s, t \in Session :
    /\ IsSession(s) /\ session[s].status = "active"
    /\ IsSession(t) /\ session[t].status = "active"
    /\ session[s].race = session[t].race
    => s = t

(* A phone never has two roles at once, even after its role was forced     *)
(* away, re-acquired or taken over ("one device may hold only one role").  *)
OneRolePerDevice ==
  \A d \in Device, s, t \in Session, r, q \in Role :
    Holds(d, s, r) /\ Holds(d, t, q) => s = t /\ r = q

(* Whoever holds a role is a device paired with that very session and not  *)
(* revoked: no lease outlives the right to use it.                         *)
LeaseHolderIsPaired ==
  \A s \in Session, r \in Role :
    lease[s][r] # None =>
      LET d == lease[s][r].device
      IN  IsDevice(d) /\ device[d].session = s /\ ~device[d].revoked

(* The link and the code of a grant are one grant: at most one device ever *)
(* pairs with it, and once one has, neither credential is left to try.     *)
GrantPairsOnce ==
  \A d \in Device : IsDevice(d) =>
    /\ \A o \in Device :
         IsDevice(o) /\ device[o].grant = device[d].grant => o = d
    /\ \A c \in Credential :
         IsPairing(c) => pairings[c].id # device[d].grant

(* A grant identifier that is in use, or was, has been drawn.              *)
GrantsAreIssued ==
  /\ \A c \in Credential : IsPairing(c) => pairings[c].id \in issued
  /\ \A d \in Device : IsDevice(d) => device[d].grant \in issued

(* Checks and dates are read from the clock apart, so a phone or a lease   *)
(* may be dated after its session expired; what still holds is that none   *)
(* is dated after its session was stopped, and that a phone dated after    *)
(* the expiry never gets a role: every lease is its holder's who paired    *)
(* before, and no later than the session expired.                          *)
GrantedWithinSession ==
  /\ \A d \in Device : IsDevice(d) =>
       LET s == device[d].session
       IN  /\ IsSession(s)
           /\ session[s].stopped # None => device[d].paired <= session[s].stopped
  /\ \A s \in Session, r \in Role : lease[s][r] # None =>
       /\ device[lease[s][r].device].paired <= lease[s][r].acquired
       /\ device[lease[s][r].device].paired <= session[s].expires
       /\ session[s].stopped # None => lease[s][r].acquired <= session[s].stopped

(* No row is dated in the future, and only stopped sessions have an end.    *)
RowsArePast ==
  /\ \A d \in Device : IsDevice(d) => device[d].paired <= clock
  /\ \A s \in Session, r \in Role :
       lease[s][r] # None => lease[s][r].acquired <= clock
  /\ \A s \in Session : IsSession(s) /\ session[s].status = "active"
                          => session[s].stopped = None

(* The inductive invariant: the properties above need one another, the     *)
(* freshness of grant identifiers and the dates of the rows.               *)
AccessInv ==
  /\ TypeOK
  /\ OneActiveSessionPerRace
  /\ OneRolePerDevice
  /\ LeaseHolderIsPaired
  /\ GrantsAreIssued
  /\ GrantPairsOnce
  /\ RowsArePast
  /\ GrantedWithinSession

(* A role passes from one phone to another only through a state in which   *)
(* nobody holds it: the upsert of AcquireRole never takes a role over.     *)
NoLeaseTakeover ==
  [][\A s \in Session, r \in Role :
       lease[s][r] # None /\ lease'[s][r] # None
         => lease'[s][r].device = lease[s][r].device]_vars

(* services/companion_service.go: whatever is paired, acquired, released,  *)
(* cleared, revoked, stopped, expired or in another file, roles change     *)
(* hands as the record of a race relies on (RoleBook): each call is one of *)
(* its steps, or none.                                                     *)
Paired == {d \in Device : IsDevice(d)}
PairedWith == [d \in Paired |-> device[d].session]
HeldRoles == {x \in Session \X Role \X Device : Holds(x[3], x[1], x[2])}

Book == INSTANCE RoleBook WITH paired <- PairedWith, held <- HeldRoles
RolesChangeHands == Book!BookSpec

(* While its file is not the open one, and once it is stopped or expired,  *)
(* a session gains no device and no lease, and a stopped session stays so. *)
Over(s) ==
  IsSession(s) /\ \/ session[s].status = "stopped"
                  \/ session[s].expires < clock
                  \/ FileOf(s) # handle

DeadSessionsGainNothing ==
  [][\A s \in Session : Over(s) =>
       /\ session[s].status = "stopped" => session'[s].status = "stopped"
       /\ \A d \in Device :
            device'[d] # None /\ device'[d].session = s => IsDevice(d)
       /\ \A r \in Role : lease'[s][r] \in {lease[s][r], None}]_vars
=============================================================================
