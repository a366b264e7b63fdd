------------------------------- MODULE RoleBook -------------------------------
(***************************************************************************)
(* What the record of a race relies on when it trusts the holder of a      *)
(* role: a device is paired with one session for good, a role has one      *)
(* holder in a session, a device one role in all, and a role is free       *)
(* before somebody else takes it.                                          *)
(***************************************************************************)
CONSTANTS Device, Session, Role

VARIABLES
  paired, (* the session of each device that is paired                     *)
  held    (* who holds which role: triples of session, role and device     *)

BookInit ==
  /\ DOMAIN paired \subseteq Device /\ paired \in [DOMAIN paired -> Session]
  /\ held = {}

Pair(d, s) ==
  /\ d \in Device /\ s \in Session
  /\ paired' = [x \in DOMAIN paired \cup {d} |-> IF x = d THEN s ELSE paired[x]]
  /\ UNCHANGED held

Acquire(x) ==
  /\ x \in Session \X Role \X Device
  /\ x[3] \in DOMAIN paired /\ x[1] = paired[x[3]]
  /\ \A y \in held : y[3] # x[3] /\ ~(y[1] = x[1] /\ y[2] = x[2])
  /\ held' = held \cup {x}
  /\ UNCHANGED paired

(* Released, cleared on the laptop, or left by a device that is revoked.   *)
Drop(x) == held' = held \ {x} /\ UNCHANGED paired

BookNext ==
  \/ \E d \in DOMAIN paired' \ DOMAIN paired : Pair(d, paired'[d])
  \/ \E x \in held' \ held : Acquire(x)
  \/ \E x \in held \ held' : Drop(x)

BookSpec == BookInit /\ [][BookNext]_<<paired, held>>
=============================================================================
