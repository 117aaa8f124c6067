-------------------------- MODULE MotionAuthority --------------------------
(***************************************************************************)
(* What the pendant link promises about software motion, whatever frames   *)
(* it takes to get there (docs/PROTOCOL.md, "Receiver-local continuous-    *)
(* motion lease").  The companion holds authority to move for at most one  *)
(* START at a time.  Authority is granted only by a START newer than every *)
(* START granted before, is extended only while it is held and unexpired,  *)
(* and is revoked by a stop, by expiry or by the loss of the session.      *)
(***************************************************************************)
EXTENDS Integers

CONSTANTS
    Lease,              \* MOTION_LEASE_MS, in ticks, positive
    Starts              \* the STARTs an operator may issue, numbered from 1

VARIABLES holder,       \* the START that holds authority, 0 when none does
          newest,       \* the newest START ever granted, 0 before the first
          left          \* ticks left before authority expires

vars == <<holder, newest, left>>

TypeOK ==
    /\ holder \in Starts \cup {0}
    /\ newest \in Starts \cup {0}
    /\ left \in 0..Lease

Init == holder = 0 /\ newest = 0 /\ left = 0

Grant(k) ==
    /\ k > newest
    /\ holder' = k
    /\ newest' = k
    /\ left' = Lease

Extend ==
    /\ holder # 0
    /\ left > 0
    /\ left' = Lease
    /\ UNCHANGED <<holder, newest>>

Elapse ==
    /\ left > 0
    /\ left' = left - 1
    /\ UNCHANGED <<holder, newest>>

Revoke ==
    /\ holder' = 0
    /\ left' = 0
    /\ UNCHANGED newest

\* An expired authority has to be taken away.
Expire ==
    /\ holder # 0
    /\ left = 0
    /\ Revoke

Next ==
    \/ \E k \in Starts : Grant(k)
    \/ Extend
    \/ Elapse
    \/ Revoke

Spec == Init /\ [][Next]_vars

FairSpec == Spec /\ WF_vars(Expire)
============================================================================
