------------------------------ MODULE Tenancy -------------------------------
(***************************************************************************)
(* What the pool of devices promises the apps it runs, whatever its        *)
(* threads, turns and records: each user of a device has at most one       *)
(* tenant, an instance has one app at most, nobody but the pool's own      *)
(* decision to bring an instance down -- or its device's end -- stops an   *)
(* app, and one is brought up again only when its last app is out.         *)
(***************************************************************************)
EXTENDS Naturals

CONSTANTS Devices, Users, Instances, Nobody

VARIABLES
    tenant,   \* the instance whose app runs as each user of each device
    alive,    \* the devices that are there
    up,       \* the instances that are to run: starting or running
    crashes   \* how many apps are to end by themselves yet

vars == <<tenant, alive, up, crashes>>

Tenancies(i) == {p \in Devices \X Users : tenant[p[1]][p[2]] = i}

Init ==
    /\ tenant = [d \in Devices |-> [u \in Users |-> Nobody]]
    /\ alive \in SUBSET Devices
    /\ up = {}
    /\ crashes \in Nat

\* Brought up: its last app is out.
Raise(i) ==
    /\ i \notin up /\ Tenancies(i) = {}
    /\ up' = up \cup {i}
    /\ UNCHANGED <<tenant, alive, crashes>>

Lower(S) ==
    /\ S # {} /\ S \subseteq up
    /\ up' = up \ S
    /\ UNCHANGED <<tenant, alive, crashes>>

\* Its app starts as a user that is free.
MoveIn(i, d, u) ==
    /\ i \in up /\ Tenancies(i) = {} /\ tenant[d][u] = Nobody
    /\ tenant' = [tenant EXCEPT ![d][u] = i]
    /\ UNCHANGED <<alive, up, crashes>>

\* Stopped, when it is not to run.
MoveOut(d, u) ==
    /\ tenant[d][u] \notin up \cup {Nobody}
    /\ tenant' = [tenant EXCEPT ![d][u] = Nobody]
    /\ UNCHANGED <<alive, up, crashes>>

Crash(d, u) ==
    /\ crashes > 0 /\ tenant[d][u] # Nobody
    /\ tenant' = [tenant EXCEPT ![d][u] = Nobody]
    /\ crashes' = crashes - 1
    /\ UNCHANGED <<alive, up>>

DeviceComes(d) ==
    /\ d \notin alive
    /\ alive' = alive \cup {d}
    /\ UNCHANGED <<tenant, up, crashes>>

\* Everybody on them is out.
DevicesEnd(D) ==
    /\ D \subseteq alive /\ alive' = alive \ D
    /\ tenant' = [d \in Devices |-> IF d \in D THEN [u \in Users |-> Nobody] ELSE tenant[d]]
    /\ UNCHANGED <<up, crashes>>

Next ==
    \/ \E i \in Instances : Raise(i)
    \/ \E S \in SUBSET Instances : Lower(S)
    \/ \E d \in Devices, u \in Users :
          \/ MoveOut(d, u) \/ Crash(d, u)
          \/ \E i \in Instances : MoveIn(i, d, u)
    \/ \E d \in Devices : DeviceComes(d)
    \/ \E D \in SUBSET Devices : DevicesEnd(D)

Spec == Init /\ [][Next]_vars
=============================================================================
