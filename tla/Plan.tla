-------------------------------- MODULE Plan --------------------------------
(***************************************************************************)
(* The pool's pure decisions (crates/omni-pool/src/plan.rs): where a       *)
(* launch goes, which idle devices are closed, how many are warmed.  Each  *)
(* is an operator over a set of device views with distinct ids.            *)
(*                                                                         *)
(* A DeviceView is a record                                                *)
(*   [id, ready, installed : Packages -> build or none, running : SUBSET   *)
(*    Packages, closing]                                                   *)
(* and an IdleView a record [id, ready, running : Nat, idle] where idle is *)
(* the length of its idleness, or NotIdle while it runs an app.            *)
(***************************************************************************)
EXTENDS Integers, FiniteSets

CONSTANTS NoBuild,   \* a package a device has no build of
          NotIdle    \* IdleView::idle_for = None

-----------------------------------------------------------------------------
\* place: ready devices before booting ones, each in pool order.
Before(d, e) == \/ d.ready /\ ~e.ready
                \/ d.ready = e.ready /\ d.id < e.id

FirstOf(views) == CHOOSE d \in views : \A e \in views \ {d} : Before(d, e)

Has(v, package, sha)     == v.installed[package] = sha
HasOther(v, package, sha) == /\ v.installed[package] \notin {sha, NoBuild}
                             /\ package \notin v.running
HasNone(v, package)      == v.installed[package] = NoBuild

\* The device a launch of this build goes to, or "boot" for a new one, with
\* the rule that chose it.
Place(devices, package, sha) ==
    LET open    == {d \in devices : ~d.closing}
        same    == {d \in open : Has(d, package, sha)}
        other   == {d \in open : HasOther(d, package, sha)}
        without == {d \in open : HasNone(d, package)}
        At(rule, views) == [rule |-> rule, id |-> FirstOf(views).id]
    IN  IF same # {} THEN At("run", same)
        ELSE IF other # {} THEN At("replace", other)
        ELSE IF without # {} THEN At("install", without)
        ELSE [rule |-> "boot", id |-> 0]

-----------------------------------------------------------------------------
\* to_close: the overdue devices, longest idle first, while keep_warm stay.
Overdue(d, idle_minutes) ==
    d.ready /\ d.running = 0 /\ d.idle # NotIdle /\ d.idle >= idle_minutes

Monus(a, b) == IF a > b THEN a - b ELSE 0        \* saturating_sub

Sooner(d, e) == \/ d.idle > e.idle
                \/ d.idle = e.idle /\ d.id < e.id

ToClose(devices, idle_minutes, keep_warm) ==
    LET spare   == Monus(Cardinality(devices), keep_warm)
        overdue == {d \in devices : Overdue(d, idle_minutes)}
    IN  IF idle_minutes = 0 THEN {}
        ELSE {d.id : d \in {o \in overdue :
                 Cardinality({e \in overdue : Sooner(e, o)}) < spare}}

\* to_warm: how many to boot so that keep_warm are up or coming.
ToWarm(devices, keep_warm, max_devices) ==
    LET up   == Cardinality(devices)
        want == Monus(keep_warm, up)
        room == Monus(max_devices, up)
    IN  IF max_devices = 0 \/ want <= room THEN want ELSE room
=============================================================================
