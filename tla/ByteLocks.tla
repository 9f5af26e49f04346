----------------------------- MODULE ByteLocks -----------------------------
(***************************************************************************)
(* What record locks promise: every byte of a file is locked by each       *)
(* holder not at all, to read or to write; to write by one holder alone.   *)
(***************************************************************************)
EXTENDS Naturals

CONSTANTS Files, Holders, Bytes

VARIABLE mode    \* mode[f][h][b]: what h has of byte b of f

Modes == {"none", "read", "write"}

TypeOK == mode \in [Files -> [Holders -> [Bytes -> Modes]]]

Nothing == [b \in Bytes |-> "none"]

Init == mode = [f \in Files |-> [h \in Holders |-> Nothing]]

Compatible(m, n) == m = "none" \/ n = "none" \/ (m = "read" /\ n = "read")

\* What becomes of a table: each holder keeps all it has of a file, or (a close, an
\* end) loses it.
Left(table) ==
  /\ TypeOK'
  /\ \A f \in Files : \A h \in Holders : mode'[f][h] \in {table[f][h], Nothing}

Release == Left(mode)

\* h has all of a range as it asks, and the rest as before.
Lock(f, h, range, m) ==
  /\ \A g \in Holders \ {h} : \A b \in range : Compatible(m, mode[f][g][b])
  /\ Left([mode EXCEPT ![f][h] = [b \in Bytes |-> IF b \in range THEN m ELSE @[b]]])

Range(from, to) == {b \in Bytes : from <= b /\ b < to}

Next ==
  \/ Release
  \/ \E f \in Files, h \in Holders, m \in Modes, from \in Bytes, to \in {b + 1 : b \in Bytes} :
        Lock(f, h, Range(from, to), m)

Spec == Init /\ [][Next]_mode
=============================================================================
