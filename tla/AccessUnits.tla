---------------------------- MODULE AccessUnits ----------------------------
(***************************************************************************)
(* What a source of access units promises to the decoders: from each       *)
(* position the player has sought, the units of a stream in order, none    *)
(* twice and none left out, and nothing of an earlier position.  Only the  *)
(* selection of another track changes that: units may be repeated on the   *)
(* stream it is for, whose new track starts at the last unit of the old    *)
(* one, and left out on the other stream, whose queue is discarded.        *)
(***************************************************************************)
EXTENDS Naturals

CONSTANTS
    NumUnits,       \* units from a position to the end of a stream
    MaxPositions    \* seeks at most

VARIABLES
    position,       \* the number of seeks so far
    unit            \* the last unit each decoder has got

vars == <<position, unit>>

Streams == {"audio", "video"}

\* A unit of the version-th track of its stream.
Unit == [pos : 0 .. MaxPositions, version : Nat, time : 0 .. NumUnits]

Init ==
    /\ position = 0
    /\ unit = [s \in Streams |-> [pos |-> 0, version |-> 0, time |-> 0]]

Seek == position < MaxPositions /\ position' = position + 1 /\ UNCHANGED unit

Continues(u, v) == v = [u EXCEPT !.time = @ + 1]

Begins(s, u, v) ==
    /\ u.pos < position /\ v.pos = position
    /\ v.time = 1 \/ (s = "video" /\ v.version > u.version)

Switches(s, u, v) ==
    /\ v.pos = u.pos /\ v.version > u.version
    /\ IF s = "audio" THEN v.time <= u.time + 1 ELSE v.time > u.time

Deliver(s) ==
    /\ unit'[s] \in Unit /\ unit'[s].pos = position
    /\ \/ Continues(unit[s], unit'[s])
       \/ Begins(s, unit[s], unit'[s])
       \/ Switches(s, unit[s], unit'[s])
    /\ unit' = [unit EXCEPT ![s] = unit'[s]]
    /\ UNCHANGED position

Next == Seek \/ \E s \in Streams : Deliver(s)
Spec == Init /\ [][Next]_vars
=============================================================================
