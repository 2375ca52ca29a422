-------------------------- MODULE TransportStream --------------------------
(***************************************************************************)
(* What the Wi-Fi display sink promises to the parser of the transport     *)
(* stream: a discontinuity comes before everything else, then the payloads *)
(* of the RTP packets, each whole, none twice and in the order they were   *)
(* sent.  Packets may be missing.                                          *)
(***************************************************************************)
EXTENDS Naturals

CONSTANTS
    NumPackets,      \* packets the source sends
    Chunks           \* transport stream packets in the payload of each

VARIABLES
    synchronised,    \* the parser has been told of the new time
    parsed           \* the last packet it has seen something of, and how much

vars == <<synchronised, parsed>>

Init == synchronised = FALSE /\ parsed = [packet |-> 0, chunk |-> Chunks]

Synchronise == ~synchronised /\ synchronised' = TRUE /\ UNCHANGED parsed

Continue ==
    /\ synchronised /\ parsed.chunk < Chunks
    /\ parsed' = [parsed EXCEPT !.chunk = @ + 1]
    /\ UNCHANGED synchronised

Begin ==
    /\ synchronised /\ parsed.chunk = Chunks
    /\ \E p \in parsed.packet + 1 .. NumPackets : parsed' = [packet |-> p, chunk |-> 1]
    /\ UNCHANGED synchronised

Next == Synchronise \/ Continue \/ Begin
Spec == Init /\ [][Next]_vars
=============================================================================
