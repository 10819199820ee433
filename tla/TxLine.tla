------------------------------- MODULE TxLine -------------------------------
(***************************************************************************)
(* What the SANA-II transmit path promises the stack above it: the writes  *)
(* it takes on form one line, the device is given them in that order and   *)
(* in no other, and a packet goes back to its owner once, after the last   *)
(* of its writes has left the line.                                        *)
(***************************************************************************)
EXTENDS Naturals, Sequences, SequencesExt

CONSTANTS Packets,      \* the packets NetX Duo hands over, 1 upwards
          MaxWrites     \* the most writes one packet is cut into

VARIABLES line,         \* the writes taken on and not yet with the device
          wire,         \* the packet of the write last given to the device
          released      \* how often each packet has gone back

vars == <<line, wire, released>>

(* n writes of packet p join the end of the line. *)
Take(p, n) ==
    /\ released[p] = 0
    /\ line' = line \o [i \in 1..n |-> p]
    /\ UNCHANGED <<wire, released>>

(* The device gets the write at the head of the line. *)
Post ==
    /\ line # <<>>
    /\ wire' = Head(line)
    /\ line' = Tail(line)
    /\ UNCHANGED released

(* A write is given up: the link went down, or the frame cannot be built. *)
GiveUp(i) ==
    /\ line' = RemoveAt(line, i)
    /\ UNCHANGED <<wire, released>>

(* The packet goes back: no write of it is in the line any more. *)
Release(p) ==
    /\ released[p] = 0
    /\ p \notin ToSet(line)
    /\ released' = [released EXCEPT ![p] = 1]
    /\ UNCHANGED <<line, wire>>

Init ==
    /\ line = <<>>
    /\ wire = 0
    /\ released = [p \in Packets |-> 0]

Next ==
    \/ \E p \in Packets, n \in 1..MaxWrites : Take(p, n)
    \/ Post
    \/ \E i \in 1..Len(line) : GiveUp(i)
    \/ \E p \in Packets : Release(p)

Spec == Init /\ [][Next]_vars
=============================================================================
