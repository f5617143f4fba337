----------------------------- MODULE PacketQueue -----------------------------
(***************************************************************************)
(* What the packet buffer of the player promises of each stream: it is one *)
(* queue, whatever lists the packets are moved through and by whichever    *)
(* thread.  Packets are played from its head, in the order in which they   *)
(* were received, and none is lost but where one end of the queue is cut   *)
(* off.                                                                    *)
(***************************************************************************)
EXTENDS Naturals, Sequences

CONSTANTS Stream, Packet

VARIABLES
  queue,    \* the packets of each stream that wait to be played
  received, \* the number of the last packet received
  played    \* the number of the last packet played

vars == <<queue, received, played>>

Init ==
  /\ queue = [s \in Stream |-> <<>>]
  /\ received = [s \in Stream |-> 0] /\ played = [s \in Stream |-> 0]

Receive(s, p) ==
  /\ p.n = received[s] + 1
  /\ received' = [received EXCEPT ![s] = p.n]
  /\ queue' = [queue EXCEPT ![s] = Append(@, p)]
  /\ UNCHANGED played

Play(s) ==
  /\ queue[s] # <<>>
  /\ played' = [played EXCEPT ![s] = Head(queue[s]).n]
  /\ queue' = [queue EXCEPT ![s] = Tail(@)]
  /\ UNCHANGED received

\* The last packets, or the first, are given up.
Cut(s, k) ==
  /\ \/ queue' = [queue EXCEPT ![s] = SubSeq(@, 1, k)]
     \/ queue' = [queue EXCEPT ![s] = SubSeq(@, k + 1, Len(@))]
  /\ UNCHANGED <<received, played>>

Next ==
  \E s \in Stream :
    \/ \E p \in Packet : Receive(s, p)
    \/ Play(s)
    \/ \E k \in 0..Len(queue[s]) : Cut(s, k)

Spec == Init /\ [][Next]_vars

=============================================================================
