--------------------------- MODULE OrderedStream ----------------------------
(* What one direction of a conflux set promises the streams above it: the    *)
(* multiplexed relay cells one end sends are handed to the streams of the    *)
(* other end in the order they were sent, none skipped and none twice,       *)
(* however many legs carried them.  Nothing is promised about when: a set    *)
(* may be torn down with cells still on their way.                           *)
EXTENDS Naturals, Sequences

VARIABLES
  sent,       \* how many cells the sender has sent
  delivered   \* the cells handed to the receiver's streams, by number

Init == sent = 0 /\ delivered = << >>

Send == sent' = sent + 1 /\ UNCHANGED delivered

\* One arriving cell may release others that were waiting for it.
Deliver ==
  /\ \E last \in (Len(delivered) + 1)..sent : delivered' = [i \in 1..last |-> i]
  /\ UNCHANGED sent

Next == Send \/ Deliver

Spec == Init /\ [][Next]_<<sent, delivered>>
=============================================================================
