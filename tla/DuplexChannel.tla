----------------------------- MODULE DuplexChannel -----------------------------
(***************************************************************************)
(* What a tunnelled connection promises its two ends: in each direction    *)
(* the bytes come out once and in the order they went in, and unless the   *)
(* connection was broken its end is seen where the writer ended it, after  *)
(* the last byte.                                                          *)
(***************************************************************************)
EXTENDS Naturals, Sequences

CONSTANT Dirs   \* "up" from the client to the server, "down" back

VARIABLES
  sent,     \* sent[d]: number of bytes written; byte n is the number n
  rcvd,     \* rcvd[d]: the bytes read at the other end
  fin,      \* fin[d]: the writer has ended the stream
  ended,    \* ended[d]: the reader has seen its end
  broken    \* an end, or something between them, gave up the connection

vars == <<sent, rcvd, fin, ended, broken>>

Init ==
  /\ sent = [d \in Dirs |-> 0]
  /\ rcvd = [d \in Dirs |-> <<>>]
  /\ fin = [d \in Dirs |-> FALSE]
  /\ ended = [d \in Dirs |-> FALSE]
  /\ broken = FALSE

Send(d) ==
  /\ ~fin[d]
  /\ sent' = [sent EXCEPT ![d] = @ + 1]
  /\ UNCHANGED <<rcvd, fin, ended, broken>>

Deliver(d) ==
  /\ ~ended[d]
  /\ Len(rcvd[d]) < sent[d]
  /\ rcvd' = [rcvd EXCEPT ![d] = Append(@, Len(@) + 1)]
  /\ UNCHANGED <<sent, fin, ended, broken>>

Finish(d) ==
  /\ fin' = [fin EXCEPT ![d] = TRUE]
  /\ UNCHANGED <<sent, rcvd, ended, broken>>

End(d) ==
  /\ broken \/ (fin[d] /\ Len(rcvd[d]) = sent[d])
  /\ ended' = [ended EXCEPT ![d] = TRUE]
  /\ UNCHANGED <<sent, rcvd, fin, broken>>

\* Whoever gives up also ends what it was writing.
Break ==
  /\ broken' = TRUE
  /\ \E quit \in SUBSET Dirs : fin' = [d \in Dirs |-> fin[d] \/ d \in quit]
  /\ UNCHANGED <<sent, rcvd, ended>>

Next == Break \/ \E d \in Dirs : Send(d) \/ Deliver(d) \/ Finish(d) \/ End(d)

Spec == Init /\ [][Next]_vars
=============================================================================
