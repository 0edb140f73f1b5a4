--------------------------------- MODULE Tunnel ---------------------------------
(***************************************************************************)
(* An established connection from the target to a server, through every    *)
(* process that copies its bytes.                                          *)
(*                                                                         *)
(*   link 0      link 1       link 2       link 3                          *)
(*   client -- stage 1 -- stage 2 -- stage 3 -- server                     *)
(*             "pump"     "tokio"    "tokio"                               *)
(*                                                                         *)
(* On Linux stage 1 is the bridge inside the namespace (linux_bridge.rs,   *)
(* two threads), stage 2 the host bridge (proxy_bridge.rs) and stage 3 the *)
(* proxy (connect.rs), both tokio's copy_bidirectional; on macOS there is  *)
(* the proxy alone.  A link is a pair of connected sockets with bounded    *)
(* buffers; direction "up" goes to the server, "down" comes back.          *)
(***************************************************************************)
EXTENDS Naturals, Sequences, FiniteSets

CONSTANTS
  Setups,     \* what is tried: a chain of stages, which ends read (the others
              \* never do), and how many bytes are written each way (bound)
  LinkCap,    \* bytes a link holds in one direction
  HandCap     \* bytes a stage holds in one direction

Dirs == {"up", "down"}
Ends == {"client", "server"}

ASSUME TunnelAssumption ==
  /\ \A s \in Setups : /\ s.chain \in Seq({"pump", "tokio"}) \ {<<>>}
                       /\ s.reads \subseteq Ends
                       /\ s.max \in [Dirs -> Nat]
  /\ LinkCap \in Nat \ {0}
  /\ HandCap \in Nat \ {0}

VARIABLES
  setup,   \* one of Setups
  buf,     \* buf[d][l]: bytes in link l
  shut,    \* shut[l]: the directions whose writer has shut down or closed
  gone,    \* gone[l]: the directions whose reader has closed
  reset,   \* links on which a reset was sent
  hand,    \* hand[d][i]: read by stage i, not yet written
  copy,    \* copy[d][i]: "copying" or "done"
  stage,   \* stage[i]: "starting", "open" or "closed"
  sent, rcvd, ended,   \* as in DuplexChannel
  closed   \* ends that have closed their socket

links == <<buf, shut, gone, reset>>
stages == <<hand, copy, stage>>
ends == <<sent, rcvd, ended, closed>>
vars == <<setup, links, stages, ends>>

kinds == setup.chain
reads == setup.reads
Stages == DOMAIN kinds
Links == 0..Len(kinds)

Other(d) == IF d = "up" THEN "down" ELSE "up"

\* The link a stage reads direction d from, and the one it writes it to.
From(d, i) == IF d = "up" THEN i - 1 ELSE i
To(d, i) == IF d = "up" THEN i ELSE i - 1

\* The first and the last link of a direction.
First(d) == IF d = "up" THEN 0 ELSE Len(kinds)
Last(d) == First(Other(d))

\* The direction an end writes.
Out(e) == IF e = "client" THEN "up" ELSE "down"
Reader(d) == IF d = "up" THEN "server" ELSE "client"

Init ==
  /\ setup \in Setups
  /\ buf = [d \in Dirs |-> [l \in Links |-> <<>>]]
  /\ shut = [l \in Links |-> {}]
  /\ gone = [l \in Links |-> {}]
  /\ reset = {}
  /\ hand = [d \in Dirs |-> [i \in Stages |-> <<>>]]
  /\ copy = [d \in Dirs |-> [i \in Stages |-> "copying"]]
  /\ stage = [i \in Stages |-> IF kinds[i] = "pump" THEN "starting" ELSE "open"]
  /\ sent = [d \in Dirs |-> 0]
  /\ rcvd = [d \in Dirs |-> <<>>]
  /\ ended = [d \in Dirs |-> FALSE]
  /\ closed = {}

\* A socket is named by its link and the direction it reads.  Closing it ends
\* what it writes; bytes it has not read make it a reset.
Close(sockets) ==
  /\ shut' = [l \in Links |-> shut[l] \cup {d \in Dirs : <<l, Other(d)>> \in sockets}]
  /\ gone' = [l \in Links |-> gone[l] \cup {d \in Dirs : <<l, d>> \in sockets}]
  /\ reset' = reset \cup {l \in Links : \E d \in Dirs :
                            <<l, d>> \in sockets /\ buf[d][l] # <<>>}
  /\ buf' = [d \in Dirs |-> [l \in Links |->
               IF <<l, d>> \in sockets THEN <<>> ELSE buf[d][l]]]

EndSockets(e) == {<<Last(Other(Out(e))), Other(Out(e))>>}
StageSockets(i) == {<<From(d, i), d>> : d \in Dirs}

-----------------------------------------------------------------------------
(* The stages.                                                             *)

\* pump_bidirectional duplicates both sockets, or returns and closes them.
Clone(i) ==
  /\ stage[i] = "starting"
  /\ \/ stage' = [stage EXCEPT ![i] = "open"] /\ UNCHANGED links
     \/ stage' = [stage EXCEPT ![i] = "closed"] /\ Close(StageSockets(i))
  /\ UNCHANGED <<setup, hand, copy, ends>>

\* Mutant of Copying: one thread for both directions.
CopyingInTurn(d, i) ==
  /\ stage[i] = "open" /\ copy[d][i] = "copying"
  /\ d = "down" /\ kinds[i] = "pump" => copy["up"][i] = "done"

\* Each direction runs by itself: a thread, or half of one task's poll.
Copying(d, i) == stage[i] = "open" /\ copy[d][i] = "copying"

\* io::copy reads when it has written all it read, tokio's when it has room.
Take(d, i) ==
  LET l == From(d, i) IN
  /\ Copying(d, i)
  /\ kinds[i] = "pump" => hand[d][i] = <<>>
  /\ \E n \in 1..Len(buf[d][l]) :
       /\ Len(hand[d][i]) + n <= HandCap
       /\ hand' = [hand EXCEPT ![d][i] = @ \o SubSeq(buf[d][l], 1, n)]
       /\ buf' = [buf EXCEPT ![d][l] = SubSeq(@, n + 1, Len(@))]
  /\ UNCHANGED <<setup, shut, gone, reset, copy, stage, ends>>

\* Mutant of Room: a socket takes one byte too many.
RoomForOneMore(d, l) == LinkCap + 1 - Len(buf[d][l])

Room(d, l) == LinkCap - Len(buf[d][l])

\* A write, possibly partial.  The first write to a peer that has closed may
\* still succeed; it is answered by a reset.
Put(d, i) ==
  LET l == To(d, i) IN
  /\ Copying(d, i)
  /\ l \notin reset
  /\ \/ /\ d \notin gone[l]
        /\ \E n \in 1..Len(hand[d][i]) :
             /\ n <= Room(d, l)
             /\ hand' = [hand EXCEPT ![d][i] = SubSeq(@, n + 1, Len(@))]
             /\ buf' = [buf EXCEPT ![d][l] = @ \o SubSeq(hand[d][i], 1, n)]
        /\ UNCHANGED reset
     \/ /\ d \in gone[l]
        /\ hand[d][i] # <<>>
        /\ hand' = [hand EXCEPT ![d][i] = <<>>]
        /\ reset' = reset \cup {l}
        /\ UNCHANGED buf
  /\ UNCHANGED <<setup, shut, gone, copy, stage, ends>>

\* Mutant of Drained: the end of the stream overtakes the bytes in hand.
ReadToEnd(d, i) == buf[d][From(d, i)] = <<>> /\ d \in shut[From(d, i)]

\* Nothing is left to read nor to write.
Drained(d, i) ==
  /\ buf[d][From(d, i)] = <<>>
  /\ d \in shut[From(d, i)]
  /\ hand[d][i] = <<>>

\* Mutants of PassOn: the pump shuts down as well; nobody does.
PassOnAlways(i) == TRUE
PassOnNever(i) == FALSE

\* Only tokio's copy hands the end of a stream on by itself; the pump's threads
\* just end, and its duplicates keep both sockets open.
PassOn(i) == kinds[i] = "tokio"

Eof(d, i) ==
  /\ Copying(d, i)
  /\ Drained(d, i)
  /\ From(d, i) \notin reset
  /\ copy' = [copy EXCEPT ![d][i] = "done"]
  /\ shut' = [shut EXCEPT ![To(d, i)] = IF PassOn(i) THEN @ \cup {d} ELSE @]
  /\ UNCHANGED <<setup, buf, gone, reset, hand, stage, ends>>

\* Mutant of Broke: write errors go unnoticed.
BrokeRead(d, i) == From(d, i) \in reset

\* A read from a reset link, or a write to one or to a peer that has closed.
Broke(d, i) ==
  \/ From(d, i) \in reset
  \/ hand[d][i] # <<>> /\ (To(d, i) \in reset \/ d \in gone[To(d, i)])

\* An error ends one thread of the pump, but both directions of tokio's copy.
Fail(d, i) ==
  /\ Copying(d, i)
  /\ Broke(d, i)
  /\ copy' = [x \in Dirs |-> IF x = d \/ kinds[i] = "tokio"
                             THEN [copy[x] EXCEPT ![i] = "done"] ELSE copy[x]]
  /\ UNCHANGED <<setup, links, hand, stage, ends>>

\* Both directions are over: both sockets are dropped, with what is in hand.
Return(i) ==
  /\ stage[i] = "open"
  /\ \A d \in Dirs : copy[d][i] = "done"
  /\ stage' = [stage EXCEPT ![i] = "closed"]
  /\ hand' = [d \in Dirs |-> [hand[d] EXCEPT ![i] = <<>>]]
  /\ Close(StageSockets(i))
  /\ UNCHANGED <<setup, copy, ends>>

-----------------------------------------------------------------------------
(* The ends.                                                               *)

EndWrite(e) ==
  LET d == Out(e) IN
  /\ e \notin closed
  /\ sent[d] < setup.max[d]
  /\ d \notin shut[First(d)] \cup gone[First(d)]
  /\ Room(d, First(d)) > 0
  /\ buf' = [buf EXCEPT ![d][First(d)] = Append(@, sent[d] + 1)]
  /\ sent' = [sent EXCEPT ![d] = @ + 1]
  /\ UNCHANGED <<setup, shut, gone, reset, stages, rcvd, ended, closed>>

EndRead(e) ==
  LET d == Other(Out(e)) IN
  /\ e \in reads \ closed
  /\ \/ /\ buf[d][Last(d)] # <<>>
        /\ rcvd' = [rcvd EXCEPT ![d] = Append(@, Head(buf[d][Last(d)]))]
        /\ buf' = [buf EXCEPT ![d][Last(d)] = Tail(@)]
        /\ UNCHANGED ended
     \/ /\ buf[d][Last(d)] = <<>>
        /\ d \in shut[Last(d)]
        /\ Last(d) \notin reset
        /\ ~ended[d]
        /\ ended' = [ended EXCEPT ![d] = TRUE]
        /\ UNCHANGED <<rcvd, buf>>
  /\ UNCHANGED <<setup, shut, gone, reset, stages, sent, closed>>

\* An end shuts down its writing side and goes on reading.
EndShutdown(e) ==
  LET d == Out(e) IN
  /\ e \notin closed
  /\ d \notin shut[First(d)]
  /\ shut' = [shut EXCEPT ![First(d)] = @ \cup {d}]
  /\ UNCHANGED <<setup, buf, gone, reset, stages, ends>>

EndClose(e) ==
  /\ e \notin closed
  /\ closed' = closed \cup {e}
  /\ Close(EndSockets(e))
  /\ UNCHANGED <<setup, stages, sent, rcvd, ended>>

\* The target exits: the namespace goes, and the bridge inside with it.
TargetExits ==
  /\ kinds[1] = "pump"
  /\ stage[1] # "closed"
  /\ closed' = closed \cup {"client"}
  /\ stage' = [stage EXCEPT ![1] = "closed"]
  /\ hand' = [d \in Dirs |-> [hand[d] EXCEPT ![1] = <<>>]]
  /\ Close(EndSockets("client") \cup StageSockets(1))
  /\ UNCHANGED <<setup, copy, sent, rcvd, ended>>

Step(d, i) == Take(d, i) \/ Put(d, i) \/ Eof(d, i) \/ Fail(d, i)

\* The two threads of pump_bidirectional, or two halves of tokio's future.
Helping(i) == Step("up", i)
Main(i) == Clone(i) \/ Step("down", i) \/ Return(i)

Next ==
  \/ \E i \in Stages : Main(i) \/ Helping(i)
  \/ \E e \in Ends : EndWrite(e) \/ EndRead(e) \/ EndShutdown(e) \/ EndClose(e)
  \/ TargetExits

AllStages == UNION {DOMAIN s.chain : s \in Setups}

\* Threads, the executor and the kernel make progress, and an end that reads
\* goes on reading; nobody has to write, shut down or close.
Fairness ==
  /\ \A i \in AllStages :
       /\ WF_vars(i \in Stages /\ Main(i))
       /\ WF_vars(i \in Stages /\ Helping(i))
  /\ \A e \in Ends : WF_vars(EndRead(e))

Spec == Init /\ [][Next]_vars /\ Fairness

-----------------------------------------------------------------------------
(* Correctness.                                                            *)

Bytes(d) == 1..setup.max[d]

\* The domain of each variable; no buffer exceeds its capacity.
TypeOK ==
  /\ setup \in Setups
  /\ \A d \in Dirs :
       /\ \A l \in Links : buf[d][l] \in Seq(Bytes(d)) /\ Len(buf[d][l]) <= LinkCap
       /\ \A i \in Stages : hand[d][i] \in Seq(Bytes(d)) /\ Len(hand[d][i]) <= HandCap
       /\ rcvd[d] \in Seq(Bytes(d))
  /\ shut \in [Links -> SUBSET Dirs]
  /\ gone \in [Links -> SUBSET Dirs]
  /\ reset \subseteq Links
  /\ copy \in [Dirs -> [Stages -> {"copying", "done"}]]
  /\ stage \in [Stages -> {"starting", "open", "closed"}]
  /\ sent \in [Dirs -> Nat]
  /\ ended \in [Dirs -> BOOLEAN]
  /\ closed \subseteq Ends

\* An end closed before it had seen the end of what it reads, or a stage was
\* killed or never started.
Broken ==
  \/ \E e \in closed : ~ended[Other(Out(e))]
  \/ \E i \in Stages : stage[i] = "closed" /\ \E d \in Dirs : copy[d][i] # "done"

Channel == INSTANCE DuplexChannel WITH
  fin <- [d \in Dirs |-> d \in shut[First(d)]],
  broken <- Broken

\* Whatever the chain does to a connection, its ends see a DuplexChannel: no
\* byte is lost, doubled or moved, and a stream that seems complete is.
ImplementsChannel == Channel!Spec

\* With a pump in the chain an end learns that the other has finished only
\* after it has finished itself: a server that answers at the end of the
\* request waits for ever.
EofWaitsForBoth ==
  \A d \in Dirs :
    ended[d] /\ ~Broken /\ (\E i \in Stages : kinds[i] = "pump") =>
      Other(d) \in shut[First(Other(d))]

\* An end that reads catches up with what was written, though the other end
\* may never read and the other direction be full to the last buffer.
DirectionsIndependent ==
  \A d \in Dirs :
    []<>(Reader(d) \in reads => Len(rcvd[d]) = sent[d] \/ Broken)

\* The end of a stream arrives too: by itself if no pump is on the way,
\* otherwise once both directions are finished and read.
EofCrosses ==
  \A d \in Dirs :
    /\ d \in shut[First(d)]
    /\ Reader(d) \in reads
    /\ \/ \A i \in Stages : kinds[i] = "tokio"
       \/ reads = Ends /\ Other(d) \in shut[First(Other(d))]
    ~> ended[d] \/ Broken

\* Once both ends have closed, every stage lets go of its sockets, whatever
\* was in flight and whichever buffers were full.
TunnelEnds == closed = Ends ~> \A i \in Stages : stage[i] = "closed"
=============================================================================
