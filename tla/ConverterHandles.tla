-------------------------- MODULE ConverterHandles --------------------------
(***************************************************************************)
(* What ConverterCache promises to the threads, without blocks, counters   *)
(* and cache: a converter that was opened converts by the tables that it   *)
(* was opened for until it is closed or given back, whatever other threads *)
(* close or flush.                                                         *)
(***************************************************************************)
CONSTANTS Threads, Contents

VARIABLES open,   \* the tables by which the converter of each thread converts;
                  \* none when it has no converter
          spare   \* those of the shared default converter

Init == open = [t \in Threads |-> {}] /\ spare = {}

Open(t) ==
  /\ open[t] = {}
  /\ \E content \in Contents : open' = [open EXCEPT ![t] = content]
  /\ UNCHANGED spare

Clone(t, peer) ==
  /\ open[t] = {} /\ open[peer] # {}
  /\ open' = [open EXCEPT ![t] = open[peer]]
  /\ UNCHANGED spare

Close(t) ==
  /\ open[t] # {}
  /\ open' = [open EXCEPT ![t] = {}]
  /\ UNCHANGED spare

\* The default converter belongs to one thread, or to none.
GiveBack(t) ==
  /\ open[t] # {} /\ spare = {}
  /\ spare' = open[t]
  /\ open' = [open EXCEPT ![t] = {}]

Take(t) ==
  /\ open[t] = {} /\ spare # {}
  /\ open' = [open EXCEPT ![t] = spare]
  /\ spare' = {}

Discard == spare # {} /\ spare' = {} /\ UNCHANGED open

Next ==
  \/ \E t \in Threads : Open(t) \/ Close(t) \/ GiveBack(t) \/ Take(t)
  \/ \E t, peer \in Threads : Clone(t, peer)
  \/ Discard

Spec == Init /\ [][Next]_<<open, spare>>
=============================================================================
