---------------------------- MODULE LossyChannel ----------------------------
(***************************************************************************)
(* What the benchmark measures with, from the generator to the monitor: a  *)
(* channel that may lose messages, and neither repeats, reorders nor makes *)
(* them up.  A message is its number.                                      *)
(***************************************************************************)
EXTENDS Naturals, Sequences

VARIABLES sent,       \* number of messages sent
          received    \* the messages received, in that order

channelVars == <<sent, received>>

ChannelInit == sent = 0 /\ received = << >>

SendNext == sent' = sent + 1 /\ UNCHANGED received

\* Any message younger than the last one received.
ReceiveSome ==
  /\ \E n \in 1 .. sent : /\ \A i \in DOMAIN received : received[i] < n
                          /\ received' = Append(received, n)
  /\ UNCHANGED sent

ChannelSpec == ChannelInit /\ [][SendNext \/ ReceiveSome]_channelVars
=============================================================================
