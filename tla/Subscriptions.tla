--------------------------- MODULE Subscriptions ----------------------------
(***************************************************************************)
(* What a sequence of commands asks for.  A command is a SubCommand of     *)
(* UdpFeedHandler.h, which names a symbol by its id, or a subscription     *)
(* message of libzmq, which names a topic.  The feed handlers are judged   *)
(* by these definitions: they are not what the code does with a command.   *)
(***************************************************************************)
EXTENDS Integers, Sequences

Commands(ids) == [is_subscribe : BOOLEAN, symbol_id : ids]

\* What the client means by one command.
Meant(subs, cmd) == IF cmd.is_subscribe THEN subs \cup {cmd.symbol_id}
                    ELSE subs \ {cmd.symbol_id}

\* What a set of subscriptions becomes by a sequence of commands: the last command
\* on an id decides, and an id that no command is about stays as it was.
Outcome(ids, subs, cmds) ==
  {id \in ids :
     \/ /\ id \in subs
        /\ \A i \in 1 .. Len(cmds) : cmds[i].symbol_id # id
     \/ \E i \in 1 .. Len(cmds) :
          /\ cmds[i].symbol_id = id /\ cmds[i].is_subscribe
          /\ \A j \in 1 .. Len(cmds) : cmds[j].symbol_id = id => j <= i}
=============================================================================
