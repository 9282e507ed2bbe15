---------------------------- MODULE FeedContract ----------------------------
(***************************************************************************)
(* What a feed handler promises to its client, whatever the transport: it  *)
(* calls the callbacks with whole messages of the symbols the client wants *)
(* ("applies symbol-based filtering", README.md:52).  An unsubscribe may   *)
(* find the receive thread past its filter already, so one delivery of a   *)
(* withdrawn symbol may follow it, and only one: any delivery ends the     *)
(* grace of every withdrawn symbol.  Nothing says that a message arrives.  *)
(***************************************************************************)
EXTENDS Sequences

CONSTANT Id          \* the symbols

VARIABLES wanted,    \* symbols the client is subscribed to
          grace,     \* withdrawn symbols of which one message may still come
          delivered  \* messages given to the client: <<symbol, type, payload>>

feedVars == <<wanted, grace, delivered>>

\* The pairs of a callback and what it is called with.
Whole == {<<"Q", "Quote">>, <<"T", "Trade">>}

FeedInit == wanted = {} /\ grace = {} /\ delivered = << >>

Subscribe(id) == /\ wanted' = wanted \cup {id}
                 /\ grace' = grace \ {id}
                 /\ UNCHANGED delivered

Unsubscribe(id) == /\ wanted' = wanted \ {id}
                   /\ grace' \subseteq grace \cup (wanted \cap {id})
                   /\ UNCHANGED delivered

\* A handler that is stopped and started again may forget subscriptions.
Restart == /\ wanted' \subseteq wanted
           /\ grace' = {}
           /\ UNCHANGED delivered

\* The receive thread is back before its filter.
Expire == grace' \subseteq grace /\ UNCHANGED <<wanted, delivered>>

\* A callback is called.
Deliver(id, k) == /\ id \in wanted \cup grace
                  /\ delivered' = Append(delivered, <<id, k[1], k[2]>>)
                  /\ grace' = {}
                  /\ UNCHANGED wanted

FeedNext == \/ Restart \/ Expire
            \/ \E id \in Id : Subscribe(id) \/ Unsubscribe(id)
            \/ \E id \in Id, k \in Whole : Deliver(id, k)

FeedSpec == FeedInit /\ [][FeedNext]_feedVars
=============================================================================
