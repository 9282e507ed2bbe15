---------------------------- MODULE IFeedHandler ----------------------------
(***************************************************************************)
(* src/src/feedhandler/IFeedHandler.h, the base of the two feed handlers:  *)
(* the client's start, stop and callbacks, and the destructors of the      *)
(* derived classes, which both call stop() and then close their socket.    *)
(*                                                                         *)
(* The client is one thread.  clientPc is where it is: "free" outside of   *)
(* the handler, "joining" in stop(), "dying" in the stop() of the          *)
(* destructor, "gone" when the socket is closed and the handler destroyed; *)
(* ZmqFeedHandler adds the two steps of its subscribe and unsubscribe.     *)
(***************************************************************************)
EXTENDS Integers

CONSTANT MaxStarts   \* bound: times the receive thread is started

ASSUME StartsAssumption == MaxStarts \in Nat

VARIABLES receiver_thread_,   \* "none" (not joinable), "running" or "ended"
          stopRequested,      \* the stop state of the thread
          clientPc,           \* place of the client
          callbacks,          \* types of message a callback has been set for
          starts              \* number of times the thread was started

baseVars == <<receiver_thread_, stopRequested, clientPc, callbacks, starts>>

BaseInit == /\ receiver_thread_ = "none" /\ stopRequested = FALSE
            /\ clientPc = "free" /\ callbacks = {} /\ starts = 0

\* A fault: stop() does not wait for the thread.
JoinAtOnce == TRUE

\* join() returns when the thread has ended.
Joinable == receiver_thread_ = "ended"

\* start(): a new thread with a new stop state, unless there is one already.
start ==
  /\ clientPc = "free" /\ receiver_thread_ = "none" /\ starts < MaxStarts
  /\ receiver_thread_' = "running"
  /\ stopRequested' = FALSE
  /\ starts' = starts + 1
  /\ UNCHANGED <<clientPc, callbacks>>

\* stop(), or the destructor that begins with it: request_stop ...
stop_request ==
  /\ clientPc = "free" /\ receiver_thread_ # "none"
  /\ stopRequested' = TRUE
  /\ clientPc' \in {"joining", "dying"}
  /\ UNCHANGED <<receiver_thread_, callbacks, starts>>

\* ... and join, after which the destructor closes the socket and ends as given.
stop_join(end) ==
  /\ clientPc \in {"joining", "dying"} /\ Joinable
  /\ receiver_thread_' = "none"
  /\ clientPc' = IF clientPc = "dying" THEN end ELSE "free"
  /\ UNCHANGED <<stopRequested, callbacks, starts>>

\* The destructor when there is no thread to stop.
DestroyIdle(end) ==
  /\ clientPc = "free" /\ receiver_thread_ = "none"
  /\ clientPc' = end
  /\ UNCHANGED <<receiver_thread_, stopRequested, callbacks, starts>>

\* set_quote_callback and set_trade_callback
SetCallback(type) ==
  /\ clientPc = "free"
  /\ callbacks' = callbacks \cup {type}
  /\ UNCHANGED <<receiver_thread_, stopRequested, clientPc, starts>>

\* The receive loop returns, and with it the thread.
EndThread ==
  /\ receiver_thread_' = "ended"
  /\ UNCHANGED <<stopRequested, clientPc, callbacks, starts>>

BaseTypeOK == /\ receiver_thread_ \in {"none", "running", "ended"}
              /\ stopRequested \in BOOLEAN
              /\ callbacks \subseteq {"Q", "T"}
              /\ starts \in 0 .. MaxStarts
=============================================================================
