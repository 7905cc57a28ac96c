------------------------------ MODULE CanPort ------------------------------
(***************************************************************************)
(* What the users of the CAN driver count on: a call returns once, a send  *)
(* that returns OSAL_SUCCESS has been counted in tx_count exactly once,    *)
(* any other call not at all, and nothing can be called without a handle.  *)
(* Nothing is promised of when a call returns, or that it ever succeeds.   *)
(* HalCan implements this specification.                                   *)
(***************************************************************************)
EXTENDS Naturals

CONSTANTS Threads,  \* the callers
          Wrap      \* tx_count counts modulo Wrap

VARIABLES alive,  \* there is a handle
          tx,     \* tx_count
          call,   \* what each thread is doing: idle, send, recv, done
          ret     \* what its call returns

vars == <<alive, tx, call, ret>>

Init ==
  /\ alive = FALSE
  /\ tx = 0
  /\ call = [t \in Threads |-> "idle"]
  /\ ret = [t \in Threads |-> "none"]

Open == ~alive /\ alive' = TRUE /\ tx' = 0 /\ UNCHANGED <<call, ret>>
Close == alive /\ alive' = FALSE /\ tx' = 0 /\ UNCHANGED <<call, ret>>

Begin(t, o) ==
  /\ alive
  /\ call[t] = "idle"
  /\ call' = [call EXCEPT ![t] = o]
  /\ UNCHANGED <<alive, tx, ret>>

End(t, r) ==
  /\ call' = [call EXCEPT ![t] = "done"]
  /\ ret' = [ret EXCEPT ![t] = r]
  /\ UNCHANGED alive

\* A call may fail at once.
Refuse(t) == alive /\ call[t] = "idle" /\ End(t, "error") /\ UNCHANGED tx

SendOk(t) == call[t] = "send" /\ End(t, "ok") /\ tx' = (tx + 1) % Wrap
SendFails(t) == call[t] = "send" /\ End(t, "error") /\ UNCHANGED tx
RecvEnds(t, r) == call[t] = "recv" /\ End(t, r) /\ UNCHANGED tx

Return(t) ==
  /\ call[t] = "done"
  /\ call' = [call EXCEPT ![t] = "idle"]
  /\ ret' = [ret EXCEPT ![t] = "none"]
  /\ UNCHANGED <<alive, tx>>

\* A call ends.
Ends(t) ==
  SendOk(t) \/ SendFails(t) \/ \E r \in {"ok", "timeout", "error"} : RecvEnds(t, r)

Next ==
  \/ Open
  \/ Close /\ \A t \in Threads : call[t] = "idle"
  \/ \E t \in Threads :
       Begin(t, "send") \/ Begin(t, "recv") \/ Refuse(t) \/ Ends(t) \/ Return(t)

Spec == Init /\ [][Next]_vars
=============================================================================
