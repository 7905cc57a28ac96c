---------------------------- MODULE BoundedFifo ----------------------------
(***************************************************************************)
(* What the OSAL message queue promises its callers, with no threads,      *)
(* locks, ring indices or reference counts: every queue is opened once, is *)
(* a FIFO of at most Depth messages while it is open, and loses its        *)
(* content when it is closed.  `hand' is the buffer of each caller of      *)
(* OSAL_QueueGet: a message leaves the head of one queue and reaches       *)
(* exactly one caller, in one step.                                        *)
(***************************************************************************)
EXTENDS Naturals, Sequences

CONSTANTS Callers,   \* the threads that may receive a message
          Queues,    \* the identifiers of queues
          Msgs,      \* the messages
          NoMsg,     \* the content of a caller's buffer before a message
          Depth      \* queue_depth of OSAL_QueueCreate

VARIABLES phase,     \* "new", "open" or "closed"
          content,   \* the messages of a queue, oldest first
          hand       \* the message a caller has just received

fifoVars == <<phase, content, hand>>

FifoInit ==
  /\ phase = [i \in Queues |-> "new"]
  /\ content = [i \in Queues |-> <<>>]
  /\ hand = [c \in Callers |-> NoMsg]

Open(i) ==
  /\ phase[i] = "new"
  /\ phase' = [phase EXCEPT ![i] = "open"]
  /\ UNCHANGED <<content, hand>>

Send(i, m) ==
  /\ phase[i] = "open"
  /\ Len(content[i]) < Depth
  /\ content' = [content EXCEPT ![i] = Append(@, m)]
  /\ UNCHANGED <<phase, hand>>

Receive(c, i) ==
  /\ phase[i] = "open"
  /\ content[i] # <<>>
  /\ hand[c] = NoMsg
  /\ hand' = [hand EXCEPT ![c] = Head(content[i])]
  /\ content' = [content EXCEPT ![i] = Tail(@)]
  /\ UNCHANGED phase

\* The call that received a message returns to its caller.
HandOver(c) ==
  /\ hand[c] # NoMsg
  /\ hand' = [hand EXCEPT ![c] = NoMsg]
  /\ UNCHANGED <<phase, content>>

Close(i) ==
  /\ phase[i] = "open"
  /\ phase' = [phase EXCEPT ![i] = "closed"]
  /\ content' = [content EXCEPT ![i] = <<>>]
  /\ UNCHANGED hand

FifoNext ==
  \/ \E i \in Queues : Open(i) \/ Close(i)
  \/ \E i \in Queues, m \in Msgs : Send(i, m)
  \/ \E c \in Callers, i \in Queues : Receive(c, i)
  \/ \E c \in Callers : HandOver(c)

FifoSpec == FifoInit /\ [][FifoNext]_fifoVars
=============================================================================
