---------------------------- MODULE BoundedFifo ----------------------------
(* What the gateway's main loop expects of the queue between the BLE        *)
(* reports and itself: a FIFO that holds at most Capacity messages, drops    *)
(* the newest one when it is full and counts what it dropped.  The count is  *)
(* a machine word that wraps at CountLimit.                                  *)
EXTENDS Naturals, Sequences

CONSTANTS Message, NoMessage, Capacity, CountLimit

VARIABLES content,  \* the messages held, oldest first
          dropped,  \* how many were refused
          handed    \* what the last successful take returned

fifoVars == <<content, dropped, handed>>

FifoInit ==
  /\ content = <<>>
  /\ dropped = 0
  /\ handed = NoMessage

Offer(m) ==
  /\ Len(content) < Capacity
  /\ content' = Append(content, m)
  /\ UNCHANGED <<dropped, handed>>

Refuse ==
  /\ Len(content) = Capacity
  /\ dropped' = (dropped + 1) % CountLimit
  /\ UNCHANGED <<content, handed>>

Take ==
  /\ content # <<>>
  /\ handed' = Head(content)
  /\ content' = Tail(content)
  /\ UNCHANGED dropped

\* A reset of the gateway forgets all of it.
Clear ==
  /\ content' = <<>>
  /\ dropped' = 0
  /\ handed' = NoMessage

FifoNext == (\E m \in Message : Offer(m)) \/ Refuse \/ Take \/ Clear

FifoSpec == FifoInit /\ [][FifoNext]_fifoVars
=============================================================================
