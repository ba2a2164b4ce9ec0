--------------------------- MODULE ReliableService ---------------------------
(***************************************************************************)
(* What reliable messages promise a nanoapp (chreSendReliableMessageAsync):*)
(* its messages go to the host one at a time in the order they were sent,  *)
(* each at most kMaxAttempts times; each is answered once, positively only *)
(* if a copy was sent, with a timeout only after the last attempt.         *)
(***************************************************************************)
EXTENDS Integers

CONSTANTS Seqs, kMaxAttempts

VARIABLES
  status,                    \* "none", "pending", "NONE", "TIMEOUT", "dropped"
  sender,                    \* the nanoapp of an accepted message
  copies                     \* copies of each message given to the host link

vars == <<status, sender, copies>>

Init ==
  /\ status = [q \in Seqs |-> "none"]
  /\ copies = [q \in Seqs |-> 0]

Pending(st, app) == {q \in Seqs : st[q] = "pending" /\ sender'[q] = app}

\* Only the oldest pending message of a nanoapp is sent, once per step.
OldestIsSent(st) ==
  \A q \in Seqs :
    \/ copies'[q] = copies[q]
    \/ /\ copies'[q] = copies[q] + 1
       /\ copies'[q] <= kMaxAttempts
       /\ st[q] = "pending"
       /\ \A p \in Pending(st, sender'[q]) : q <= p

Accept(q, app) ==
  /\ status[q] = "none"
  /\ \A p \in Seqs : p < q => status[p] # "none"
  /\ sender' = [sender EXCEPT ![q] = app]
  /\ status' = [status EXCEPT ![q] = "pending"]
  /\ OldestIsSent(status')

Answer(q, error) ==
  /\ status[q] = "pending"
  /\ copies[q] > 0
  /\ error = "TIMEOUT" => copies[q] = kMaxAttempts
  /\ status' = [status EXCEPT ![q] = error]
  /\ UNCHANGED sender
  /\ OldestIsSent(status')

Retry ==
  /\ UNCHANGED <<status, sender>>
  /\ OldestIsSent(status)

\* The nanoapp is unloaded; what it still waits for is dropped, after further
\* copies may have been sent in the same order.
Unload(app) ==
  /\ UNCHANGED sender
  /\ status' = [q \in Seqs |-> IF status[q] = "pending" /\ sender[q] = app
                               THEN "dropped" ELSE status[q]]
  /\ \A q \in Seqs :
       \/ copies'[q] = copies[q]
       \/ /\ status[q] = "pending" /\ sender[q] = app
          /\ copies[q] = 0 /\ copies'[q] = 1

Next ==
  \/ \E q \in Seqs : \E app \in {sender'[q]} : Accept(q, app)
  \/ \E q \in Seqs, error \in {"NONE", "TIMEOUT"} : Answer(q, error)
  \/ Retry
  \/ \E q \in Seqs : Unload(sender[q])

Spec == Init /\ [][Next]_vars
=============================================================================
