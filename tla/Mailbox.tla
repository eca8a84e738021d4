------------------------------ MODULE Mailbox ------------------------------
(***************************************************************************)
(* What the inboxes of the Idris run time system promise, whatever locks   *)
(* and slots they are made of: a message posted to a process waits in its  *)
(* box together with its sender, the waiting messages keep the order in    *)
(* which they were posted, and each one is handed to the owner at most     *)
(* once.  The owner may take any of them, because a receive can ask for    *)
(* one sender and one channel.                                             *)
(***************************************************************************)
EXTENDS Naturals, Sequences, SequencesExt

CONSTANTS Proc, Payload

VARIABLES
  box,     \* the letters waiting at each process, oldest first
  handed   \* the letters each process has taken, in the order it took them

vars == <<box, handed>>

Letter == [sender: Proc, msg: Payload]

TypeOK ==
  /\ box \in [Proc -> Seq(Letter)]
  /\ handed \in [Proc -> Seq(Letter)]

Init ==
  /\ box = [q \in Proc |-> <<>>]
  /\ handed = [q \in Proc |-> <<>>]

\* A payload names one send, so it is never posted twice.
Post(p, q, m) ==
  LET letter == [sender |-> p, msg |-> m] IN
  /\ p # q
  /\ letter \notin Range(box[q]) \cup Range(handed[q])
  /\ box' = [box EXCEPT ![q] = Append(@, letter)]
  /\ UNCHANGED handed

Take(q, i) ==
  /\ handed' = [handed EXCEPT ![q] = Append(@, box[q][i])]
  /\ box' = [box EXCEPT ![q] = RemoveAt(@, i)]

Next ==
  \/ \E p, q \in Proc, m \in Payload : Post(p, q, m)
  \/ \E q \in Proc : \E i \in DOMAIN box[q] : Take(q, i)

Spec == Init /\ [][Next]_vars
=============================================================================
