---------------------------- MODULE FileTransfer ----------------------------
(***************************************************************************)
(* What a transfer promises to the two users: the file comes out of the    *)
(* receiver in order and without a chunk missing, doubled or altered; the  *)
(* receiver ends by itself only when it has written the whole file; the    *)
(* sender reports success only then, and may give up at any time.          *)
(***************************************************************************)
EXTENDS Integers, Sequences

CONSTANT FileLen

VARIABLES
  written,   \* the chunks on the receiver's standard output
  receiver,  \* "open" or "complete"
  sender     \* "sending", "success" or "abandoned"

promiseVars == <<written, receiver, sender>>

Init == written = <<>> /\ receiver = "open" /\ sender = "sending"

(* The receiver writes the next chunks, and may find the file complete.    *)
Deliver ==
  /\ receiver = "open"
  /\ \E n \in Len(written) .. FileLen :
       /\ written' = [i \in 1 .. n |-> i - 1]
       /\ receiver' \in {"open"} \cup (IF n = FileLen THEN {"complete"} ELSE {})
  /\ UNCHANGED sender

Succeed ==
  /\ sender = "sending"
  /\ Len(written) = FileLen
  /\ sender' = "success"
  /\ UNCHANGED <<written, receiver>>

Abandon ==
  /\ sender = "sending"
  /\ sender' = "abandoned"
  /\ UNCHANGED <<written, receiver>>

Next == Deliver \/ Succeed \/ Abandon

Spec == Init /\ [][Next]_promiseVars
=============================================================================
