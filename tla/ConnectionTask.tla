--------------------------- MODULE ConnectionTask ---------------------------
(***************************************************************************)
(* What a connection task promises to the holder of its shutdown sender,   *)
(* in the words of connect_to_gateway: the sender "must be kept alive for  *)
(* the connection to persist - dropping it signals a graceful shutdown".   *)
(* The task never ends by itself, and it ends once it has been told to.    *)
(***************************************************************************)

VARIABLE status     \* "open", "told" to stop, or "stopped"

TypeOK == status \in {"open", "told", "stopped"}

Init == status = "open"

\* The holder uses or drops the sender.
Tell == status = "open" /\ status' = "told"

\* The task leaves its reconnect loop.
Stop == status = "told" /\ status' = "stopped"

Next == Tell \/ Stop

Spec == Init /\ [][Next]_status /\ WF_status(Stop)
=============================================================================
