--------------------------- MODULE ChannelContract ---------------------------
(***************************************************************************)
(* What a channel promises to its filters, whatever its protocol and the   *)
(* platform: on_connected (on_accepted, on_open) first, then input and     *)
(* output until something ends it, on_error and on_closed once each and    *)
(* both before the channel is deleted, nothing else after either of them.  *)
(* Which of the two comes first is not promised.                           *)
(***************************************************************************)
VARIABLES
  callback,  \* the callback in progress, or "none"
  begun,     \* the callbacks that come once and have begun
  deleted    \* the channel is deleted

vars == <<callback, begun, deleted>>

Ends == {"on_error", "on_closed"}

Init == callback = "none" /\ begun = {} /\ deleted = FALSE

Connect ==
  /\ begun = {}
  /\ callback' = "on_connected" /\ begun' = {"on_connected"}
  /\ UNCHANGED deleted

Deliver ==
  /\ begun = {"on_connected"} /\ ~deleted
  /\ callback' \in {"on_read", "on_write"}
  /\ UNCHANGED <<begun, deleted>>

End(c) ==
  /\ "on_connected" \in begun /\ c \notin begun /\ ~deleted
  /\ callback' = c /\ begun' = begun \cup {c}
  /\ UNCHANGED deleted

Return == callback' = "none" /\ UNCHANGED <<begun, deleted>>

Delete ==
  /\ Ends \subseteq begun /\ callback = "none"
  /\ deleted' = TRUE
  /\ UNCHANGED <<callback, begun>>

Next ==
  \/ Connect \/ Deliver
  \/ \E c \in Ends : End(c)
  \/ Return \/ Delete

Spec == Init /\ [][Next]_vars
=============================================================================
