----------------------------- MODULE AtLeastOnce -----------------------------
(***************************************************************************)
(* What a device that publishes with QoS 1 promises about its messages.  A *)
(* message it accepts stays pending until it has reached the broker.  Only *)
(* the start of a session the broker knows nothing of, and the loss of its *)
(* own memory, make the device forget messages that did not.               *)
(***************************************************************************)
CONSTANT Messages

VARIABLES active, pending, delivered, accepted

Init == active = FALSE /\ pending = {} /\ delivered = {} /\ accepted = {}

Accept(m) ==
    /\ active
    /\ m \notin accepted
    /\ accepted' = accepted \cup {m}
    /\ pending' = pending \cup {m}
    /\ UNCHANGED <<active, delivered>>

(* Some message arrives, perhaps after the device closed the session.      *)
Deliver(m) ==
    /\ m \in accepted
    /\ delivered' = delivered \cup {m}
    /\ UNCHANGED <<active, pending, accepted>>

Settle(m) ==
    /\ active
    /\ m \in delivered
    /\ pending' = pending \ {m}
    /\ UNCHANGED <<active, delivered, accepted>>

Begin ==
    /\ ~ active
    /\ active' = TRUE
    /\ pending' \in {{}, pending}
    /\ UNCHANGED <<delivered, accepted>>

End == active /\ active' = FALSE /\ UNCHANGED <<pending, delivered, accepted>>

Crash ==
    /\ active' = FALSE
    /\ pending' = {}
    /\ UNCHANGED <<delivered, accepted>>

Next ==
    \/ \E m \in Messages : Accept(m) \/ Deliver(m) \/ Settle(m)
    \/ Begin
    \/ End
    \/ Crash

Spec == Init /\ [][Next]_<<active, pending, delivered, accepted>>
=============================================================================
