------------------------------ MODULE MCFanOut ------------------------------
(***************************************************************************)
(* What follows the commit of an event: webhooks, the event stream and     *)
(* notifications.  storeEvents starts the three without waiting, and they  *)
(* share no state: a behaviour of this instance exercises one of them,     *)
(* which leaves out no behaviour of any.                                   *)
(***************************************************************************)
EXTENDS WebhookDelivery, EventStream, Notifications

Everything == [h \in Hooks |-> HookEvents]
Bytes == <<2, 4, 6>>
SummarizedBytes == <<2, 3, 4>>
MinimallyBytes == <<2, 2, 3>>
Delays == <<1, 2>>

UserOfTab == [t \in Tabs |-> IF t = "t2" THEN "admin" ELSE "u1"]
BorrowerOfTab == [t \in Tabs |-> NoParam]
Addresses == <<"u1", "u2">>
Owners == <<"u1", "u1">>

Init == WebhookInit /\ StreamInit /\ NoticeInit

Next ==
    \/ WebhookNext /\ StreamInit /\ NoticeInit /\ UNCHANGED <<streamVars, noticeVars>>
    \/ StreamNext /\ WebhookInit /\ NoticeInit /\ UNCHANGED <<webhookVars, noticeVars>>
    \/ NoticeNext /\ WebhookInit /\ StreamInit /\ UNCHANGED <<webhookVars, streamVars>>

Spec ==
    /\ Init /\ [][Next]_<<webhookVars, streamVars, noticeVars>>
    /\ WebhookFairness /\ StreamFairness /\ WF_noticeVars(useNotifications)
==============================================================================
