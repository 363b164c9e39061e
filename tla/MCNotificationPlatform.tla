----------------------- MODULE MCNotificationPlatform -----------------------
(* Instances of NotificationPlatform for TLC. *)
EXTENDS NotificationPlatform, TLC

CONSTANTS a1, a2, t1, t2, t3

MCApps == {a1, a2}
MCThreads == {t1, t2, t3}
MCAppOf == t1 :> a1 @@ t2 :> a1 @@ t3 :> a2
MCOpsOf == t1 :> {"Register", "Unregister", "UnregisterAll"} @@ t2 :> {"CreateChannel"}
           @@ t3 :> {"Register"}
MCCalls == t1 :> 2 @@ t2 :> 1 @@ t3 :> 1
MCEither == {t2, t3}
MCEnds == a1 :> 1 @@ a2 :> 0
First == {a1}
Second == {a2}
=============================================================================
