-------------------------- MODULE MCNotificationDelivery --------------------------
(***************************************************************************)
(* Instances of NotificationDelivery for TLC.  Webhooks and mails meet in   *)
(* nothing but the queue, so that one of them at a time is enough: one      *)
(* webhook with two faults, or the mails about two events with one, which   *)
(* fit one digest or need two.                                              *)
(***************************************************************************)
EXTENDS NotificationDelivery

Mailbox == {<<1, "mail">>, <<2, "mail">>}
HookOrMails == {[deliveries |-> {<<1, "hook">>}, digest |-> 1, faults |-> 2],
                [deliveries |-> Mailbox, digest |-> 1, faults |-> 1],
                [deliveries |-> Mailbox, digest |-> 2, faults |-> 1]}
=============================================================================
