--------------------------- MODULE Subscription ---------------------------
(***************************************************************************)
(* SubscribeEvent of pkg/hiredis: one keyspace subscription, opened again  *)
(* after errors.  What a message and a new connection do is up to the      *)
(* module that extends this one; the actions here constrain sub only.      *)
(*                                                                         *)
(* Redis sends a notification to the connections subscribed at that        *)
(* moment; what has not been received is lost with the connection.         *)
(***************************************************************************)
EXTENDS Naturals

VARIABLE sub    \* the client's and the server's side, unread messages

Unsubscribed == [client |-> "down", server |-> FALSE, inbox |-> 0]

SubscriptionType ==
    [client : {"down", "starting", "receiving"}, server : BOOLEAN, inbox : Nat]

(* The server queues one message per key written for a subscribed client.  *)
Notify(n) == sub' = [sub EXCEPT !.inbox = IF sub.server THEN @ + n ELSE @]

(* Init: PSUBSCRIBE is sent and flushed, its reply not awaited.            *)
Connect ==
    /\ sub.client = "down"
    /\ sub' = [sub EXCEPT !.client = "starting"]

(* The server executes it.                                                 *)
Activate ==
    /\ sub.client # "down"
    /\ ~ sub.server
    /\ sub' = [sub EXCEPT !.server = TRUE]

(* The goroutine Subscribe calls onStart and begins to receive.            *)
BeginReceive ==
    /\ sub.client = "starting"
    /\ sub' = [sub EXCEPT !.client = "receiving"]

(* One message goes to onMessage.                                          *)
Receive ==
    /\ sub.client = "receiving"
    /\ sub.inbox > 0
    /\ sub' = [sub EXCEPT !.inbox = @ - 1]

(* A receive fails: the connection is closed, and replaced at a later tick.*)
Disconnect ==
    /\ sub.client = "receiving"
    /\ sub' = Unsubscribed
=============================================================================
