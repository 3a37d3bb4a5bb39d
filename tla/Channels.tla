------------------------------ MODULE Channels ------------------------------
(***************************************************************************)
(* The notification channels (ayn_ml/sinks/email.py, webhook.py): what one    *)
(* write() of a report may come to.  The servers are external: at each step  *)
(* of the exchange they may fail, and a mail server refuses recipients one by *)
(* one.                                                                       *)
(*                                                                          *)
(* An outcome is [raised, reached, body]: whether write() raises, who has     *)
(* received the report, and in which form.                                    *)
(***************************************************************************)
EXTENDS Integers, FiniteSets

Delivered(to, body) == [raised |-> FALSE, reached |-> to, body |-> body]
Refused == [raised |-> TRUE, reached |-> {}, body |-> "none"]

(* A channel is [kind, to, html]: to is the addresses of an EmailChannel, at *)
(* least one, or the URL of a webhook; html says that a renderer was given.   *)
ChannelValid(ch) == ch.to # {}

(* The HTML part is left out when there is no renderer or when it fails. *)
Bodies(ch) == IF ch.html THEN {"html and text", "text"} ELSE {"text"}

(* Connecting, STARTTLS, login and sendmail() raise - also when the server    *)
(* has taken the message and the connection fails before it says so.          *)
(* sendmail() does not raise when only some recipients are refused, and what  *)
(* it returns is not looked at.                                               *)
EmailWrites(ch) ==
  {Refused} \cup {[raised |-> raised, reached |-> to, body |-> body] :
                    raised \in BOOLEAN, to \in (SUBSET ch.to) \ {{}}, body \in Bodies(ch)}

(* One POST: an HTTP error or a lost connection raises, and the endpoint may *)
(* have taken the report all the same.                                        *)
WebhookWrites(ch) ==
  {Refused, [raised |-> TRUE, reached |-> ch.to, body |-> "json"], Delivered(ch.to, "json")}

ChannelWrites(ch) == IF ch.kind = "email" THEN EmailWrites(ch) ELSE WebhookWrites(ch)
=============================================================================
