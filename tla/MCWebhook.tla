----------------------------- MODULE MCWebhook -----------------------------
(* Instances of Webhook for TLC. *)
EXTENDS Webhook

CONSTANTS ann, bob, u1, u2

TwoUsers == {ann, bob}
OnlyBob == {bob}
OnlyAnn == {ann}

TwoUpdates == {u1, u2}

\* An administrator presses, writes commands, replies to alerts and says things that are
\* none of the bot's; a member of the allowlist writes; a role is asked for meanwhile.
FewMail ==
  [u \in TwoUpdates |->
     IF u = u1 THEN {<<"press", ann>>, <<"command", ann>>, <<"shorthand", ann>>,
                     <<"foreign", ann>>, <<"command", bob>>}
     ELSE {<<"whoami", ann>>}]
=============================================================================
