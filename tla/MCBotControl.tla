---------------------------- MODULE MCBotControl ----------------------------
(* Small instances of BotControl for TLC: one bot, all requests for it.    *)
EXTENDS BotControl

OneBot == [c \in Cred |-> CHOOSE b \in Bot : TRUE]
=============================================================================
