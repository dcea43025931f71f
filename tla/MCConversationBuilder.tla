----------------------- MODULE MCConversationBuilder -----------------------
(* A conversation that may go live, one that may not, and none at all.     *)
EXTENDS ConversationBuilder

CONSTANTS good, broken

MCFlows == {Empty, good, broken}
MCValid == {good}
=============================================================================
