--------------------------- MODULE MCChatWidget ---------------------------
(* A greeting, a choice between leaving details and asking for a person,   *)
(* a typed answer and an ending.                                           *)
EXTENDS ChatWidget

CONSTANTS hello, ask, detail, person, bye

MCSteps == {hello, ask, detail, person, bye}
MCFlow ==
  [n \in MCSteps |->
     CASE n = hello  -> [type |-> "message", to |-> [go |-> ask]]
       [] n = ask    -> [type |-> "choice",  to |-> [yes |-> detail, human |-> person]]
       [] n = detail -> [type |-> "input",   to |-> [yes |-> bye]]
       [] n = person -> [type |-> "handoff", to |-> [go |-> detail]]
       [] n = bye    -> [type |-> "end",     to |-> [go |-> None]]]
=============================================================================
