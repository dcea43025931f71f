-------------------------- MODULE ChatFlowEngine --------------------------
(***************************************************************************)
(* What the server does with one visitor reply: ChatFlowEngine::start,     *)
(* handle and advance, ChatHandoffService::request, as functions of the    *)
(* conversation the handler loaded.  A handler's result is                 *)
(*   refused   a 422, nothing written                                      *)
(*   heard     the step the reply was recorded for (None: not recorded)    *)
(*   said      the lines written after it: "bot" and "system"              *)
(*   cursor, live, closed   the conversation's next state                  *)
(*   node      the question the reply hands to the widget                  *)
(* Words, scores, tags, captured leads and booking slots are left out: a   *)
(* booking is a choice and the assistant is an input to the widget.        *)
(***************************************************************************)
EXTENDS Integers, Sequences

CONSTANTS
  Steps,    \* the steps of the published flow
  Flow,     \* step -> [type, to]; to: accepted answer ("go" if none) -> next
  Start,    \* where the flow starts
  Closing,  \* the endings that close the conversation (lost, support: not lead)
  None,     \* no step
  LiveStep  \* the box of a chat a person has (ChatFlowEngine::liveNode)

StepTypes == {"message", "choice", "input", "handoff", "end"}

ASSUME FlowAssumption ==
  /\ Start \in Steps
  /\ Closing \subseteq Steps
  /\ None \notin Steps /\ LiveStep \notin Steps /\ None # LiveStep
  /\ \A n \in Steps : /\ Flow[n].type \in StepTypes
                      /\ \A a \in DOMAIN Flow[n].to : Flow[n].to[a] \in Steps \cup {None}

(* The steps that speak lead on, and never in a round: on a round of them  *)
(* advance() would not return (FlowEditing!ValidFlowsPause).               *)
Speaks(n) == Flow[n].type \in {"message", "handoff"}

ASSUME SpeakingStepsEnd ==
  /\ \A n \in Steps : Speaks(n) => "go" \in DOMAIN Flow[n].to
  /\ \A R \in SUBSET {n \in Steps : Speaks(n)} :
        R # {} => \E n \in R : Flow[n].to["go"] \notin R

Asks(n) == n \in Steps /\ Flow[n].type \in {"choice", "input"}
Accepts(n, answer) == Asks(n) /\ answer \in DOMAIN Flow[n].to

(* Conversation row: where the script is, and who drives.  *)
NewConversation == [cursor |-> None, live |-> FALSE, closed |-> FALSE, seen |-> 0]

(* advance() from a step on: the steps that speak, and where it stops.     *)
(* free: an agent is there to take a handoff.                              *)
Walk(from, free) ==
  LET walk[n \in Steps \cup {None}] ==
        IF n = None THEN [said |-> <<"bot">>, stop |-> None]
        ELSE IF Flow[n].type = "message" \/ (Flow[n].type = "handoff" /\ ~free)
             THEN [walk[Flow[n].to["go"]] EXCEPT !.said = <<"bot">> \o @]
             ELSE [said |-> IF Flow[n].type = "handoff" THEN <<"system", "bot">> ELSE <<"bot">>,
                   stop |-> n]
  IN walk[from]

Advance(c, from, heard, free) ==
  LET w == Walk(from, free)
      handedOver == w.stop # None /\ Flow[w.stop].type = "handoff"
  IN [refused |-> FALSE, heard |-> heard, said |-> w.said,
      cursor |-> IF Asks(w.stop) THEN w.stop
                 ELSE IF w.stop # None /\ Flow[w.stop].type = "end" THEN None
                 ELSE c.cursor,
      live   |-> handedOver,
      closed |-> w.stop = None \/ w.stop \in Closing,
      node   |-> IF handedOver THEN LiveStep ELSE IF Asks(w.stop) THEN w.stop ELSE None]

Refused(c) == [refused |-> TRUE, heard |-> None, said |-> <<>>, cursor |-> c.cursor,
               live |-> FALSE, closed |-> FALSE, node |-> None]

(* handle(): a person's chat records what was typed and answers nothing (a *)
(* tapped option has no value, so it is dropped); without a cursor the     *)
(* flow starts again; an answer the current step does not accept is a 422. *)
FaultyHandleWithReceipt(c, reply, free) ==
  IF c.live
  THEN [refused |-> FALSE, heard |-> IF reply.tapped THEN None ELSE LiveStep, said |-> <<"bot">>,
        cursor |-> c.cursor, live |-> TRUE, closed |-> FALSE, node |-> LiveStep]
  ELSE IF c.cursor = None THEN Advance(c, Start, None, free)
  ELSE IF Accepts(c.cursor, reply.answer)
       THEN Advance(c, Flow[c.cursor].to[reply.answer], c.cursor, free)
  ELSE Refused(c)
Handle(c, reply, free) ==
  IF c.live
  THEN [refused |-> FALSE, heard |-> IF reply.tapped THEN None ELSE LiveStep, said |-> <<>>,
        cursor |-> c.cursor, live |-> TRUE, closed |-> FALSE, node |-> LiveStep]
  ELSE IF c.cursor = None THEN Advance(c, Start, None, free)
  ELSE IF Accepts(c.cursor, reply.answer)
       THEN Advance(c, Flow[c.cursor].to[reply.answer], c.cursor, free)
  ELSE Refused(c)

(* The question a reopened widget shows again.  *)
Current(c) == IF c.live \/ c.closed \/ ~Asks(c.cursor) THEN None ELSE c.cursor
=============================================================================
