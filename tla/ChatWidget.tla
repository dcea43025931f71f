----------------------------- MODULE ChatWidget -----------------------------
(***************************************************************************)
(* The visitor's chat widget (widget/embed.ts) against the server it talks *)
(* to.  The widget is one JavaScript thread: an action is a handler up to  *)
(* its first await, or what follows an answered one.  Requests are under   *)
(* way in a set and are served, lost, retried and answered in any order.   *)
(* The server handles a message in two steps, the conversation it loads    *)
(* and all it writes, because an agent may step in between (the assistant  *)
(* and webhook steps take seconds).                                        *)
(*                                                                         *)
(* A line is identified by its place in lines, as by its id in the code.   *)
(***************************************************************************)
EXTENDS ChatFlowEngine, FiniteSetsExt, Bags

CONSTANTS
  Answers,        \* what a visitor may say
  Takeover,       \* agents step into chats the script still drives
  Hasty,          \* the visitor closes or restarts while answers are due
  Lossy,          \* kinds of request whose answer may be lost on its way back
  MaxSends,       \* bound: replies the visitor sends
  MaxAgentLines,  \* bound: lines the agents write
  MaxFaults,      \* bound: requests or answers lost
  MaxOpens,       \* bound: times the panel is opened
  MaxPolls        \* bound: polls under way at once

ASSUME WidgetAssumption ==
  /\ Takeover \in BOOLEAN /\ Hasty \in BOOLEAN
  /\ Lossy \subseteq {"begin", "send", "poll", "restore"}
  /\ \A b \in {MaxSends, MaxAgentLines, MaxFaults, MaxOpens, MaxPolls} : b \in Nat

VARIABLES
  w,       \* the widget: the fields of class ChatWidget that decide anything
  calls,   \* its requests under way
  convs,   \* server: conversations by token
  lines,   \* server: their lines, in id order
  count    \* what the bounds count: sends, faults, opens

vars == <<w, calls, convs, lines, count>>

Tokens == 1..Len(convs)
LinesOf(c) == {i \in 1..Len(lines) : lines[i].conv = c}
AgentLines == {i \in 1..Len(lines) : lines[i].role = "agent"}

Init ==
  /\ w = [token |-> 0, open |-> FALSE, busy |-> FALSE, live |-> FALSE, shown |-> {}, last |-> 0,
          node |-> None, timer |-> FALSE, box |-> "off", log |-> EmptyBag, echoes |-> 0]
  /\ calls = {} /\ convs = <<>> /\ lines = <<>>
  /\ count = [sends |-> 0, faults |-> 0, opens |-> 0]

-----------------------------------------------------------------------------
(* Parts of the widget's handlers, as functions of the widget.             *)

(* The lines of an answer, drawn in id order: on screen (log) are the      *)
(* bubbles of each line, and those of replies drawn as they were sent      *)
(* (echoes), which the server numbers but never tells the widget of.       *)
FaultyIncomingAgain(u, ids) ==
  [u EXCEPT !.shown = @ \cup ids, !.last = Max(ids \cup {@}), !.log = @ (+) SetToBag(ids)]
FaultyIncomingAhead(u, ids) ==
  LET new == ids \ u.shown
  IN [u EXCEPT !.shown = @ \cup new, !.last = Max({i + 1 : i \in new} \cup {@}),
               !.log = @ (+) SetToBag(new)]
Incoming(u, ids) ==
  LET new == ids \ u.shown
  IN [u EXCEPT !.shown = @ \cup new, !.last = Max(new \cup {@}), !.log = @ (+) SetToBag(new)]

FaultyControlsUntimed(u, n) == [u EXCEPT !.node = n, !.box = "on"]
Controls(u, n) == [u EXCEPT !.timer = @ \/ u.token # 0, !.node = n, !.box = "on"]

Ended(u) == [u EXCEPT !.timer = FALSE, !.node = None, !.box = "ended"]

Fail(u) == [u EXCEPT !.timer = FALSE, !.node = None, !.box = "failed"]

FaultyKeepEcho(u) == u
RemoveEcho(u) == [u EXCEPT !.echoes = IF @ = 0 THEN 0 ELSE @ - 1]

Call(kind) == [kind |-> kind, conv |-> w.token, since |-> 0, answer |-> None, tapped |-> FALSE,
               asked |-> None, tries |-> 1, stage |-> "out", got |-> None]

Issue(call) == calls' = calls \cup {call}
Replace(r, new) == calls' = (calls \ {r}) \cup {new}
Done(r) == calls' = calls \ {r}

Calm == Hasty \/ calls = {}

-----------------------------------------------------------------------------
(* The visitor.  *)

OpenPanel ==
  /\ ~w.open /\ count.opens < MaxOpens
  /\ w' = [w EXCEPT !.open = TRUE, !.log = EmptyBag, !.echoes = 0, !.shown = {},
                    !.box = "off"]
  /\ Issue(Call(IF w.token = 0 THEN "begin" ELSE "restore"))
  /\ count' = [count EXCEPT !.opens = @ + 1]
  /\ UNCHANGED <<convs, lines>>

Close ==
  /\ w.open /\ Calm
  /\ w' = [w EXCEPT !.open = FALSE, !.timer = FALSE]
  /\ UNCHANGED <<calls, convs, lines, count>>

NewChat ==
  /\ w.open /\ w.box = "ended" /\ Calm /\ count.opens < MaxOpens
  /\ w' = [w EXCEPT !.token = 0, !.last = 0, !.live = FALSE, !.log = EmptyBag, !.echoes = 0,
                    !.shown = {}, !.box = "off"]
  /\ Issue([Call("begin") EXCEPT !.conv = 0])
  /\ count' = [count EXCEPT !.opens = @ + 1]
  /\ UNCHANGED <<convs, lines>>

(* submit() and the answer buttons, both through send().  *)
FaultySendWhileBusy(answer, tapped) ==
  /\ w.open /\ w.box = "on" /\ w.token # 0 /\ w.node # None /\ count.sends < MaxSends
  /\ tapped => Asks(w.node) /\ Flow[w.node].type = "choice" /\ Accepts(w.node, answer)
  /\ w' = [w EXCEPT !.busy = TRUE, !.echoes = @ + 1]
  /\ Issue([Call("send") EXCEPT !.answer = answer, !.tapped = tapped, !.asked = w.node])
  /\ count' = [count EXCEPT !.sends = @ + 1]
  /\ UNCHANGED <<convs, lines>>
Send(answer, tapped) ==
  /\ w.open /\ w.box = "on" /\ ~w.busy /\ w.token # 0 /\ w.node # None /\ count.sends < MaxSends
  /\ tapped => Asks(w.node) /\ Flow[w.node].type = "choice" /\ Accepts(w.node, answer)
  /\ w' = [w EXCEPT !.busy = TRUE, !.echoes = @ + 1]
  /\ Issue([Call("send") EXCEPT !.answer = answer, !.tapped = tapped, !.asked = w.node])
  /\ count' = [count EXCEPT !.sends = @ + 1]
  /\ UNCHANGED <<convs, lines>>

(* The interval fires: poll() up to its await.  Nothing keeps a second     *)
(* poll from starting while the first is still out.                        *)
PollTick ==
  /\ w.timer /\ w.token # 0 /\ w.open /\ ~w.busy
  /\ Cardinality({r \in calls : r.kind = "poll"}) < MaxPolls
  /\ Issue([Call("poll") EXCEPT !.since = w.last])
  /\ UNCHANGED <<w, convs, lines, count>>

-----------------------------------------------------------------------------
(* The server.  *)

NewLines(c, roles, step, asked) ==
  [k \in DOMAIN roles |-> [conv |-> c, role |-> roles[k], step |-> step, asked |-> asked]]

(* Ids of the lines the reply carries: those the engine said, and not the  *)
(* system line of a handoff.                                               *)
BotIds(from, roles) ==
  {from + k : k \in {k \in DOMAIN roles : roles[k] = "bot"}}

Got(ids, node, live, closed) == [ids |-> ids, node |-> node, live |-> live, closed |-> closed]

(* PublicChatController::start  *)
ServeBegin(r) ==
  /\ r.kind = "begin" /\ r.stage = "out"
  /\ \E free \in BOOLEAN :
       LET res == Advance(NewConversation, Start, None, free)
           c   == Len(convs) + 1
       IN /\ convs' = Append(convs, [cursor |-> res.cursor, live |-> res.live,
                                     closed |-> res.closed, seen |-> 0])
          /\ lines' = lines \o NewLines(c, res.said, None, None)
          /\ Replace(r, [r EXCEPT !.stage = "back", !.conv = c,
                           !.got = Got(BotIds(Len(lines), res.said), res.node, res.live, FALSE)])
  /\ UNCHANGED <<w, count>>

(* PublicChatController::message up to the engine: the row is loaded.      *)
LoadMessage(r) ==
  /\ r.kind = "send" /\ r.stage = "out"
  /\ Replace(r, IF convs[r.conv].closed THEN [r EXCEPT !.stage = "gone"]
                ELSE [r EXCEPT !.stage = "loaded", !.got = convs[r.conv]])
  /\ UNCHANGED <<w, convs, lines, count>>

(* A save writes what the handler changed, and leaves the rest of the row. *)
Saved(row, loaded, res) ==
  [row EXCEPT !.cursor = IF res.cursor = loaded.cursor THEN @ ELSE res.cursor,
              !.live = @ \/ res.live, !.closed = @ \/ res.closed]

(* The engine's writes and the answer, from the row as it was loaded.      *)
ApplyMessage(r) ==
  /\ r.kind = "send" /\ r.stage = "loaded"
  /\ \E free \in BOOLEAN :
       LET res   == Handle(r.got, r, free)
           heard == IF res.heard = None THEN <<>>
                    ELSE NewLines(r.conv, <<"visitor">>, res.heard, r.asked)
       IN /\ lines' = lines \o heard \o NewLines(r.conv, res.said, None, None)
          /\ convs' = [convs EXCEPT ![r.conv] = Saved(@, r.got, res)]
          /\ Replace(r, IF res.refused THEN [r EXCEPT !.stage = "refused", !.got = None]
                        ELSE [r EXCEPT !.stage = "back",
                                !.got = Got(BotIds(Len(lines \o heard), res.said),
                                            res.node, res.live, FALSE)])
  /\ UNCHANGED <<w, count>>

(* PublicChatController::poll, for the timer and for a reopened widget:    *)
(* only the transcript has the visitor's own lines.                        *)
ServePoll(r) ==
  /\ r.kind \in {"poll", "restore"} /\ r.stage = "out"
  /\ LET c   == convs[r.conv]
         ids == {i \in LinesOf(r.conv) : i > r.since /\ (r.kind = "restore" \/ lines[i].role # "visitor")}
         top == Max(ids \cup {r.since})
     IN /\ convs' = [convs EXCEPT ![r.conv].seen = IF top > @ THEN top ELSE @]
        /\ Replace(r, [r EXCEPT !.stage = "back",
                         !.got = Got(ids, Current(c), c.live, c.closed)])
  /\ UNCHANGED <<w, lines, count>>

(* ChatInboxController::reply  *)
AgentReplies(c) ==
  /\ Takeover \/ convs[c].live
  /\ Cardinality(AgentLines) < MaxAgentLines
  /\ lines' = lines \o NewLines(c, <<"agent">>, None, None)
  /\ convs' = [convs EXCEPT ![c].live = TRUE]
  /\ UNCHANGED <<w, calls, count>>

(* ChatInboxController::update, the status set to closed.  *)
AgentCloses(c) ==
  /\ convs[c].live /\ ~convs[c].closed
  /\ convs' = [convs EXCEPT ![c].closed = TRUE]
  /\ UNCHANGED <<w, calls, lines, count>>

-----------------------------------------------------------------------------
(* The network.  fetchWithRetry runs a request once more when it fails, on *)
(* the way there (or with a 500 before anything was done) or on the way    *)
(* back; the second failure is the caller's.                               *)

Attempted(r) == IF r.tries = 1 THEN [r EXCEPT !.tries = 2, !.stage = "out", !.got = None]
                ELSE [r EXCEPT !.stage = "dead", !.got = None]

LoseRequest(r) ==
  /\ r.stage = "out" /\ count.faults < MaxFaults
  /\ Replace(r, Attempted(r))
  /\ count' = [count EXCEPT !.faults = @ + 1]
  /\ UNCHANGED <<w, convs, lines>>

LoseAnswer(r) ==
  /\ r.stage \in {"back", "refused", "gone"} /\ r.kind \in Lossy
  /\ count.faults < MaxFaults
  /\ Replace(r, [Attempted(r) EXCEPT !.conv = IF r.kind = "begin" THEN 0 ELSE @])
  /\ count' = [count EXCEPT !.faults = @ + 1]
  /\ UNCHANGED <<w, convs, lines>>

-----------------------------------------------------------------------------
(* What follows an answered await.  *)

(* render(), once the pause before the first line is over.  *)
Rendered(u, got) ==
  LET drawn == [Incoming(u, got.ids) EXCEPT !.live = @ \/ got.live]
  IN IF got.node = None THEN Ended(drawn) ELSE Controls(drawn, got.node)

(* begin(): the token is kept at once, the greeting may take a moment.     *)
BeginAnswered(r) ==
  /\ r.kind = "begin" /\ r.stage = "back"
  /\ w' = [w EXCEPT !.token = r.conv]
  /\ Replace(r, [r EXCEPT !.stage = "typing"])
  /\ UNCHANGED <<convs, lines, count>>

BeginDrawn(r) ==
  /\ r.kind = "begin" /\ r.stage = "typing"
  /\ w' = Rendered(w, r.got)
  /\ Done(r)
  /\ UNCHANGED <<convs, lines, count>>

SendAnswered(r) ==
  /\ r.kind = "send" /\ r.stage = "back"
  /\ w' = [Rendered(w, r.got) EXCEPT !.busy = FALSE]
  /\ Done(r)
  /\ UNCHANGED <<convs, lines, count>>

(* 422: the reply is taken back and the question put up again.  *)
SendRefused(r) ==
  /\ r.kind = "send" /\ r.stage = "refused"
  /\ LET back == RemoveEcho(w)
     IN w' = [(IF w.node = None THEN back ELSE Controls(back, w.node)) EXCEPT !.busy = FALSE]
  /\ Done(r)
  /\ UNCHANGED <<convs, lines, count>>

PollAnswered(r) ==
  /\ r.kind = "poll" /\ r.stage = "back"
  /\ LET drawn == Incoming(w, r.got.ids)
         taken == IF r.got.live /\ ~w.live /\ ~r.got.closed
                  THEN Controls([drawn EXCEPT !.live = TRUE], LiveStep) ELSE drawn
     IN w' = IF r.got.closed THEN Ended(taken) ELSE taken
  /\ Done(r)
  /\ UNCHANGED <<convs, lines, count>>

RestoreAnswered(r) ==
  /\ r.kind = "restore" /\ r.stage = "back"
  /\ LET drawn == Incoming(w, r.got.ids)
     IN w' = IF r.got.live /\ ~r.got.closed THEN Controls([drawn EXCEPT !.live = TRUE], LiveStep)
             ELSE IF r.got.node # None /\ ~r.got.closed THEN Controls(drawn, r.got.node)
             ELSE Ended(drawn)
  /\ Done(r)
  /\ UNCHANGED <<convs, lines, count>>

(* Failed twice, or 410.  A poll that fails is let pass.  *)
FaultyCallFailedBusy(r) ==
  /\ r.stage \in {"dead", "gone"}
  /\ w' = IF r.kind = "poll" THEN w ELSE Fail(w)
  /\ Done(r)
  /\ UNCHANGED <<convs, lines, count>>
CallFailed(r) ==
  /\ r.stage \in {"dead", "gone"}
  /\ w' = IF r.kind = "poll" THEN w
          ELSE [Fail(w) EXCEPT !.busy = IF r.kind = "send" THEN FALSE ELSE @]
  /\ Done(r)
  /\ UNCHANGED <<convs, lines, count>>

-----------------------------------------------------------------------------
Answered(r) == \/ BeginAnswered(r) \/ BeginDrawn(r) \/ SendAnswered(r) \/ SendRefused(r)
               \/ PollAnswered(r) \/ RestoreAnswered(r) \/ CallFailed(r)
Served(r) == ServeBegin(r) \/ LoadMessage(r) \/ ApplyMessage(r) \/ ServePoll(r)

Next ==
  \/ OpenPanel \/ Close \/ NewChat \/ PollTick
  \/ \E answer \in Answers, tapped \in BOOLEAN : Send(answer, tapped)
  \/ \E r \in calls : Served(r) \/ LoseRequest(r) \/ LoseAnswer(r) \/ Answered(r)
  \/ \E c \in Tokens : AgentReplies(c) \/ AgentCloses(c)

(* The timer fires and requests are served, answered and acted on.         *)
(* Visitors, agents and the network owe nobody anything.                   *)
Fairness ==
  /\ WF_vars(PollTick)
  /\ WF_vars(\E r \in calls : Served(r))
  /\ WF_vars(\E r \in calls : Answered(r))

Spec == Init /\ [][Next]_vars /\ Fairness

-----------------------------------------------------------------------------
Kinds == {"begin", "send", "poll", "restore"}
StagesOf == [begin |-> {"out", "back", "typing", "dead"}, poll |-> {"out", "back", "dead"},
             send |-> {"out", "loaded", "back", "refused", "gone", "dead"},
             restore |-> {"out", "back", "dead"}]
Boxes == Steps \cup {None, LiveStep}
Ids == 1..Len(lines)

Conversation == [cursor : Steps \cup {None}, live : BOOLEAN, closed : BOOLEAN, seen : 0..Len(lines)]
Line == [conv : Tokens, role : {"bot", "system", "visitor", "agent"}, step : Boxes, asked : Boxes]
Answer == [ids : SUBSET Ids, node : Boxes, live : BOOLEAN, closed : BOOLEAN]
Request ==
  [kind : Kinds, conv : 0..Len(convs), since : 0..Len(lines), answer : Answers \cup {None},
   tapped : BOOLEAN, asked : Boxes, tries : {1, 2}, stage : UNION {StagesOf[k] : k \in Kinds},
   got : Conversation \cup Answer \cup {None}]

TypeOK ==
  /\ w \in [token : 0..Len(convs), open : BOOLEAN, busy : BOOLEAN, live : BOOLEAN,
            shown : SUBSET Ids, last : 0..Len(lines), node : Boxes, timer : BOOLEAN,
            box : {"off", "on", "ended", "failed"}, log : [w.shown -> Nat], echoes : Nat]
  /\ convs \in Seq(Conversation) /\ lines \in Seq(Line)
  /\ \A r \in calls : /\ r \in Request /\ r.stage \in StagesOf[r.kind]
                      /\ r.conv = 0 => r.kind = "begin" /\ r.stage \in {"out", "dead"}
                      /\ r.got \in IF r.stage = "loaded" THEN Conversation
                                  ELSE IF r.stage \in {"back", "typing"} THEN Answer ELSE {None}
  /\ count \in [sends : Nat, faults : Nat, opens : Nat]

(* Every line of the conversation stands in the log once, however many     *)
(* answers carried it.                                                     *)
DrawnOnce == \A i \in DOMAIN w.log : w.log[i] = 1

(* The widget only ever asks for lines after w.last, so an agent's line up *)
(* to it is on screen.                                                     *)
NothingSkipped ==
  w.box \in {"on", "ended"} => \A i \in AgentLines \cap LinesOf(w.token) : i <= w.last => i \in w.shown

(* What the visitor answered is kept as the answer to the question they    *)
(* were looking at.                                                        *)
AnswerFitsQuestion ==
  \A i \in 1..Len(lines) : lines[i].role = "visitor" => lines[i].step = lines[i].asked

(* A reply that stays on screen reached the server.  *)
EchoIsRecorded ==
  w.box = "on" =>
    w.echoes <= Cardinality({i \in LinesOf(w.token) \ w.shown : lines[i].role = "visitor"})
                + (IF w.busy THEN 1 ELSE 0)

(* What the team writes while the visitor has the conversation open is     *)
(* shown to them; of a chat that ended first, it is still due to be mailed.*)
Unread == (AgentLines \cap LinesOf(w.token)) \ w.shown

AgentLineArrives ==
  (w.open /\ w.box = "on" /\ Unread # {})
    ~> \/ ~w.open \/ w.box = "failed"
       \/ \A i \in Unread : w.box = "ended" /\ i > convs[w.token].seen

(* The visitor is never left waiting on a reply of their own.  *)
SendSettles == w.busy ~> ~w.busy
=============================================================================
