------------------------- MODULE ChatAnswersProofs -------------------------
(***************************************************************************)
(* What the visitor sees and says: no agent's line is skipped, an answer   *)
(* is kept for the question it was given to, and a reply that stays on     *)
(* screen reached the server.                                              *)
(*                                                                         *)
(* None of the three is inductive.  Solo says which requests can be under  *)
(* way together, Rows that a loaded row is still the row, and on them rest *)
(* Ordered (what an answer may leave out), Fitted (which question is       *)
(* asked), and Voiceless, Known and Echoed (which replies are on screen).  *)
(* Each is a predicate of the state it is about, so that its step lemma    *)
(* can be cited for the next state.                                        *)
(***************************************************************************)
EXTENDS ChatWidgetProofs

\* The visitor waits for what is due before closing or starting again, and
\* agents only write in chats a person has.
Patient == ~Takeover /\ ~Hasty

\* Which requests may be under way together, and the box they leave: begin
\* and restore are alone, a reply is one at a time, nothing is due to a
\* closed panel.
Solo(u, qs) ==
  /\ ~u.open => qs = {} /\ ~u.timer
  /\ \A r \in qs : r.kind \in {"begin", "restore"} => qs = {r} /\ u.box = "off"
  /\ \A r, s \in qs : r.kind = "send" /\ s.kind = "send" => r = s
  /\ u.busy => \E r \in qs : r.kind = "send"
  /\ \A r \in qs : r.kind = "send" => u.busy /\ u.box \in {"on", "ended"}
  /\ \A r \in qs : r.kind = "poll" => u.box # "off"
  /\ u.timer => u.box = "on"
  /\ u.box = "ended" => u.node = None
  /\ u.token = 0 => u.node = None /\ u.last = 0
  /\ \A r \in qs : r.kind = "begin" =>
       u.node = None /\ u.last = 0 /\ (r.stage = "typing" => r.conv = u.token)
  /\ \A r \in qs : r.kind # "begin" => r.conv = u.token

\* A request moved on, or lost: what is under way is of the same kinds.
LEMMA SoloMoved ==
  ASSUME TypeOK, Solo(w, calls), NEW r \in calls, NEW new, calls' = (calls \ {r}) \cup {new}, w' = w,
         new.kind = r.kind, r.kind # "begin" => new.conv = r.conv, new.stage # "typing"
  PROVE  Solo(w', calls')
  <1>1. \A s \in calls' : s = new \/ s \in calls
    OBVIOUS
  <1>2. \A s \in calls' : s.kind \in {"begin", "restore"} => calls' = {s} /\ w'.box = "off"
    BY DEF Solo
  <1>3. w.busy => \E s \in calls' : s.kind = "send"
    BY DEF Solo
  <1>4. \A s, t \in calls' : s.kind = "send" /\ t.kind = "send" => s = t
    BY DEF Solo
  <1> QED BY <1>1, <1>2, <1>3, <1>4 DEF Solo

LEMMA SoloStep ==
  ASSUME Patient, TypeOK, Solo(w, calls), [Next]_vars
  PROVE  Solo(w', calls')
  <1>1. CASE OpenPanel
    <2> DEFINE call == Call(IF w.token = 0 THEN "begin" ELSE "restore")
    <2>1. calls = {} /\ ~w.timer
      BY <1>1, PanelOpened DEF Solo
    <2>2. /\ call.kind = (IF w.token = 0 THEN "begin" ELSE "restore") /\ call.conv = w.token
          /\ call.stage = "out"
      BY DEF Call
    <2> HIDE DEF call
    <2>3. calls' = {call}
      BY <1>1, <2>1, PanelOpened DEF call
    <2> QED BY <1>1, <2>1, <2>2, <2>3, PanelOpened DEF Solo, Blank
  <1>2. CASE Close
    <2>1. calls = {}
      BY <1>2, PanelClosed DEF Patient, Calm
    <2> QED BY <1>2, <2>1, PanelClosed DEF Solo
  <1>3. CASE NewChat
    <2>1. calls = {}
      BY <1>3, ChatRestarted DEF Patient, Calm
    <2>2. PICK new : calls' = calls \cup {new} /\ new.kind = "begin" /\ new.stage = "out"
      BY <1>3, ChatRestarted
    <2> QED BY <1>3, <2>1, <2>2, ChatRestarted DEF Solo, Blank
  <1>4. CASE PollTick
    <2>1. PICK new : calls' = calls \cup {new} /\ new.kind = "poll" /\ new.conv = w.token
      BY <1>4, PollSent
    <2> QED BY <1>4, <2>1, PollSent DEF Solo
  <1>5. ASSUME NEW answer \in Answers, NEW tapped \in BOOLEAN, Send(answer, tapped)
        PROVE  Solo(w', calls')
    <2>1. PICK new : calls' = calls \cup {new} /\ new.kind = "send" /\ new.conv = w.token
      BY <1>5, ReplySent
    <2> QED BY <1>5, <2>1, ReplySent DEF Solo
  <1>6. ASSUME NEW r \in calls, Served(r)
        PROVE  Solo(w', calls')
    <2>1. CASE ServeBegin(r)
      <3>1. PICK new : Begun(r, new)
        BY <2>1, BeginServed
      <3> QED BY <3>1, SoloMoved DEF Begun
    <2>2. CASE LoadMessage(r)
      <3>1. PICK new : Loaded(r, new)
        BY <2>2, MessageLoaded
      <3> QED BY <3>1, SoloMoved DEF Loaded
    <2>3. CASE ApplyMessage(r)
      <3>1. PICK new : Applied(r, new)
        BY <2>3, MessageApplied
      <3>2. /\ calls' = (calls \ {r}) \cup {new} /\ w' = w /\ new.kind = r.kind
            /\ r.kind # "begin" => new.conv = r.conv
            /\ new.stage # "typing"
        BY <3>1 DEF Applied
      <3> QED BY <3>2, SoloMoved
    <2>4. CASE ServePoll(r)
      <3>1. PICK new : Polled(r, new)
        BY <2>4, PollServed
      <3> QED BY <3>1, SoloMoved DEF Polled
    <2> QED BY <1>6, <2>1, <2>2, <2>3, <2>4 DEF Served
  <1>7. ASSUME NEW r \in calls, LoseRequest(r) \/ LoseAnswer(r)
        PROVE  Solo(w', calls')
    <2>1. PICK new : Dropped(r, new)
      BY <1>7, CallDropped
    <2> QED BY <2>1, SoloMoved DEF Dropped
  <1>8. ASSUME NEW r \in calls, Answered(r)
        PROVE  Solo(w', calls')
    <2>1. CASE BeginAnswered(r)
      <3>1. PICK new : /\ calls' = (calls \ {r}) \cup {new}
                       /\ new.kind = "begin" /\ new.conv = r.conv /\ new.stage = "typing"
        BY <2>1, BeginKept
      <3>2. calls = {r} /\ w.box = "off" /\ ~w.timer /\ w.node = None /\ w.last = 0 /\ ~w.busy
        BY <2>1, BeginKept DEF Solo
      <3>3. calls' = {new}
        BY <3>1, <3>2
      <3> QED BY <2>1, <3>1, <3>2, <3>3, BeginKept DEF Solo
    <2>2. CASE BeginDrawn(r)
      <3>1. Kept(r) /\ r.kind = "begin" /\ r.stage = "typing" /\ Showing(w', w, r.got) /\ w'.busy = w.busy
        BY <2>2, BeginShown
      <3>2. calls = {r} /\ w.open /\ ~w.busy /\ r.conv = w.token /\ r.conv # 0
        BY <3>1, RequestFields DEF Solo
      <3>3. calls' = {}
        BY <3>1, <3>2 DEF Kept
      <3> QED BY <3>1, <3>2, <3>3 DEF Solo, Showing, Drawn
    <2>3. CASE SendAnswered(r)
      <3>1. Kept(r) /\ r.kind = "send" /\ Showing(w', w, r.got) /\ ~w'.busy
        BY <2>3, SendShown
      <3>2. r.conv = w.token /\ r.conv # 0 /\ w.open
        BY <3>1, RequestFields DEF Solo
      <3>3. \A s \in calls' : s \in calls /\ s.kind = "poll" /\ s.conv = w.token
        <4>1. \A s \in calls' : s \in calls /\ s # r
          BY <3>1 DEF Kept
        <4> QED BY <3>1, <4>1, RequestFields DEF Solo, Kinds
      <3> QED BY <3>1, <3>2, <3>3 DEF Solo, Showing, Drawn
    <2>4. CASE SendRefused(r)
      <3>1. Kept(r) /\ r.kind = "send"
        BY <2>4, SendTakenBack
      <3>2. r.conv = w.token /\ r.conv # 0 /\ w.open /\ w.box \in {"on", "ended"}
        BY <3>1, RequestFields DEF Solo
      <3>3. \A s \in calls' : s \in calls /\ s.kind = "poll" /\ s.conv = w.token
        <4>1. \A s \in calls' : s \in calls /\ s # r
          BY <3>1 DEF Kept
        <4> QED BY <3>1, <4>1, RequestFields DEF Solo, Kinds
      <3> QED BY <2>4, <3>2, <3>3, SendTakenBack DEF Solo
    <2>5. CASE PollAnswered(r)
      <3>1. Kept(r) /\ r.kind = "poll" /\ PollShows(r)
        BY <2>5, PollShown
      <3>2. r.conv = w.token /\ r.conv # 0 /\ w.open
        BY <3>1, RequestFields DEF Solo
      <3>3. \A s \in calls' : s \in calls /\ s.kind \in {"poll", "send"} /\ s.conv = w.token
        <4>1. \A s \in calls' : s \in calls /\ s # r
          BY <3>1 DEF Kept
        <4> QED BY <3>1, <4>1, RequestFields DEF Solo, Kinds
      <3>4. w.busy => \E s \in calls' : s.kind = "send"
        BY <3>1 DEF Solo, Kept
      <3>5. w'.token = w.token /\ w'.open = w.open /\ w'.busy = w.busy
        BY <3>1 DEF PollShows, Drawn
      <3>6. /\ w'.timer => w'.box = "on"
            /\ w'.box = "ended" => w'.node = None
            /\ w'.box # w.box => w'.box \in {"on", "ended"}
        BY <3>1 DEF PollShows, Solo
      <3> QED BY <3>1, <3>2, <3>3, <3>4, <3>5, <3>6 DEF Solo
    <2>6. CASE RestoreAnswered(r)
      <3>1. Kept(r) /\ r.kind = "restore" /\ RestoreShows(r)
        BY <2>6, RestoreShown
      <3>2. calls = {r} /\ w.open /\ ~w.busy /\ r.conv = w.token /\ r.conv # 0
        BY <3>1, RequestFields DEF Solo
      <3>3. calls' = {}
        BY <3>1, <3>2 DEF Kept
      <3> QED BY <3>1, <3>2, <3>3 DEF Solo, RestoreShows, Drawn
    <2>7. CASE CallFailed(r)
      <3>1. Kept(r) /\ FailureShows(r)
        BY <2>7, FailureShown
      <3>2. w.open
        BY DEF Solo
      <3>3. CASE r.kind \in {"begin", "restore"}
        <4>1. calls = {r} /\ ~w.busy
          BY <3>3 DEF Solo
        <4>2. calls' = {}
          BY <3>1, <4>1 DEF Kept
        <4> QED BY <3>1, <3>2, <3>3, <4>1, <4>2 DEF Solo, FailureShows
      <3>4. CASE r.kind = "send"
        <4>1. \A s \in calls' : s \in calls /\ s # r
          BY <3>1 DEF Kept
        <4>2. \A s \in calls' : s \in calls /\ s.kind = "poll" /\ s.conv = w.token
          BY <3>4, <4>1, RequestFields DEF Solo, Kinds
        <4> QED BY <3>1, <3>2, <3>4, <4>2 DEF Solo, FailureShows
      <3>5. CASE r.kind = "poll"
        <4>1. \A s \in calls' : s \in calls /\ s # r
          BY <3>1 DEF Kept
        <4>2. \A s \in calls' : s \in calls /\ s.kind \in {"poll", "send"}
          BY <3>5, <4>1, RequestFields DEF Solo, Kinds
        <4>3. w.busy => \E s \in calls' : s.kind = "send"
          BY <3>1, <3>5 DEF Solo, Kept
        <4>4. w' = w
          BY <3>1, <3>5 DEF FailureShows
        <4> QED BY <3>2, <4>1, <4>2, <4>3, <4>4 DEF Solo
      <3> QED BY <3>3, <3>4, <3>5, RequestFields DEF Kinds
    <2> QED BY <1>8, <2>1, <2>2, <2>3, <2>4, <2>5, <2>6, <2>7 DEF Answered
  <1>9. ASSUME NEW c \in Tokens, AgentReplies(c) \/ AgentCloses(c)
        PROVE  Solo(w', calls')
    <2>1. w' = w /\ calls' = calls
      BY <1>9 DEF AgentReplies, AgentCloses
    <2> QED BY <2>1
  <1>10. CASE UNCHANGED vars
    BY <1>10 DEF vars
  <1> QED BY <1>1, <1>2, <1>3, <1>4, <1>5, <1>6, <1>7, <1>8, <1>9, <1>10 DEF Next

-----------------------------------------------------------------------------
\* A row that was loaded is the row there still is, where it says who has
\* the chat and where the script is; a chat with an agent's line in it is
\* a person's.
Rows(qs, cs, ls) ==
  /\ \A r \in qs : r.stage = "loaded" =>
       r.got.cursor = cs[r.conv].cursor /\ (r.got.live <=> cs[r.conv].live)
  /\ \A i \in 1..Len(ls) : ls[i].role = "agent" => cs[ls[i].conv].live

LEMMA LineTypes ==
  ASSUME TypeOK
  PROVE  \A i \in 1..Len(lines) : lines[i].conv \in 1..Len(convs)
  <1>1. lines \in Seq(LineOf(Len(convs)))
    BY TypeParts
  <1>2. \A i \in 1..Len(lines) : lines[i] \in LineOf(Len(convs))
    BY <1>1, ElementOfSeq
  <1> QED BY <1>2 DEF LineOf

\* Where the lines and the rows stand, and nothing was loaded.
LEMMA RowsSame ==
  ASSUME TypeOK, Rows(calls, convs, lines), UNCHANGED lines, Len(convs') = Len(convs),
         \A d \in 1..Len(convs) : convs'[d].cursor = convs[d].cursor /\ (convs'[d].live <=> convs[d].live),
         \A r \in calls' : r \in calls \/ r.stage # "loaded"
  PROVE  Rows(calls', convs', lines')
  <1>1. \A r \in calls : r.stage = "loaded" => r.conv \in 1..Len(convs)
    <2> SUFFICES ASSUME NEW r \in calls, r.stage = "loaded" PROVE r.conv \in 1..Len(convs)
      OBVIOUS
    <2>1. r.conv \in 0..Len(convs) /\ r.conv # 0 /\ Len(convs) \in Nat
      BY RequestFields
    <2> QED BY <2>1
  <1>2. \A r \in calls' : r.stage = "loaded" =>
          r.got.cursor = convs'[r.conv].cursor /\ (r.got.live <=> convs'[r.conv].live)
    BY <1>1 DEF Rows
  <1>3. \A i \in 1..Len(lines) : lines[i].role = "agent" => convs'[lines[i].conv].live
    BY LineTypes DEF Rows
  <1> QED BY <1>2, <1>3 DEF Rows

\* Where lines are added, none of them an agent's, and rows keep who has
\* the chat; nothing is loaded afterwards.
LEMMA RowsAdded ==
  ASSUME TypeOK, Rows(calls, convs, lines), NEW c, NEW roles, Adds(c, roles), "agent" \notin roles,
         \A d \in 1..Len(convs) : convs[d].live => convs'[d].live,
         \A r \in calls' : r.stage # "loaded"
  PROVE  Rows(calls', convs', lines')
  <1>1. \A i \in 1..Len(lines') : lines'[i].role = "agent" => i \in 1..Len(lines) /\ lines'[i] = lines[i]
    <2>1. Len(lines) \in Nat /\ Len(lines') \in Nat
      BY TypeParts DEF Adds
    <2>2. \A i \in 1..Len(lines') : i \in 1..Len(lines) \/ i > Len(lines)
      BY <2>1
    <2> QED BY <2>2 DEF Adds
  <1>2. \A i \in 1..Len(lines') : lines'[i].role = "agent" => convs'[lines'[i].conv].live
    BY <1>1, LineTypes DEF Rows
  <1> QED BY <1>2 DEF Rows

LEMMA RowsStep ==
  ASSUME Patient, TypeOK, Solo(w, calls), Rows(calls, convs, lines), [Next]_vars
  PROVE  Rows(calls', convs', lines')
  <1> DEFINE Same == UNCHANGED <<convs, lines>> /\ \A r \in calls' : r \in calls \/ r.stage # "loaded"
  <1>s. Same => Rows(calls', convs', lines')
    BY RowsSame
  <1>1. CASE OpenPanel
    <2>1. \A k : Call(k).stage = "out"
      BY DEF Call
    <2> QED BY <1>s, <1>1, <2>1, PanelOpened
  <1>2. CASE Close
    BY <1>s, <1>2, PanelClosed
  <1>3. CASE NewChat
    BY <1>s, <1>3, ChatRestarted
  <1>4. CASE PollTick
    BY <1>s, <1>4, PollSent
  <1>5. ASSUME NEW answer \in Answers, NEW tapped \in BOOLEAN, Send(answer, tapped)
        PROVE  Rows(calls', convs', lines')
    BY <1>s, <1>5, ReplySent
  <1>6. ASSUME NEW r \in calls, Served(r)
        PROVE  Rows(calls', convs', lines')
    <2>1. CASE ServeBegin(r)
      <3>1. PICK new : Begun(r, new)
        BY <2>1, BeginServed
      <3>2. calls = {r} /\ r.stage = "out"
        BY <3>1 DEF Begun, Solo
      <3>3. \A s \in calls' : s.stage # "loaded"
        BY <3>1, <3>2 DEF Begun
      <3>4. \A d \in 1..Len(convs) : convs[d].live => convs'[d].live
        BY <3>1 DEF Begun
      <3> QED BY <3>1, <3>3, <3>4, RowsAdded DEF Begun
    <2>2. CASE LoadMessage(r)
      <3>1. PICK new : Loaded(r, new)
        BY <2>2, MessageLoaded
      <3> QED BY <3>1 DEF Loaded, Rows
    <2>3. CASE ApplyMessage(r)
      <3>1. PICK new : Applied(r, new)
        BY <2>3, MessageApplied
      <3>2. \A s \in calls' : s.stage # "loaded"
        <4>1. \A s \in calls : s.stage = "loaded" => s = r
          BY <3>1, RequestFields DEF Applied, Solo
        <4>2. \A s \in calls' : s = new \/ (s \in calls /\ s # r)
          BY <3>1 DEF Applied
        <4> QED BY <3>1, <4>1, <4>2 DEF Applied
      <3>3. \A d \in 1..Len(convs) : convs[d].live => convs'[d].live
        BY <3>1 DEF Applied
      <3> QED BY <3>1, <3>2, <3>3, RowsAdded DEF Applied
    <2>4. CASE ServePoll(r)
      <3>1. PICK new : Polled(r, new)
        BY <2>4, PollServed
      <3>2. \A s \in calls' : s \in calls \/ s.stage # "loaded"
        BY <3>1 DEF Polled
      <3>3. \A d \in 1..Len(convs) : convs'[d].cursor = convs[d].cursor /\ (convs'[d].live <=> convs[d].live)
        BY <3>1 DEF Polled
      <3> QED BY <3>1, <3>2, <3>3, RowsSame DEF Polled
    <2> QED BY <1>6, <2>1, <2>2, <2>3, <2>4 DEF Served
  <1>7. ASSUME NEW r \in calls, LoseRequest(r) \/ LoseAnswer(r)
        PROVE  Rows(calls', convs', lines')
    <2>1. PICK new : Dropped(r, new)
      BY <1>7, CallDropped
    <2> QED BY <1>s, <2>1 DEF Dropped
  <1>8. ASSUME NEW r \in calls, Answered(r)
        PROVE  Rows(calls', convs', lines')
    <2>1. CASE BeginAnswered(r)
      BY <1>s, <2>1, BeginKept
    <2>2. ~BeginAnswered(r) => calls' = calls \ {r}
      BY <1>8 DEF Answered, BeginAnswered, BeginDrawn, SendAnswered, SendRefused, PollAnswered,
                  RestoreAnswered, CallFailed, Done
    <2>3. UNCHANGED <<convs, lines>>
      BY <1>8 DEF Answered, BeginAnswered, BeginDrawn, SendAnswered, SendRefused, PollAnswered,
                  RestoreAnswered, CallFailed
    <2> QED BY <1>s, <2>1, <2>2, <2>3
  <1>9. ASSUME NEW c \in Tokens, AgentReplies(c)
        PROVE  Rows(calls', convs', lines')
    <2>1. AgentWrites(c) /\ convs[c].live
      BY <1>9, AgentWrote DEF Patient
    <2>2. \A d \in 1..Len(convs) : convs'[d].cursor = convs[d].cursor /\ (convs'[d].live <=> convs[d].live)
      BY <2>1 DEF AgentWrites
    <2>3. \A r \in calls : r.stage = "loaded" => r.conv \in 1..Len(convs)
      <3> SUFFICES ASSUME NEW r \in calls, r.stage = "loaded" PROVE r.conv \in 1..Len(convs)
        OBVIOUS
      <3>1. r.conv \in 0..Len(convs) /\ r.conv # 0 /\ Len(convs) \in Nat
        BY RequestFields
      <3> QED BY <3>1
    <2>4. \A i \in 1..Len(lines') : lines'[i].role = "agent" => convs'[lines'[i].conv].live
      <3>1. Len(lines) \in Nat /\ Len(lines') \in Nat
        BY <2>1, TypeParts DEF AgentWrites, Adds
      <3>2. \A i \in 1..Len(lines') : i \in 1..Len(lines) \/ i > Len(lines)
        BY <3>1
      <3>3. \A i \in 1..Len(lines) : lines'[i] = lines[i] /\ (lines[i].role = "agent" => convs'[lines[i].conv].live)
        BY <2>1, <2>2, LineTypes DEF AgentWrites, Adds, Rows
      <3>4. \A i \in 1..Len(lines') : i > Len(lines) => lines'[i].conv = c
        BY <2>1 DEF AgentWrites, Adds
      <3>5. convs'[c].live
        BY <2>1, <2>2 DEF Tokens
      <3> QED BY <3>2, <3>3, <3>4, <3>5
    <2>5. calls' = calls
      BY <2>1 DEF AgentWrites
    <2>6. \A r \in calls' : r.stage = "loaded" =>
            r.got.cursor = convs'[r.conv].cursor /\ (r.got.live <=> convs'[r.conv].live)
      BY <2>2, <2>3, <2>5 DEF Rows
    <2> QED BY <2>4, <2>6 DEF Rows
  <1>10. ASSUME NEW c \in Tokens, AgentCloses(c)
         PROVE  Rows(calls', convs', lines')
    <2>1. /\ UNCHANGED <<calls, lines>> /\ Len(convs') = Len(convs)
          /\ \A d \in 1..Len(convs) : convs'[d].cursor = convs[d].cursor /\ (convs'[d].live <=> convs[d].live)
      BY <1>10, AgentClosed
    <2>2. \A r \in calls' : r \in calls
      BY <2>1
    <2> QED BY <2>1, <2>2, RowsSame
  <1>11. CASE UNCHANGED vars
    BY <1>11 DEF vars
  <1> QED BY <1>1, <1>2, <1>3, <1>4, <1>5, <1>6, <1>7, <1>8, <1>9, <1>10, <1>11 DEF Next

-----------------------------------------------------------------------------
(* No line of an agent is passed over.                                     *)

AgentsIn(ls, c) == {i \in 1..Len(ls) : ls[i].role = "agent" /\ ls[i].conv = c}
Seen(u, ls) == \A i \in AgentsIn(ls, u.token) : i <= u.last => i \in u.shown

\* The answer to r leaves out no agent's line before one it carries, and
\* the transcript none there was.
InTurn(r, last, agents) ==
  \A i \in agents :
    /\ \A j \in r.got.ids : i <= j => i \in r.got.ids \/ (r.kind = "poll" /\ i <= r.since)
    /\ r.kind = "restore" /\ i <= last => i \in r.got.ids

Ordered(u, qs, ls) ==
  /\ u.box \in {"on", "ended"} => Seen(u, ls)
  /\ \A r \in qs : r.kind = "poll" => Seen(u, ls)
  /\ \A r \in qs : r.since <= u.last /\ (r.kind # "poll" => r.since = 0)
  /\ \A r \in qs : r.stage \in {"back", "typing"} => InTurn(r, u.last, AgentsIn(ls, r.conv))

LEMMA AgentsKept ==
  ASSUME TypeOK, NEW c, NEW roles, Adds(c, roles), "agent" \notin roles
  PROVE  \A d : AgentsIn(lines', d) = AgentsIn(lines, d)
  <1>1. Len(lines) \in Nat /\ Len(lines') \in Nat /\ Len(lines) <= Len(lines')
    BY TypeParts DEF Adds
  <1>2. \A i \in 1..Len(lines) : i \in 1..Len(lines') /\ lines'[i] = lines[i]
    BY <1>1 DEF Adds
  <1>3. \A i \in 1..Len(lines') : lines'[i].role = "agent" => i \in 1..Len(lines)
    <2>1. \A i \in 1..Len(lines') : i \in 1..Len(lines) \/ i > Len(lines)
      BY <1>1
    <2> QED BY <2>1 DEF Adds
  <1> QED BY <1>2, <1>3 DEF AgentsIn

\* A request moved on, the screen as it was.
LEMMA OrderedMoved ==
  ASSUME Ordered(w, calls, lines), NEW r \in calls, NEW new, calls' = (calls \ {r}) \cup {new}, w' = w,
         new.kind = r.kind, new.since = r.since, \A d : AgentsIn(lines', d) = AgentsIn(lines, d),
         new.stage \in {"back", "typing"} => InTurn(new, w.last, AgentsIn(lines, new.conv))
  PROVE  Ordered(w', calls', lines')
  <1>1. \A s \in calls' : s = new \/ s \in calls
    OBVIOUS
  <1>2. Seen(w', lines') <=> Seen(w, lines)
    BY DEF Seen
  <1> QED BY <1>1, <1>2 DEF Ordered

\* The lines of an answer drawn, when it and the screen leave none out.
LEMMA SeenDrawn ==
  ASSUME NEW ids, Drawn(w', w, ids), UNCHANGED lines,
         \A i \in AgentsIn(lines, w.token) :
           /\ i <= w.last => i \in w.shown \cup ids
           /\ \A j \in ids : i <= j => i \in w.shown \cup ids
  PROVE  Seen(w', lines')
  BY DEF Seen, Drawn

\* An answer acted on, or a call given up: what is left is in turn.
LEMMA OrderedTaken ==
  ASSUME TypeOK, TypeOK', Ordered(w, calls, lines), NEW r \in calls, Kept(r), w'.last >= w.last,
         \A s \in calls' : s.kind # "restore",
         w'.box \in {"on", "ended"} \/ (\E s \in calls' : s.kind = "poll") => Seen(w', lines')
  PROVE  Ordered(w', calls', lines')
  <1>1. \A s \in calls' : s \in calls
    BY DEF Kept
  <1>2. lines' = lines
    BY DEF Kept
  <1>3. \A s \in calls' : s.since <= w'.last
    <2>1. w.last \in Nat /\ w'.last \in Nat
      BY TypeParts, TypePartsNext DEF WidgetOf
    <2>2. \A s \in calls' : s.since \in Nat
      BY <1>1, RequestFields
    <2> QED BY <1>1, <2>1, <2>2 DEF Ordered
  <1>4. \A s \in calls' : s.stage \in {"back", "typing"} => InTurn(s, w'.last, AgentsIn(lines', s.conv))
    BY <1>1, <1>2 DEF Ordered, InTurn
  <1> QED BY <1>1, <1>3, <1>4 DEF Ordered

\* Where the server writes no agent's line, and w stays: one request moves.
LEMMA OrderedServed ==
  ASSUME TypeOK, Solo(w, calls), Rows(calls, convs, lines), Ordered(w, calls, lines),
         NEW r \in calls, Served(r)
  PROVE  Ordered(w', calls', lines')
  <1>1. CASE ServeBegin(r)
    <2>1. PICK new : Begun(r, new)
      BY <1>1, BeginServed
    <2>2. \A d : AgentsIn(lines', d) = AgentsIn(lines, d)
      BY <2>1, AgentsKept DEF Begun
    <2>3. AgentsIn(lines, new.conv) = {}
      <3>1. new.conv = Len(convs) + 1 /\ Len(convs) \in Nat
        BY <2>1, TypeParts DEF Begun
      <3>2. \A i \in 1..Len(lines) : lines[i].conv # new.conv
        BY <3>1, LineTypes
      <3> QED BY <3>2 DEF AgentsIn
    <2>4. w' = w /\ new.kind = r.kind /\ new.since = r.since /\ calls' = (calls \ {r}) \cup {new}
      BY <2>1 DEF Begun
    <2> QED BY <2>2, <2>3, <2>4, OrderedMoved DEF InTurn
  <1>2. CASE LoadMessage(r)
    <2>1. PICK new : Loaded(r, new)
      BY <1>2, MessageLoaded
    <2>2. /\ w' = w /\ new.kind = r.kind /\ new.since = r.since /\ calls' = (calls \ {r}) \cup {new}
          /\ lines' = lines /\ new.stage \notin {"back", "typing"}
      BY <2>1 DEF Loaded
    <2> QED BY <2>2, OrderedMoved
  <1>3. CASE ApplyMessage(r)
    <2>1. PICK new : Applied(r, new)
      BY <1>3, MessageApplied
    <2>2. \A d : AgentsIn(lines', d) = AgentsIn(lines, d)
      BY <2>1, AgentsKept DEF Applied
    <2>3. /\ w' = w /\ new.kind = r.kind /\ new.since = r.since /\ calls' = (calls \ {r}) \cup {new}
          /\ new.conv = r.conv /\ new.kind = "send"
      BY <2>1 DEF Applied
    <2>4. new.stage \in {"back", "typing"} => InTurn(new, w.last, AgentsIn(lines, new.conv))
      <3> SUFFICES ASSUME new.stage \in {"back", "typing"}, NEW i \in AgentsIn(lines, new.conv)
                   PROVE  new.got.ids = {}
        BY <2>3 DEF InTurn
      <3>1. convs[new.conv].live
        BY DEF AgentsIn, Rows
      <3>2. r.got.live
        BY <2>1, <2>3, <3>1 DEF Rows, Applied
      <3> QED BY <2>1, <3>2 DEF Applied
    <2> QED BY <2>2, <2>3, <2>4, OrderedMoved
  <1>4. CASE ServePoll(r)
    <2>1. PICK new : Polled(r, new)
      BY <1>4, PollServed
    <2>2. /\ w' = w /\ new.kind = r.kind /\ new.since = r.since /\ calls' = (calls \ {r}) \cup {new}
          /\ new.conv = r.conv /\ lines' = lines
      BY <2>1 DEF Polled
    <2>3. \A i \in AgentsIn(lines, r.conv) : i > r.since => i \in new.got.ids
      BY <2>1 DEF AgentsIn, Polled
    <2>4. \A i \in AgentsIn(lines, r.conv) : i \in new.got.ids \/ (new.kind = "poll" /\ i <= r.since)
      <3>1. r.since \in Nat /\ Len(lines) \in Nat
        BY RequestFields
      <3>2. \A i \in AgentsIn(lines, r.conv) : i \in 1..Len(lines)
        BY DEF AgentsIn
      <3>3. \A i \in AgentsIn(lines, r.conv) : i > r.since \/ i <= r.since
        BY <3>1, <3>2
      <3>4. new.kind # "poll" => r.since = 0
        BY <2>2 DEF Ordered
      <3>5. \A i \in AgentsIn(lines, r.conv) : i > 0
        BY <3>1, <3>2
      <3> QED BY <2>3, <3>3, <3>4, <3>5
    <2>5. InTurn(new, w.last, AgentsIn(lines, new.conv))
      BY <2>2, <2>4 DEF InTurn
    <2> QED BY <2>2, <2>5, OrderedMoved
  <1> QED BY <1>1, <1>2, <1>3, <1>4 DEF Served

LEMMA OrderedAnswered ==
  ASSUME TypeOK, TypeOK', Solo(w, calls), Ordered(w, calls, lines), NEW r \in calls, Answered(r)
  PROVE  Ordered(w', calls', lines')
  <1>0. w.last \in Nat /\ w'.last \in Nat /\ Len(lines) \in Nat
    BY TypeParts, TypePartsNext DEF WidgetOf
  <1>1. CASE BeginAnswered(r)
    <2>1. PICK new : /\ calls' = (calls \ {r}) \cup {new} /\ new.kind = "begin" /\ new.conv = r.conv
                     /\ new.since = r.since /\ new.stage = "typing" /\ new.got = r.got
      BY <1>1, BeginKept
    <2>2. calls = {r} /\ w.box = "off" /\ r.stage = "back" /\ r.kind = "begin"
      BY <1>1, BeginKept DEF Solo
    <2>3. calls' = {new}
      BY <2>1, <2>2
    <2>4. InTurn(new, w.last, AgentsIn(lines, new.conv))
      BY <2>1, <2>2 DEF Ordered, InTurn
    <2>5. w'.last = w.last /\ w'.box = w.box /\ lines' = lines
      BY <1>1, BeginKept
    <2> QED BY <2>1, <2>2, <2>3, <2>4, <2>5 DEF Ordered
  <1>2. CASE BeginDrawn(r)
    <2>1. Kept(r) /\ r.kind = "begin" /\ r.stage = "typing" /\ Drawn(w', w, r.got.ids)
      BY <1>2, BeginShown DEF Showing
    <2>2. calls = {r} /\ w.last = 0 /\ r.conv = w.token
      BY <2>1 DEF Solo
    <2>3. \A i \in AgentsIn(lines, w.token) :
            /\ i <= w.last => i \in w.shown \cup r.got.ids
            /\ \A j \in r.got.ids : i <= j => i \in w.shown \cup r.got.ids
      <3>1. \A i \in AgentsIn(lines, w.token) : ~(i <= 0)
        BY <1>0 DEF AgentsIn
      <3> QED BY <2>1, <2>2, <3>1 DEF Ordered, InTurn
    <2>4. Seen(w', lines')
      BY <2>1, <2>3, SeenDrawn DEF Kept
    <2>5. w'.last >= w.last
      BY <1>0, <2>1 DEF Drawn
    <2>6. calls' = {}
      BY <2>1, <2>2 DEF Kept
    <2> QED BY <2>1, <2>4, <2>5, <2>6, OrderedTaken
  <1>3. CASE SendAnswered(r)
    <2>1. Kept(r) /\ r.kind = "send" /\ r.stage = "back" /\ Drawn(w', w, r.got.ids)
      BY <1>3, SendShown DEF Showing
    <2>2. r.conv = w.token /\ Seen(w, lines) /\ \A s \in calls' : s.kind # "restore"
      BY <2>1 DEF Solo, Ordered, Kept
    <2>3. \A i \in AgentsIn(lines, w.token) :
            /\ i <= w.last => i \in w.shown \cup r.got.ids
            /\ \A j \in r.got.ids : i <= j => i \in w.shown \cup r.got.ids
      BY <2>1, <2>2 DEF Ordered, InTurn, Seen
    <2>4. Seen(w', lines')
      BY <2>1, <2>3, SeenDrawn DEF Kept
    <2>5. w'.last >= w.last
      BY <1>0, <2>1 DEF Drawn
    <2> QED BY <2>1, <2>2, <2>4, <2>5, OrderedTaken
  <1>4. CASE SendRefused(r)
    <2>1. /\ Kept(r) /\ r.kind = "send" /\ w'.token = w.token /\ w'.last = w.last
          /\ w'.shown = w.shown
      BY <1>4, SendTakenBack
    <2>2. Seen(w, lines) /\ \A s \in calls' : s.kind # "restore"
      BY <2>1 DEF Solo, Ordered, Kept
    <2>3. Seen(w', lines')
      BY <2>1, <2>2 DEF Seen, Kept
    <2>4. w'.last >= w.last
      BY <1>0, <2>1
    <2> QED BY <2>1, <2>2, <2>3, <2>4, OrderedTaken
  <1>5. CASE PollAnswered(r)
    <2>1. Kept(r) /\ r.kind = "poll" /\ r.stage = "back" /\ Drawn(w', w, r.got.ids)
      BY <1>5, PollShown DEF PollShows
    <2>2. r.conv = w.token /\ Seen(w, lines) /\ \A s \in calls' : s.kind # "restore"
      BY <2>1 DEF Solo, Ordered, Kept
    <2>3. \A i \in AgentsIn(lines, w.token) :
            /\ i <= w.last => i \in w.shown \cup r.got.ids
            /\ \A j \in r.got.ids : i <= j => i \in w.shown \cup r.got.ids
      <3>1. \A i \in AgentsIn(lines, w.token) : i <= w.last => i \in w.shown
        BY <2>2 DEF Seen
      <3>2. \A i \in AgentsIn(lines, w.token) : i <= r.since => i <= w.last
        <4>1. r.since \in Nat /\ r.since <= w.last
          BY RequestFields DEF Ordered
        <4>2. \A i \in AgentsIn(lines, w.token) : i \in Nat
          BY <1>0 DEF AgentsIn
        <4> QED BY <1>0, <4>1, <4>2
      <3>3. InTurn(r, w.last, AgentsIn(lines, w.token))
        BY <2>1, <2>2 DEF Ordered
      <3> QED BY <3>1, <3>2, <3>3 DEF InTurn
    <2>4. Seen(w', lines')
      BY <2>1, <2>3, SeenDrawn DEF Kept
    <2>5. w'.last >= w.last
      BY <1>0, <2>1 DEF Drawn
    <2> QED BY <2>1, <2>2, <2>4, <2>5, OrderedTaken
  <1>6. CASE RestoreAnswered(r)
    <2>1. Kept(r) /\ r.kind = "restore" /\ r.stage = "back" /\ Drawn(w', w, r.got.ids)
      BY <1>6, RestoreShown DEF RestoreShows
    <2>2. calls = {r} /\ r.conv = w.token
      BY <2>1 DEF Solo
    <2>3. \A i \in AgentsIn(lines, w.token) :
            /\ i <= w.last => i \in w.shown \cup r.got.ids
            /\ \A j \in r.got.ids : i <= j => i \in w.shown \cup r.got.ids
      BY <2>1, <2>2 DEF Ordered, InTurn
    <2>4. Seen(w', lines')
      BY <2>1, <2>3, SeenDrawn DEF Kept
    <2>5. w'.last >= w.last
      BY <1>0, <2>1 DEF Drawn
    <2>6. calls' = {}
      BY <2>1, <2>2 DEF Kept
    <2> QED BY <2>1, <2>4, <2>5, <2>6, OrderedTaken
  <1>7. CASE CallFailed(r)
    <2>1. Kept(r) /\ FailureShows(r)
      BY <1>7, FailureShown
    <2>2. w'.token = w.token /\ w'.last = w.last /\ w'.shown = w.shown /\ lines' = lines
      BY <2>1 DEF FailureShows, Kept
    <2>3. Seen(w', lines') <=> Seen(w, lines)
      BY <2>2 DEF Seen
    <2>4. \A s \in calls' : s \in calls /\ s.kind # "restore"
      BY <2>1 DEF Solo, Kept
    <2>5. w'.box \in {"on", "ended"} \/ (\E s \in calls' : s.kind = "poll") => Seen(w, lines)
      <3>1. w'.box \in {"on", "ended"} => w.box \in {"on", "ended"}
        BY <2>1 DEF FailureShows
      <3> QED BY <2>4, <3>1 DEF Ordered
    <2>6. w'.last >= w.last
      BY <1>0, <2>2
    <2> QED BY <2>1, <2>3, <2>4, <2>5, <2>6, OrderedTaken
  <1> QED BY <1>1, <1>2, <1>3, <1>4, <1>5, <1>6, <1>7 DEF Answered

\* An agent's line is after everything drawn, asked for or answered so far.
LEMMA OrderedWritten ==
  ASSUME TypeOK, Ordered(w, calls, lines), NEW c \in Tokens, AgentWrites(c)
  PROVE  Ordered(w', calls', lines')
  <1>1. w.last \in 0..Len(lines) /\ Len(lines) \in Nat
    BY TypeParts DEF WidgetOf
  <1>2. \A d : \A i \in AgentsIn(lines', d) : i \in AgentsIn(lines, d) \/ i = Len(lines) + 1
    <2>1. \A i \in 1..Len(lines') : i \in 1..Len(lines) \/ i = Len(lines) + 1
      BY <1>1 DEF AgentWrites
    <2> QED BY <2>1 DEF AgentsIn, AgentWrites, Adds
  <1>3. w' = w /\ calls' = calls
    BY DEF AgentWrites
  <1>4. Seen(w, lines) => Seen(w', lines')
    BY <1>1, <1>2, <1>3 DEF Seen
  <1>5. ASSUME NEW r \in calls, r.stage \in {"back", "typing"}
        PROVE  InTurn(r, w.last, AgentsIn(lines', r.conv))
    <2>1. \A j \in r.got.ids : j \in 1..Len(lines)
      BY <1>5, RequestFields DEF AnswerOf
    <2>2. \A j \in r.got.ids : ~(Len(lines) + 1 <= j)
      BY <1>1, <2>1
    <2>3. InTurn(r, w.last, AgentsIn(lines, r.conv))
      BY <1>5 DEF Ordered
    <2>4. ~(Len(lines) + 1 <= w.last)
      BY <1>1
    <2> QED BY <1>2, <2>2, <2>3, <2>4 DEF InTurn
  <1> QED BY <1>3, <1>4, <1>5 DEF Ordered

LEMMA OrderedStep ==
  ASSUME Patient, TypeOK, Solo(w, calls), Rows(calls, convs, lines), Ordered(w, calls, lines), [Next]_vars
  PROVE  Ordered(w', calls', lines')
  <1>t. TypeOK' /\ w.last \in Nat
    BY TypeStep, TypeParts DEF WidgetOf
  <1>1. CASE OpenPanel
    <2> DEFINE call == Call(IF w.token = 0 THEN "begin" ELSE "restore")
    <2>1. calls = {}
      BY <1>1, PanelOpened DEF Solo
    <2>2. call.kind # "poll" /\ call.stage = "out" /\ call.since = 0
      BY DEF Call
    <2> HIDE DEF call
    <2>3. calls' = {call}
      BY <1>1, <2>1, PanelOpened DEF call
    <2>4. w'.box = "off" /\ w'.last = w.last
      BY <1>1, PanelOpened DEF Blank
    <2> QED BY <1>t, <2>2, <2>3, <2>4 DEF Ordered
  <1>2. CASE Close
    <2>1. /\ calls' = calls /\ lines' = lines /\ w'.box = w.box /\ w'.last = w.last
          /\ w'.token = w.token /\ w'.shown = w.shown
      BY <1>2, PanelClosed
    <2> QED BY <2>1 DEF Ordered, Seen
  <1>3. CASE NewChat
    <2>1. calls = {}
      BY <1>3, ChatRestarted DEF Patient, Calm
    <2>2. PICK new : calls' = calls \cup {new} /\ new.kind = "begin" /\ new.stage = "out" /\ new.since = 0
      BY <1>3, ChatRestarted
    <2>3. w'.box = "off" /\ w'.last = 0
      BY <1>3, ChatRestarted DEF Blank
    <2> QED BY <2>1, <2>2, <2>3 DEF Ordered
  <1>4. CASE PollTick
    <2>1. PICK new : /\ calls' = calls \cup {new} /\ new.kind = "poll" /\ new.since = w.last
                     /\ new.stage = "out"
      BY <1>4, PollSent
    <2>2. w' = w /\ lines' = lines /\ Seen(w, lines)
      BY <1>4, PollSent DEF Solo, Ordered
    <2> QED BY <1>t, <2>1, <2>2 DEF Ordered
  <1>5. ASSUME NEW answer \in Answers, NEW tapped \in BOOLEAN, Send(answer, tapped)
        PROVE  Ordered(w', calls', lines')
    <2>1. PICK new : calls' = calls \cup {new} /\ new.kind = "send" /\ new.since = 0 /\ new.stage = "out"
      BY <1>5, ReplySent
    <2>2. /\ lines' = lines /\ w'.box = w.box /\ w'.last = w.last /\ w'.token = w.token
          /\ w'.shown = w.shown
      BY <1>5, ReplySent
    <2> QED BY <1>t, <2>1, <2>2 DEF Ordered, Seen
  <1>6. ASSUME NEW r \in calls, Served(r)
        PROVE  Ordered(w', calls', lines')
    BY <1>6, OrderedServed
  <1>7. ASSUME NEW r \in calls, LoseRequest(r) \/ LoseAnswer(r)
        PROVE  Ordered(w', calls', lines')
    <2>1. PICK new : Dropped(r, new)
      BY <1>7, CallDropped
    <2>2. /\ w' = w /\ lines' = lines /\ calls' = (calls \ {r}) \cup {new}
          /\ new.kind = r.kind /\ new.since = r.since /\ new.stage \notin {"back", "typing"}
      BY <2>1 DEF Dropped
    <2> QED BY <2>2, OrderedMoved
  <1>8. ASSUME NEW r \in calls, Answered(r)
        PROVE  Ordered(w', calls', lines')
    BY <1>t, <1>8, OrderedAnswered
  <1>9. ASSUME NEW c \in Tokens, AgentReplies(c)
        PROVE  Ordered(w', calls', lines')
    BY <1>9, AgentWrote, OrderedWritten
  <1>10. ASSUME NEW c \in Tokens, AgentCloses(c)
         PROVE  Ordered(w', calls', lines')
    <2>1. UNCHANGED <<w, calls, lines>>
      BY <1>10, AgentClosed
    <2> QED BY <2>1
  <1>11. CASE UNCHANGED vars
    BY <1>11 DEF vars
  <1> QED BY <1>1, <1>2, <1>3, <1>4, <1>5, <1>6, <1>7, <1>8, <1>9, <1>10, <1>11 DEF Next

LEMMA OrderInit ==
  ASSUME Init
  PROVE  Solo(w, calls) /\ Rows(calls, convs, lines) /\ Ordered(w, calls, lines)
  <1>1. /\ w.box = "off" /\ ~w.busy /\ ~w.timer /\ w.token = 0 /\ w.last = 0 /\ w.node = None
        /\ calls = {} /\ lines = <<>> /\ Len(lines) = 0
    BY DEF Init
  <1>2. Solo(w, calls)
    BY <1>1 DEF Solo
  <1>3. Rows(calls, convs, lines)
    BY <1>1 DEF Rows
  <1>4. Ordered(w, calls, lines)
    BY <1>1 DEF Ordered
  <1> QED BY <1>2, <1>3, <1>4

\* The widget asks only for what is after the last line it drew.  Where it
\* waits for what is due before it closes or starts again, and agents write
\* only in chats the script has handed over, that skips no line of theirs:
\* whatever calls are lost, whatever order the answers come in, and however
\* many polls are out, one up to the last line drawn is on screen.
THEOREM AgentLinesAreDrawn ==
  ASSUME Patient
  PROVE  Spec => []NothingSkipped
  <1> DEFINE Inv == Solo(w, calls) /\ Rows(calls, convs, lines) /\ Ordered(w, calls, lines)
  <1>1. Init => TypeOK /\ Inv
    BY TypeInit, OrderInit
  <1>2. TypeOK /\ Inv /\ [Next]_vars => (TypeOK /\ Inv)'
    <2> SUFFICES ASSUME TypeOK, Inv, [Next]_vars PROVE (TypeOK /\ Inv)'
      OBVIOUS
    <2>1. TypeOK'
      BY TypeStep
    <2>2. Solo(w', calls')
      BY SoloStep
    <2>3. Rows(calls', convs', lines')
      BY RowsStep
    <2>4. Ordered(w', calls', lines')
      BY OrderedStep
    <2> QED BY <2>1, <2>2, <2>3, <2>4
  <1>3. Inv => NothingSkipped
    <2> SUFFICES ASSUME Inv, w.box \in {"on", "ended"}, NEW i \in AgentLines \cap LinesOf(w.token),
                        i <= w.last
                 PROVE  i \in w.shown
      BY DEF NothingSkipped
    <2>1. i \in AgentsIn(lines, w.token)
      BY DEF AgentsIn, AgentLines, LinesOf
    <2> QED BY <2>1 DEF Ordered, Seen
  <1> QED BY <1>1, <1>2, <1>3, PTL DEF Spec

-----------------------------------------------------------------------------
(* What the visitor answered, and which of their replies are on screen.    *)

\* The answer to a reply is not lost on its way back: no reply is handled
\* twice.
Once == Patient /\ "send" \notin Lossy

\* Conversation c is at question n.
Fits(cs, c, n) ==
  n # None => /\ c \in 1..Len(cs)
              /\ IF n = LiveStep THEN cs[c].live ELSE ~cs[c].live /\ cs[c].cursor = n

\* The widget shows the question its conversation is at, unless the answer
\* that tells it the next one is on its way; a reply on its way there was
\* given to the question the conversation is at.
Fitted(u, qs, cs) ==
  /\ (\A r \in qs : r.kind = "send" => r.stage # "back") => Fits(cs, u.token, u.node)
  /\ \A r \in qs : r.kind = "send" /\ r.stage \in {"out", "loaded"} =>
       r.asked # None /\ Fits(cs, r.conv, r.asked) /\ (r.tapped => Asks(r.asked))
  /\ \A r \in qs : r.stage \in {"back", "typing"} =>
       /\ r.kind # "poll" => Fits(cs, r.conv, r.got.node) /\ (r.got.live <=> cs[r.conv].live)
       /\ r.got.live => cs[r.conv].live

\* The rows there were still say who has the chat and where the script is.
RowsStand ==
  /\ Len(convs') \in Nat /\ Len(convs) <= Len(convs')
  /\ \A d \in 1..Len(convs) : convs'[d].cursor = convs[d].cursor /\ (convs'[d].live <=> convs[d].live)

LEMMA FitsKept ==
  ASSUME TypeOK, RowsStand
  PROVE  \A c, n : Fits(convs, c, n) => Fits(convs', c, n)
  <1>1. Len(convs) \in Nat
    BY TypeParts
  <1>2. \A d \in 1..Len(convs) : d \in 1..Len(convs')
    BY <1>1 DEF RowsStand
  <1> QED BY <1>2 DEF Fits, RowsStand

\* What an answer under way says of its conversation stands with the rows.
LEMMA AnswersKept ==
  ASSUME TypeOK, RowsStand, Fitted(w, calls, convs), NEW r \in calls
  PROVE  /\ r.kind = "send" /\ r.stage \in {"out", "loaded"} =>
              r.asked # None /\ Fits(convs', r.conv, r.asked) /\ (r.tapped => Asks(r.asked))
         /\ r.stage \in {"back", "typing"} =>
              /\ r.kind # "poll" => Fits(convs', r.conv, r.got.node) /\ (r.got.live <=> convs'[r.conv].live)
              /\ r.got.live => convs'[r.conv].live
  <1>1. r.stage \in {"back", "typing"} => r.conv \in 1..Len(convs)
    <2> SUFFICES ASSUME r.stage \in {"back", "typing"} PROVE r.conv \in 1..Len(convs)
      OBVIOUS
    <2>1. r.conv \in 0..Len(convs) /\ r.conv # 0 /\ Len(convs) \in Nat
      BY RequestFields
    <2> QED BY <2>1
  <1>2. \A c, n : Fits(convs, c, n) => Fits(convs', c, n)
    BY FitsKept
  <1> QED BY <1>1, <1>2 DEF Fitted, RowsStand

\* A request moved on that is no reply answered: the rows stand.
LEMMA FittedMoved ==
  ASSUME TypeOK, Fitted(w, calls, convs), RowsStand, w' = w, NEW r \in calls, NEW new,
         calls' = (calls \ {r}) \cup {new}, new.kind = r.kind,
         r.kind = "send" =>
           /\ r.stage # "back" /\ new.stage # "back"
           /\ new.stage \in {"out", "loaded"} =>
                /\ r.stage \in {"out", "loaded"} /\ new.conv = r.conv
                /\ new.asked = r.asked /\ new.tapped = r.tapped,
         new.stage \in {"back", "typing"} =>
           /\ new.kind # "poll" => Fits(convs', new.conv, new.got.node) /\ (new.got.live <=> convs'[new.conv].live)
           /\ new.got.live => convs'[new.conv].live
  PROVE  Fitted(w', calls', convs')
  <1>1. \A s \in calls' : s = new \/ s \in calls
    OBVIOUS
  <1>2. (\A s \in calls' : s.kind = "send" => s.stage # "back") => Fits(convs', w'.token, w'.node)
    <2>1. \A s \in calls : s = r \/ s \in calls'
      OBVIOUS
    <2>2. (\A s \in calls' : s.kind = "send" => s.stage # "back")
            => \A s \in calls : s.kind = "send" => s.stage # "back"
      BY <2>1
    <2> QED BY <2>2, FitsKept DEF Fitted
  <1>3. \A s \in calls' : s.kind = "send" /\ s.stage \in {"out", "loaded"} =>
          s.asked # None /\ Fits(convs', s.conv, s.asked) /\ (s.tapped => Asks(s.asked))
    BY <1>1, AnswersKept
  <1>4. \A s \in calls' : s.stage \in {"back", "typing"} =>
          /\ s.kind # "poll" => Fits(convs', s.conv, s.got.node) /\ (s.got.live <=> convs'[s.conv].live)
          /\ s.got.live => convs'[s.conv].live
    BY <1>1, AnswersKept
  <1> QED BY <1>2, <1>3, <1>4 DEF Fitted

\* An answer acted on, or a call given up.
LEMMA FittedTaken ==
  ASSUME Fitted(w, calls, convs), NEW r \in calls, Kept(r),
         (\A s \in calls' : s.kind = "send" => s.stage # "back") => Fits(convs, w'.token, w'.node)
  PROVE  Fitted(w', calls', convs')
  BY DEF Fitted, Kept

\* The reply was given to the question it is handled at.
LEMMA AskedIsHandled ==
  ASSUME Rows(calls, convs, lines), Fitted(w, calls, convs), NEW r \in calls, r.kind = "send",
         r.stage = "loaded"
  PROVE  /\ r.got.cursor = convs[r.conv].cursor /\ (r.got.live <=> convs[r.conv].live)
         /\ r.asked = (IF r.got.live THEN LiveStep ELSE r.got.cursor)
         /\ IF r.got.live THEN ~r.tapped ELSE r.got.cursor # None
  <1>1. r.asked # None /\ Fits(convs, r.conv, r.asked) /\ (r.tapped => Asks(r.asked))
    BY DEF Fitted
  <1>2. r.got.cursor = convs[r.conv].cursor /\ (r.got.live <=> convs[r.conv].live)
    BY DEF Rows
  <1>3. ~Asks(LiveStep)
    BY FlowAssumption DEF Asks
  <1> QED BY <1>1, <1>2, <1>3 DEF Fits

LEMMA FittedServed ==
  ASSUME Patient, TypeOK, Solo(w, calls), Rows(calls, convs, lines), Fitted(w, calls, convs),
         NEW r \in calls, Served(r)
  PROVE  Fitted(w', calls', convs')
  <1>0. Len(convs) \in Nat
    BY TypeParts
  <1>1. CASE ServeBegin(r)
    <2>1. PICK new : Begun(r, new)
      BY <1>1, BeginServed
    <2>2. RowsStand
      BY <1>0, <2>1 DEF Begun, RowsStand
    <2>3. Fits(convs', new.conv, new.got.node) /\ (new.got.live <=> convs'[new.conv].live)
      BY <1>0, <2>1 DEF Begun, Fits
    <2>4. w' = w /\ calls' = (calls \ {r}) \cup {new} /\ new.kind = r.kind /\ r.kind # "send"
      BY <2>1 DEF Begun
    <2> QED BY <2>2, <2>3, <2>4, FittedMoved
  <1>2. CASE LoadMessage(r)
    <2>1. PICK new : Loaded(r, new)
      BY <1>2, MessageLoaded
    <2>2. RowsStand
      BY <1>0, <2>1 DEF Loaded, RowsStand
    <2>3. /\ w' = w /\ calls' = (calls \ {r}) \cup {new} /\ new.kind = r.kind /\ new.conv = r.conv
          /\ new.asked = r.asked /\ new.tapped = r.tapped /\ r.stage = "out"
          /\ new.stage \notin {"back", "typing"}
      BY <2>1 DEF Loaded
    <2> QED BY <2>2, <2>3, FittedMoved
  <1>3. CASE ApplyMessage(r)
    <2>1. PICK new : Applied(r, new)
      BY <1>3, MessageApplied
    <2>2. /\ w' = w /\ calls' = (calls \ {r}) \cup {new} /\ new.kind = "send" /\ r.kind = "send"
          /\ new.conv = r.conv /\ r.stage = "loaded" /\ new.stage \in {"back", "refused"}
      BY <2>1 DEF Applied
    <2>3. CASE new.stage = "refused"
      <3>1. RowsStand
        BY <1>0, <2>1, <2>3 DEF Applied, RowsStand
      <3> QED BY <2>2, <2>3, <3>1, FittedMoved
    <2>4. CASE new.stage = "back"
      <3>1. \A s \in calls' : s = new \/ (s \in calls /\ s.kind = "poll")
        <4>1. \A s \in calls' : s = new \/ (s \in calls /\ s # r)
          BY <2>2
        <4> QED BY <2>2, <4>1, RequestFields DEF Solo, Kinds
      <3>2. \A s \in calls' : s.kind = "poll" =>
              s.stage # "typing" /\ (s.stage = "back" => s.conv \in 1..Len(convs) /\ s.conv = r.conv)
        <4> SUFFICES ASSUME NEW s \in calls, s.kind = "poll"
                     PROVE  s.stage # "typing" /\ (s.stage = "back" => s.conv \in 1..Len(convs) /\ s.conv = r.conv)
          BY <2>2, <3>1
        <4>1. s.conv \in 0..Len(convs) /\ s.conv # 0 /\ s.stage # "typing"
          BY RequestFields
        <4>2. s.conv = r.conv
          BY <2>2 DEF Solo
        <4> QED BY <1>0, <4>1, <4>2
      <3>3. \A s \in calls' : s.kind = "poll" /\ s.stage = "back" /\ s.got.live => convs'[s.conv].live
        BY <2>1, <2>2, <3>1, <3>2 DEF Applied, Fitted
      <3>4. Fits(convs', new.conv, new.got.node) /\ (new.got.live <=> convs'[new.conv].live)
        <4>1. r.got.cursor = convs[r.conv].cursor /\ (r.got.live <=> convs[r.conv].live)
          BY <2>2, AskedIsHandled
        <4>2. /\ new.got.live <=> convs'[r.conv].live
              /\ new.got.node # None => IF new.got.node = LiveStep THEN convs'[r.conv].live
                                        ELSE ~convs'[r.conv].live /\ convs'[r.conv].cursor = new.got.node
              /\ r.conv \in 1..Len(convs')
          BY <2>1, <2>4, <4>1 DEF Applied
        <4> QED BY <2>2, <4>2 DEF Fits
      <3>5. new \in calls'
        BY <2>2
      <3> QED BY <2>2, <2>4, <3>1, <3>2, <3>3, <3>4, <3>5 DEF Fitted
    <2> QED BY <2>2, <2>3, <2>4
  <1>4. CASE ServePoll(r)
    <2>1. PICK new : Polled(r, new)
      BY <1>4, PollServed
    <2>2. RowsStand
      BY <1>0, <2>1 DEF Polled, RowsStand
    <2>3. /\ w' = w /\ calls' = (calls \ {r}) \cup {new} /\ new.kind = r.kind /\ new.conv = r.conv
          /\ r.kind # "send" /\ r.conv \in 1..Len(convs) /\ r.conv \in 1..Len(convs')
      BY <2>1 DEF Polled
    <2>4. new.got.live <=> convs'[new.conv].live
      BY <2>1, <2>2, <2>3 DEF Polled, RowsStand
    <2>5. Fits(convs', new.conv, new.got.node)
      <3>1. new.got.node = Current(convs[r.conv])
        BY <2>1 DEF Polled
      <3>2. Current(convs[r.conv]) # None =>
              /\ ~convs[r.conv].live /\ convs[r.conv].cursor = Current(convs[r.conv])
              /\ Current(convs[r.conv]) # LiveStep
        BY FlowAssumption DEF Current, Asks
      <3> QED BY <2>2, <2>3, <3>1, <3>2 DEF Fits, RowsStand
    <2> QED BY <2>2, <2>3, <2>4, <2>5, FittedMoved
  <1> QED BY <1>1, <1>2, <1>3, <1>4 DEF Served

LEMMA FittedAnswered ==
  ASSUME TypeOK, Solo(w, calls), Fitted(w, calls, convs), NEW r \in calls, Answered(r)
  PROVE  Fitted(w', calls', convs')
  <1>1. CASE BeginAnswered(r)
    <2>1. PICK new : /\ calls' = (calls \ {r}) \cup {new} /\ new.kind = "begin" /\ new.conv = r.conv
                     /\ new.stage = "typing" /\ new.got = r.got
      BY <1>1, BeginKept
    <2>2. calls = {r} /\ r.stage = "back" /\ r.kind = "begin" /\ w'.node = None /\ convs' = convs
      BY <1>1, BeginKept DEF Solo
    <2>3. calls' = {new}
      BY <2>1, <2>2
    <2>4. Fits(convs, w'.token, w'.node)
      BY <2>2 DEF Fits
    <2> QED BY <2>1, <2>2, <2>3, <2>4 DEF Fitted
  <1>2. CASE BeginDrawn(r)
    <2>1. /\ Kept(r) /\ r.kind = "begin" /\ r.stage = "typing" /\ w'.node = r.got.node
          /\ w'.token = w.token
      BY <1>2, BeginShown DEF Showing, Drawn
    <2>2. r.conv = w.token
      BY <2>1 DEF Solo
    <2>3. Fits(convs, w'.token, w'.node)
      BY <2>1, <2>2 DEF Fitted
    <2> QED BY <2>1, <2>3, FittedTaken
  <1>3. CASE SendAnswered(r)
    <2>1. /\ Kept(r) /\ r.kind = "send" /\ r.stage = "back" /\ w'.node = r.got.node
          /\ w'.token = w.token
      BY <1>3, SendShown DEF Showing, Drawn
    <2>2. r.conv = w.token
      BY <2>1 DEF Solo
    <2>3. Fits(convs, w'.token, w'.node)
      BY <2>1, <2>2 DEF Fitted
    <2> QED BY <2>1, <2>3, FittedTaken
  <1>4. CASE SendRefused(r)
    <2>1. Kept(r) /\ r.kind = "send" /\ r.stage = "refused" /\ w'.token = w.token /\ w'.node = w.node
      BY <1>4, SendTakenBack
    <2>2. \A s \in calls : s.kind = "send" => s.stage # "back"
      BY <2>1 DEF Solo
    <2>3. Fits(convs, w'.token, w'.node)
      BY <2>1, <2>2 DEF Fitted
    <2> QED BY <2>1, <2>3, FittedTaken
  <1>5. CASE PollAnswered(r)
    <2>1. Kept(r) /\ r.kind = "poll" /\ r.stage = "back" /\ PollShows(r)
      BY <1>5, PollShown
    <2>2. r.conv = w.token /\ w'.token = w.token
      BY <2>1 DEF Solo, PollShows, Drawn
    <2>3. w'.node = None \/ w'.node = w.node \/ (w'.node = LiveStep /\ r.got.live)
      BY <2>1 DEF PollShows
    <2>4. r.conv \in 1..Len(convs)
      <3>1. r.conv \in 0..Len(convs) /\ r.conv # 0 /\ Len(convs) \in Nat
        BY <2>1, RequestFields
      <3> QED BY <3>1
    <2>5. (\A s \in calls' : s.kind = "send" => s.stage # "back") => Fits(convs, w.token, w.node)
      BY <2>1 DEF Fitted, Kept
    <2>6. r.got.live => Fits(convs, w.token, LiveStep)
      BY <2>1, <2>2, <2>4 DEF Fitted, Fits
    <2>7. Fits(convs, w.token, None)
      BY DEF Fits
    <2> QED BY <2>1, <2>2, <2>3, <2>5, <2>6, <2>7, FittedTaken
  <1>6. CASE RestoreAnswered(r)
    <2>1. Kept(r) /\ r.kind = "restore" /\ r.stage = "back" /\ RestoreShows(r)
      BY <1>6, RestoreShown
    <2>2. r.conv = w.token /\ w'.token = w.token
      BY <2>1 DEF Solo, RestoreShows, Drawn
    <2>3. \/ w'.node = None \/ w'.node = r.got.node \/ (w'.node = LiveStep /\ r.got.live)
      BY <2>1 DEF RestoreShows
    <2>4. r.conv \in 1..Len(convs)
      <3>1. r.conv \in 0..Len(convs) /\ r.conv # 0 /\ Len(convs) \in Nat
        BY <2>1, RequestFields
      <3> QED BY <3>1
    <2>5. Fits(convs, w.token, r.got.node) /\ (r.got.live => Fits(convs, w.token, LiveStep))
      BY <2>1, <2>2, <2>4 DEF Fitted, Fits
    <2>6. Fits(convs, w.token, None)
      BY DEF Fits
    <2> QED BY <2>1, <2>2, <2>3, <2>5, <2>6, FittedTaken
  <1>7. CASE CallFailed(r)
    <2>1. Kept(r) /\ r.stage \in {"dead", "gone"} /\ FailureShows(r)
      BY <1>7, FailureShown
    <2>2. w'.token = w.token /\ (w'.node = None \/ w'.node = w.node)
      BY <2>1 DEF FailureShows
    <2>3. (\A s \in calls' : s.kind = "send" => s.stage # "back") => Fits(convs, w.token, w.node)
      BY <2>1 DEF Fitted, Kept
    <2>4. Fits(convs, w.token, None)
      BY DEF Fits
    <2> QED BY <2>1, <2>2, <2>3, <2>4, FittedTaken
  <1> QED BY <1>1, <1>2, <1>3, <1>4, <1>5, <1>6, <1>7 DEF Answered

LEMMA FittedStep ==
  ASSUME Once, TypeOK, Solo(w, calls), Rows(calls, convs, lines), Fitted(w, calls, convs), [Next]_vars
  PROVE  Fitted(w', calls', convs')
  <1>1. CASE OpenPanel
    <2> DEFINE call == Call(IF w.token = 0 THEN "begin" ELSE "restore")
    <2>1. calls = {} /\ convs' = convs /\ w'.token = w.token /\ w'.node = w.node
      BY <1>1, PanelOpened DEF Solo
    <2>2. call.kind # "send" /\ call.stage = "out"
      BY DEF Call
    <2> HIDE DEF call
    <2>3. calls' = {call}
      BY <1>1, <2>1, PanelOpened DEF call
    <2> QED BY <2>1, <2>2, <2>3 DEF Fitted
  <1>2. CASE Close
    <2>1. calls' = calls /\ convs' = convs /\ w'.token = w.token /\ w'.node = w.node
      BY <1>2, PanelClosed
    <2> QED BY <2>1 DEF Fitted
  <1>3. CASE NewChat
    <2>1. calls = {}
      BY <1>3, ChatRestarted DEF Once, Patient, Calm
    <2>2. PICK new : calls' = calls \cup {new} /\ new.kind = "begin" /\ new.stage = "out"
      BY <1>3, ChatRestarted
    <2>3. w'.node = None
      BY <1>3, ChatRestarted DEF Solo
    <2> QED BY <2>1, <2>2, <2>3 DEF Fitted, Fits
  <1>4. CASE PollTick
    <2>1. PICK new : calls' = calls \cup {new} /\ new.kind = "poll" /\ new.stage = "out"
      BY <1>4, PollSent
    <2>2. w' = w /\ convs' = convs
      BY <1>4, PollSent
    <2> QED BY <2>1, <2>2 DEF Fitted
  <1>5. ASSUME NEW answer \in Answers, NEW tapped \in BOOLEAN, Send(answer, tapped)
        PROVE  Fitted(w', calls', convs')
    <2>1. PICK new : /\ calls' = calls \cup {new} /\ new.kind = "send" /\ new.conv = w.token
                     /\ new.stage = "out" /\ new.asked = w.node /\ (new.tapped => Asks(w.node))
      BY <1>5, ReplySent
    <2>2. convs' = convs /\ w'.token = w.token /\ w'.node = w.node /\ w.node # None /\ ~w.busy
      BY <1>5, ReplySent
    <2>3. Fits(convs, w.token, w.node)
      BY <2>2 DEF Solo, Fitted
    <2> QED BY <2>1, <2>2, <2>3 DEF Fitted
  <1>6. ASSUME NEW r \in calls, Served(r)
        PROVE  Fitted(w', calls', convs')
    BY <1>6, FittedServed DEF Once
  <1>7. ASSUME NEW r \in calls, LoseRequest(r) \/ LoseAnswer(r)
        PROVE  Fitted(w', calls', convs')
    <2>1. PICK new : Dropped(r, new)
      BY <1>7, CallDropped
    <2>2. r.kind = "send" => r.stage = "out"
      BY <1>7, CallDropped DEF Once
    <2>3. RowsStand
      <3>1. Len(convs) \in Nat
        BY TypeParts
      <3> QED BY <2>1, <3>1 DEF Dropped, RowsStand
    <2>4. /\ w' = w /\ calls' = (calls \ {r}) \cup {new} /\ new.kind = r.kind
          /\ new.stage \in {"out", "dead"}
          /\ r.kind = "send" => new.conv = r.conv /\ new.asked = r.asked /\ new.tapped = r.tapped
      BY <2>1 DEF Dropped
    <2> QED BY <2>2, <2>3, <2>4, FittedMoved
  <1>8. ASSUME NEW r \in calls, Answered(r)
        PROVE  Fitted(w', calls', convs')
    BY <1>8, FittedAnswered
  <1>9. ASSUME NEW c \in Tokens, AgentReplies(c) \/ AgentCloses(c)
        PROVE  Fitted(w', calls', convs')
    <2>1. w' = w /\ calls' = calls
      BY <1>9 DEF AgentReplies, AgentCloses
    <2>2. RowsStand
      <3>1. Len(convs) \in Nat
        BY TypeParts
      <3>2. CASE AgentReplies(c)
        <4>1. AgentWrites(c) /\ convs[c].live
          BY <3>2, AgentWrote DEF Once, Patient
        <4> QED BY <3>1, <4>1 DEF AgentWrites, RowsStand
      <3>3. CASE AgentCloses(c)
        BY <3>1, <3>3, AgentClosed DEF RowsStand
      <3> QED BY <1>9, <3>2, <3>3
    <2>3. (\A s \in calls : s.kind = "send" => s.stage # "back") => Fits(convs', w.token, w.node)
      BY <2>2, FitsKept DEF Fitted
    <2> QED BY <2>1, <2>2, <2>3, AnswersKept DEF Fitted
  <1>10. CASE UNCHANGED vars
    BY <1>10 DEF vars
  <1> QED BY <1>1, <1>2, <1>3, <1>4, <1>5, <1>6, <1>7, <1>8, <1>9, <1>10 DEF Next

\* A step that adds no visitor's line leaves the answers as they were.
LEMMA AnswersStand ==
  ASSUME TypeOK, AnswerFitsQuestion, NEW c, NEW roles, Adds(c, roles), "visitor" \notin roles
  PROVE  AnswerFitsQuestion'
  <1>1. Len(lines) \in Nat /\ Len(lines') \in Nat
    BY TypeParts DEF Adds
  <1>2. \A i \in 1..Len(lines') : i \in 1..Len(lines) \/ i > Len(lines)
    BY <1>1
  <1> QED BY <1>2 DEF AnswerFitsQuestion, Adds

LEMMA AnswersStep ==
  ASSUME TypeOK, Rows(calls, convs, lines), Fitted(w, calls, convs), AnswerFitsQuestion, [Next]_vars
  PROVE  AnswerFitsQuestion'
  <1>s. lines' = lines => AnswerFitsQuestion'
    BY DEF AnswerFitsQuestion
  <1>1. ASSUME NEW r \in calls, ServeBegin(r)
        PROVE  AnswerFitsQuestion'
    <2>1. PICK new : Begun(r, new)
      BY <1>1, BeginServed
    <2> QED BY <2>1, AnswersStand DEF Begun
  <1>2. ASSUME NEW r \in calls, ApplyMessage(r)
        PROVE  AnswerFitsQuestion'
    <2>1. PICK new : Applied(r, new)
      BY <1>2, MessageApplied
    <2>2. r.asked = (IF r.got.live THEN LiveStep ELSE r.got.cursor)
      BY <2>1, AskedIsHandled DEF Applied
    <2>3. \A i \in 1..Len(lines') : i \in 1..Len(lines) \/ i > Len(lines)
      <3>1. Len(lines) \in Nat /\ Len(lines') \in Nat
        BY <2>1, TypeParts DEF Applied, Adds
      <3> QED BY <3>1
    <2> QED BY <2>1, <2>2, <2>3 DEF AnswerFitsQuestion, Applied, Adds
  <1>3. ASSUME NEW c \in Tokens, AgentReplies(c)
        PROVE  AnswerFitsQuestion'
    <2>1. AgentWrites(c)
      BY <1>3, AgentWrote
    <2> QED BY <2>1, AnswersStand DEF AgentWrites
  <1>4. \/ lines' = lines
        \/ \E r \in calls : ServeBegin(r) \/ ApplyMessage(r)
        \/ \E c \in Tokens : AgentReplies(c)
    BY DEF Next, vars, OpenPanel, Close, NewChat, PollTick, Send, Served, LoadMessage, ServePoll,
           LoseRequest, LoseAnswer, Answered, BeginAnswered, BeginDrawn, SendAnswered, SendRefused,
           PollAnswered, RestoreAnswered, CallFailed, AgentCloses
  <1> QED BY <1>s, <1>1, <1>2, <1>3, <1>4

\* Every reply the server recorded stands at the question the visitor gave
\* it to.  Nothing in a request says which question it answers: it holds
\* because a reply is one at a time, an agent cannot take the chat in
\* between, what is due is waited for, and no reply is handled twice (Once).
THEOREM AnswersAreToTheQuestion ==
  ASSUME Once
  PROVE  Spec => []AnswerFitsQuestion
  <1> DEFINE Inv == /\ Solo(w, calls) /\ Rows(calls, convs, lines) /\ Fitted(w, calls, convs)
                    /\ AnswerFitsQuestion
  <1>1. Init => TypeOK /\ Inv
    <2> SUFFICES ASSUME Init PROVE TypeOK /\ Inv
      OBVIOUS
    <2>1. w.node = None /\ calls = {} /\ Len(lines) = 0
      BY DEF Init
    <2> QED BY <2>1, TypeInit, OrderInit DEF Fitted, Fits, AnswerFitsQuestion
  <1>2. TypeOK /\ Inv /\ [Next]_vars => (TypeOK /\ Inv)'
    <2> SUFFICES ASSUME TypeOK, Inv, [Next]_vars PROVE (TypeOK /\ Inv)'
      OBVIOUS
    <2>1. TypeOK'
      BY TypeStep
    <2>2. Solo(w', calls')
      BY SoloStep DEF Once
    <2>3. Rows(calls', convs', lines')
      BY RowsStep DEF Once
    <2>4. Fitted(w', calls', convs')
      BY FittedStep
    <2>5. AnswerFitsQuestion'
      BY AnswersStep
    <2> QED BY <2>1, <2>2, <2>3, <2>4, <2>5
  <1>3. Inv => AnswerFitsQuestion
    OBVIOUS
  <1> QED BY <1>1, <1>2, <1>3, PTL DEF Spec

-----------------------------------------------------------------------------
(* The replies on screen that the widget drew itself.                      *)

\* Only a transcript carries the visitor's own lines.
Voiceless(qs, ls) ==
  \A r \in qs : r.stage \in {"back", "typing"} /\ r.kind # "restore" =>
    \A i \in r.got.ids : ls[i].role # "visitor"

\* Where a person has the chat the widget knows, or the answer that tells
\* it is on its way.
Known(u, qs, cs) ==
  u.token # 0 /\ (u.box = "on" \/ \E r \in qs : r.kind = "poll") =>
    (cs[u.token].live => u.live \/ \E r \in qs : r.kind = "send" /\ r.stage = "back")

\* The visitor's lines the widget was not sent, and the reply still on its
\* way, are enough for the replies it drew itself.
Unheard(ls, c, shown) == {i \in 1..Len(ls) : ls[i].role = "visitor" /\ ls[i].conv = c} \ shown
Due(qs) == IF \E r \in qs : r.kind = "send" /\ r.stage # "back" THEN 1 ELSE 0
Echoed(u, qs, ls) ==
  /\ u.box = "off" => u.echoes = 0
  /\ u.box = "on" \/ (\E r \in qs : r.kind = "send") =>
       u.echoes <= Cardinality(Unheard(ls, u.token, u.shown)) + Due(qs)

LEMMA VoicelessStep ==
  ASSUME TypeOK, Voiceless(calls, lines), [Next]_vars
  PROVE  Voiceless(calls', lines')
  <1>0. \A r \in calls : r.stage \in {"back", "typing"} => \A i \in r.got.ids : i \in 1..Len(lines)
    BY RequestFields DEF AnswerOf
  <1> DEFINE Stand == \A i \in 1..Len(lines) : lines'[i] = lines[i]
             Bare(new) == new.stage \in {"back", "typing"} /\ new.kind # "restore" =>
                            \A i \in new.got.ids : lines'[i].role # "visitor"
  <1>s. Stand /\ (\A s \in calls' : s \in calls \/ Bare(s)) => Voiceless(calls', lines')
    BY <1>0 DEF Voiceless
  <1>1. ASSUME NEW r \in calls, Served(r)
        PROVE  Voiceless(calls', lines')
    <2>1. CASE ServeBegin(r)
      <3>1. PICK new : Begun(r, new)
        BY <2>1, BeginServed
      <3>2. Stand /\ Bare(new) /\ \A s \in calls' : s \in calls \/ s = new
        BY <3>1 DEF Begun, Adds
      <3> QED BY <1>s, <3>2
    <2>2. CASE LoadMessage(r)
      <3>1. PICK new : Loaded(r, new)
        BY <2>2, MessageLoaded
      <3>2. Stand /\ Bare(new) /\ \A s \in calls' : s \in calls \/ s = new
        BY <3>1 DEF Loaded
      <3> QED BY <1>s, <3>2
    <2>3. CASE ApplyMessage(r)
      <3>1. PICK new : Applied(r, new)
        BY <2>3, MessageApplied
      <3>2. Stand /\ Bare(new) /\ \A s \in calls' : s \in calls \/ s = new
        BY <3>1 DEF Applied, Adds
      <3> QED BY <1>s, <3>2
    <2>4. CASE ServePoll(r)
      <3>1. PICK new : Polled(r, new)
        BY <2>4, PollServed
      <3>2. Stand /\ Bare(new) /\ \A s \in calls' : s \in calls \/ s = new
        BY <3>1 DEF Polled
      <3> QED BY <1>s, <3>2
    <2> QED BY <1>1, <2>1, <2>2, <2>3, <2>4 DEF Served
  <1>2. ASSUME NEW r \in calls, LoseRequest(r) \/ LoseAnswer(r)
        PROVE  Voiceless(calls', lines')
    <2>1. PICK new : Dropped(r, new)
      BY <1>2, CallDropped
    <2>2. Stand /\ Bare(new) /\ \A s \in calls' : s \in calls \/ s = new
      BY <2>1 DEF Dropped
    <2> QED BY <1>s, <2>2
  <1>3. ASSUME NEW r \in calls, Answered(r)
        PROVE  Voiceless(calls', lines')
    <2>1. CASE BeginAnswered(r)
      <3>1. PICK new : /\ calls' = (calls \ {r}) \cup {new} /\ new.got = r.got
        BY <2>1, BeginKept
      <3>2. r.kind = "begin" /\ r.stage = "back" /\ lines' = lines
        BY <2>1, BeginKept
      <3>3. Bare(new) /\ Stand /\ \A s \in calls' : s \in calls \/ s = new
        BY <3>1, <3>2 DEF Voiceless
      <3> QED BY <1>s, <3>3
    <2>2. CASE ~BeginAnswered(r)
      <3>1. Stand /\ \A s \in calls' : s \in calls
        BY <1>3, <2>2 DEF Answered, BeginDrawn, SendAnswered, SendRefused, PollAnswered,
                          RestoreAnswered, CallFailed, Done
      <3> QED BY <1>s, <3>1
    <2> QED BY <2>1, <2>2
  <1>4. ASSUME NEW c \in Tokens, AgentReplies(c)
        PROVE  Voiceless(calls', lines')
    <2>1. Stand /\ calls' = calls
      BY <1>4, AgentWrote DEF AgentWrites, Adds
    <2> QED BY <1>s, <2>1
  <1>5. CASE OpenPanel
    <2>1. \A k : Call(k).stage = "out"
      BY DEF Call
    <2> QED BY <1>s, <1>5, <2>1, PanelOpened
  <1>6. CASE NewChat
    BY <1>s, <1>6, ChatRestarted
  <1>7. CASE PollTick
    BY <1>s, <1>7, PollSent
  <1>8. ASSUME NEW answer \in Answers, NEW tapped \in BOOLEAN, Send(answer, tapped)
        PROVE  Voiceless(calls', lines')
    BY <1>s, <1>8, ReplySent
  <1>9. CASE UNCHANGED <<calls, lines>>
    BY <1>9
  <1> QED BY <1>1, <1>2, <1>3, <1>4, <1>5, <1>6, <1>7, <1>8, <1>9 DEF Next, vars, Close, AgentCloses

LEMMA KnownMoved ==
  ASSUME TypeOK, Known(w, calls, convs), RowsStand, w' = w, NEW r \in calls, NEW new,
         calls' = (calls \ {r}) \cup {new}, new.kind = r.kind, r.kind = "send" => r.stage # "back"
  PROVE  Known(w', calls', convs')
  <1>1. \A s \in calls : s = r \/ s \in calls'
    OBVIOUS
  <1>2. (\E s \in calls' : s.kind = "poll") => \E s \in calls : s.kind = "poll"
    OBVIOUS
  <1>3. (\E s \in calls : s.kind = "send" /\ s.stage = "back") => \E s \in calls' : s.kind = "send" /\ s.stage = "back"
    BY <1>1
  <1>4. w.token # 0 => w.token \in 1..Len(convs)
    BY TypeParts DEF WidgetOf
  <1> QED BY <1>2, <1>3, <1>4 DEF Known, RowsStand

LEMMA KnownServed ==
  ASSUME TypeOK, Solo(w, calls), Known(w, calls, convs), NEW r \in calls, Served(r)
  PROVE  Known(w', calls', convs')
  <1>0. Len(convs) \in Nat
    BY TypeParts
  <1>1. CASE ServeBegin(r)
    <2>1. PICK new : Begun(r, new)
      BY <1>1, BeginServed
    <2>2. RowsStand
      BY <1>0, <2>1 DEF Begun, RowsStand
    <2>3. w' = w /\ calls' = (calls \ {r}) \cup {new} /\ new.kind = r.kind /\ r.kind # "send"
      BY <2>1 DEF Begun
    <2> QED BY <2>2, <2>3, KnownMoved
  <1>2. CASE LoadMessage(r)
    <2>1. PICK new : Loaded(r, new)
      BY <1>2, MessageLoaded
    <2>2. RowsStand
      BY <1>0, <2>1 DEF Loaded, RowsStand
    <2>3. w' = w /\ calls' = (calls \ {r}) \cup {new} /\ new.kind = r.kind /\ r.stage = "out"
      BY <2>1 DEF Loaded
    <2> QED BY <2>2, <2>3, KnownMoved
  <1>3. CASE ApplyMessage(r)
    <2>1. PICK new : Applied(r, new)
      BY <1>3, MessageApplied
    <2>2. /\ w' = w /\ calls' = (calls \ {r}) \cup {new} /\ new.kind = "send" /\ r.kind = "send"
          /\ r.stage = "loaded" /\ new.stage \in {"back", "refused"}
      BY <2>1 DEF Applied
    <2>3. CASE new.stage = "refused"
      <3>1. RowsStand
        BY <1>0, <2>1, <2>3 DEF Applied, RowsStand
      <3> QED BY <2>2, <3>1, KnownMoved
    <2>4. CASE new.stage = "back"
      <3>1. \E s \in calls' : s.kind = "send" /\ s.stage = "back"
        BY <2>2, <2>4
      <3> QED BY <3>1 DEF Known
    <2> QED BY <2>2, <2>3, <2>4
  <1>4. CASE ServePoll(r)
    <2>1. PICK new : Polled(r, new)
      BY <1>4, PollServed
    <2>2. RowsStand
      BY <1>0, <2>1 DEF Polled, RowsStand
    <2>3. w' = w /\ calls' = (calls \ {r}) \cup {new} /\ new.kind = r.kind /\ r.kind # "send"
      BY <2>1 DEF Polled
    <2> QED BY <2>2, <2>3, KnownMoved
  <1> QED BY <1>1, <1>2, <1>3, <1>4 DEF Served

LEMMA KnownAnswered ==
  ASSUME TypeOK, Solo(w, calls), Fitted(w, calls, convs), Known(w, calls, convs), NEW r \in calls, Answered(r)
  PROVE  Known(w', calls', convs')
  <1>1. CASE BeginAnswered(r)
    <2>1. PICK new : calls' = (calls \ {r}) \cup {new} /\ new.kind = "begin"
      BY <1>1, BeginKept
    <2>2. calls = {r} /\ w'.box = "off"
      BY <1>1, BeginKept DEF Solo
    <2>3. calls' = {new}
      BY <2>1, <2>2
    <2> QED BY <2>1, <2>2, <2>3 DEF Known
  <1>2. CASE BeginDrawn(r)
    <2>1. /\ Kept(r) /\ r.kind = "begin" /\ r.stage = "typing" /\ w'.token = w.token
          /\ w'.live <=> (w.live \/ r.got.live)
      BY <1>2, BeginShown DEF Showing, Drawn
    <2>2. r.conv = w.token /\ (r.got.live <=> convs[w.token].live)
      BY <2>1 DEF Solo, Fitted
    <2> QED BY <2>1, <2>2 DEF Known, Kept
  <1>3. CASE SendAnswered(r)
    <2>1. /\ Kept(r) /\ r.kind = "send" /\ r.stage = "back" /\ w'.token = w.token
          /\ w'.live <=> (w.live \/ r.got.live)
      BY <1>3, SendShown DEF Showing, Drawn
    <2>2. r.conv = w.token /\ (r.got.live <=> convs[w.token].live)
      BY <2>1 DEF Solo, Fitted
    <2> QED BY <2>1, <2>2 DEF Known, Kept
  <1>4. CASE SendRefused(r)
    <2>1. /\ Kept(r) /\ r.kind = "send" /\ r.stage = "refused" /\ w'.token = w.token /\ w'.live = w.live
          /\ w'.box = (IF w.node = None THEN w.box ELSE "on")
      BY <1>4, SendTakenBack
    <2>2. w'.box = w.box
      BY <2>1 DEF Solo
    <2> QED BY <2>1, <2>2 DEF Known, Kept
  <1>5. CASE PollAnswered(r)
    <2>1. Kept(r) /\ r.kind = "poll" /\ PollShows(r)
      BY <1>5, PollShown
    <2>2. w'.token = w.token /\ (w.live => w'.live)
      BY <2>1 DEF PollShows, Drawn
    <2> QED BY <2>1, <2>2 DEF Known, Kept
  <1>6. CASE RestoreAnswered(r)
    <2>1. Kept(r) /\ r.kind = "restore" /\ r.stage = "back" /\ RestoreShows(r)
      BY <1>6, RestoreShown
    <2>2. calls = {r} /\ r.conv = w.token /\ w'.token = w.token
      BY <2>1 DEF Solo, RestoreShows, Drawn
    <2>3. calls' = {}
      BY <2>1, <2>2 DEF Kept
    <2>4. convs[w.token].live => r.got.live
      BY <2>1, <2>2 DEF Fitted
    <2>5. w'.box = "on" /\ r.got.live => w'.live
      BY <2>1 DEF RestoreShows
    <2> QED BY <2>1, <2>2, <2>3, <2>4, <2>5 DEF Known, Kept
  <1>7. CASE CallFailed(r)
    <2>1. Kept(r) /\ r.stage \in {"dead", "gone"} /\ FailureShows(r)
      BY <1>7, FailureShown
    <2>2. w'.token = w.token /\ w'.live = w.live /\ (w'.box = "on" => w.box = "on")
      BY <2>1 DEF FailureShows
    <2> QED BY <2>1, <2>2 DEF Known, Kept
  <1> QED BY <1>1, <1>2, <1>3, <1>4, <1>5, <1>6, <1>7 DEF Answered

LEMMA KnownStep ==
  ASSUME Once, TypeOK, Solo(w, calls), Fitted(w, calls, convs), Known(w, calls, convs), [Next]_vars
  PROVE  Known(w', calls', convs')
  <1>1. CASE OpenPanel
    <2> DEFINE call == Call(IF w.token = 0 THEN "begin" ELSE "restore")
    <2>1. calls = {} /\ w'.box = "off"
      BY <1>1, PanelOpened DEF Solo, Blank
    <2>2. call.kind # "poll"
      BY DEF Call
    <2> HIDE DEF call
    <2>3. calls' = {call}
      BY <1>1, <2>1, PanelOpened DEF call
    <2> QED BY <2>1, <2>2, <2>3 DEF Known
  <1>2. CASE Close
    <2>1. calls' = calls /\ convs' = convs /\ w'.token = w.token /\ w'.live = w.live /\ w'.box = w.box
      BY <1>2, PanelClosed
    <2> QED BY <2>1 DEF Known
  <1>3. CASE NewChat
    BY <1>3, ChatRestarted DEF Known
  <1>4. CASE PollTick
    <2>1. w' = w /\ convs' = convs /\ w.box = "on" /\ \A s \in calls : s \in calls'
      BY <1>4, PollSent DEF Solo
    <2> QED BY <2>1 DEF Known
  <1>5. ASSUME NEW answer \in Answers, NEW tapped \in BOOLEAN, Send(answer, tapped)
        PROVE  Known(w', calls', convs')
    <2>1. /\ convs' = convs /\ w.box = "on" /\ w'.token = w.token /\ w'.live = w.live
          /\ \A s \in calls : s \in calls'
      BY <1>5, ReplySent
    <2> QED BY <2>1 DEF Known
  <1>6. ASSUME NEW r \in calls, Served(r)
        PROVE  Known(w', calls', convs')
    BY <1>6, KnownServed
  <1>7. ASSUME NEW r \in calls, LoseRequest(r) \/ LoseAnswer(r)
        PROVE  Known(w', calls', convs')
    <2>1. PICK new : Dropped(r, new)
      BY <1>7, CallDropped
    <2>2. r.kind = "send" => r.stage = "out"
      BY <1>7, CallDropped DEF Once
    <2>3. RowsStand
      <3>1. Len(convs) \in Nat
        BY TypeParts
      <3> QED BY <2>1, <3>1 DEF Dropped, RowsStand
    <2>4. w' = w /\ calls' = (calls \ {r}) \cup {new} /\ new.kind = r.kind
      BY <2>1 DEF Dropped
    <2> QED BY <2>2, <2>3, <2>4, KnownMoved
  <1>8. ASSUME NEW r \in calls, Answered(r)
        PROVE  Known(w', calls', convs')
    BY <1>8, KnownAnswered
  <1>9. ASSUME NEW c \in Tokens, AgentReplies(c) \/ AgentCloses(c)
        PROVE  Known(w', calls', convs')
    <2>1. w' = w /\ calls' = calls
      BY <1>9 DEF AgentReplies, AgentCloses
    <2>2. \A d \in 1..Len(convs) : convs'[d].live <=> convs[d].live
      <3>1. CASE AgentReplies(c)
        BY <3>1, AgentWrote DEF AgentWrites, Once, Patient
      <3>2. CASE AgentCloses(c)
        BY <3>2, AgentClosed
      <3> QED BY <1>9, <3>1, <3>2
    <2>3. w.token # 0 => w.token \in 1..Len(convs)
      BY TypeParts DEF WidgetOf
    <2> QED BY <2>1, <2>2, <2>3 DEF Known
  <1>10. CASE UNCHANGED vars
    BY <1>10 DEF vars
  <1> QED BY <1>1, <1>2, <1>3, <1>4, <1>5, <1>6, <1>7, <1>8, <1>9, <1>10 DEF Next

\* Lines added are at worst more that the widget was not sent.
LEMMA UnheardGrows ==
  ASSUME TypeOK, Len(lines') \in Nat, Len(lines) <= Len(lines'),
         \A i \in 1..Len(lines) : lines'[i] = lines[i]
  PROVE  \A c, s : /\ IsFiniteSet(Unheard(lines', c, s)) /\ IsFiniteSet(Unheard(lines, c, s))
                   /\ Unheard(lines, c, s) \subseteq Unheard(lines', c, s)
                   /\ Cardinality(Unheard(lines, c, s)) \in Nat /\ Cardinality(Unheard(lines', c, s)) \in Nat
                   /\ Cardinality(Unheard(lines, c, s)) <= Cardinality(Unheard(lines', c, s))
  <1> TAKE c, s
  <1>1. Len(lines) \in Nat
    BY TypeParts
  <1>2. IsFiniteSet(1..Len(lines')) /\ IsFiniteSet(1..Len(lines))
    BY <1>1, FS_Interval
  <1>3. Unheard(lines', c, s) \subseteq 1..Len(lines') /\ Unheard(lines, c, s) \subseteq 1..Len(lines)
    BY DEF Unheard
  <1>4. IsFiniteSet(Unheard(lines', c, s)) /\ IsFiniteSet(Unheard(lines, c, s))
    BY <1>2, <1>3, FS_Subset
  <1>5. Unheard(lines, c, s) \subseteq Unheard(lines', c, s)
    <2>1. \A i \in 1..Len(lines) : i \in 1..Len(lines')
      BY <1>1
    <2> QED BY <2>1 DEF Unheard
  <1>6. Cardinality(Unheard(lines, c, s)) <= Cardinality(Unheard(lines', c, s))
    BY <1>4, <1>5, FS_Subset
  <1> QED BY <1>4, <1>5, <1>6, FS_CardinalityType

\* A request moved on, lines added or not, no reply answered by it.
LEMMA EchoedMoved ==
  ASSUME TypeOK, Echoed(w, calls, lines), w' = w, NEW r \in calls, NEW new,
         calls' = (calls \ {r}) \cup {new}, new.kind = r.kind, r.kind = "send" => new.stage # "back",
         Len(lines') \in Nat, Len(lines) <= Len(lines'), \A i \in 1..Len(lines) : lines'[i] = lines[i]
  PROVE  Echoed(w', calls', lines')
  <1>1. \A s \in calls' : s = new \/ s \in calls
    OBVIOUS
  <1>2. \A s \in calls : s = r \/ s \in calls'
    OBVIOUS
  <1>3. (\E s \in calls' : s.kind = "send") => \E s \in calls : s.kind = "send"
    BY <1>1
  <1>4. Due(calls) \in {0, 1} /\ Due(calls') \in {0, 1} /\ Due(calls) <= Due(calls')
    <2>1. (\E s \in calls : s.kind = "send" /\ s.stage # "back")
            => \E s \in calls' : s.kind = "send" /\ s.stage # "back"
      <3>1. new \in calls'
        OBVIOUS
      <3> QED BY <1>2, <3>1
    <2> QED BY <2>1 DEF Due
  <1>5. LET old == Cardinality(Unheard(lines, w.token, w.shown))
            now == Cardinality(Unheard(lines', w.token, w.shown))
        IN old \in Nat /\ now \in Nat /\ old <= now
    BY UnheardGrows
  <1>6. w.echoes \in Nat
    BY TypeParts DEF WidgetOf
  <1> QED BY <1>3, <1>4, <1>5, <1>6 DEF Echoed

LEMMA EchoedServed ==
  ASSUME TypeOK, Solo(w, calls), Rows(calls, convs, lines), Fitted(w, calls, convs),
         Echoed(w, calls, lines), NEW r \in calls, Served(r)
  PROVE  Echoed(w', calls', lines')
  <1>0. Len(lines) \in Nat
    BY TypeParts
  <1>1. CASE ServeBegin(r)
    <2>1. PICK new : Begun(r, new)
      BY <1>1, BeginServed
    <2>2. w' = w /\ calls' = (calls \ {r}) \cup {new} /\ new.kind = r.kind /\ r.kind # "send"
      BY <2>1 DEF Begun
    <2>3. Len(lines') \in Nat /\ Len(lines) <= Len(lines') /\ \A i \in 1..Len(lines) : lines'[i] = lines[i]
      BY <2>1 DEF Begun, Adds
    <2> QED BY <2>2, <2>3, EchoedMoved
  <1>2. CASE LoadMessage(r)
    <2>1. PICK new : Loaded(r, new)
      BY <1>2, MessageLoaded
    <2>2. w' = w /\ calls' = (calls \ {r}) \cup {new} /\ new.kind = r.kind /\ new.stage # "back" /\ lines' = lines
      BY <2>1 DEF Loaded
    <2>3. Len(lines') \in Nat /\ Len(lines) <= Len(lines') /\ \A i \in 1..Len(lines) : lines'[i] = lines[i]
      BY <1>0, <2>2
    <2> QED BY <2>2, <2>3, EchoedMoved
  <1>3. CASE ApplyMessage(r)
    <2>1. PICK new : Applied(r, new)
      BY <1>3, MessageApplied
    <2>2. /\ w' = w /\ calls' = (calls \ {r}) \cup {new} /\ new.kind = "send" /\ r.kind = "send"
          /\ r.stage = "loaded" /\ new.stage \in {"back", "refused"}
      BY <2>1 DEF Applied
    <2>3. Len(lines') \in Nat /\ Len(lines) <= Len(lines') /\ \A i \in 1..Len(lines) : lines'[i] = lines[i]
      BY <2>1 DEF Applied, Adds
    <2>4. CASE new.stage = "refused"
      BY <2>2, <2>3, <2>4, EchoedMoved
    <2>5. CASE new.stage = "back"
      <3> DEFINE old == Unheard(lines, w.token, w.shown)
                 now == Unheard(lines', w.token, w.shown)
                 i == Len(lines) + 1
      <3>1. Due(calls) = 1
        BY <2>2 DEF Due
      <3>2. Due(calls') \in {0, 1}
        BY DEF Due
      <3>3. i \in now /\ i \notin old
        <4>1. i \in 1..Len(lines') /\ lines'[i].role = "visitor"
          BY <2>1, <2>2, <2>5, AskedIsHandled DEF Applied
        <4>2. lines'[i].conv = r.conv /\ r.conv = w.token
          <5>1. i > Len(lines)
            BY <1>0
          <5> QED BY <2>1, <2>2, <4>1, <5>1 DEF Applied, Adds, Solo
        <4>3. i \notin 1..Len(lines) /\ i \notin w.shown
          BY <1>0, TypeParts DEF WidgetOf
        <4> QED BY <4>1, <4>2, <4>3 DEF Unheard
      <3>4. IsFiniteSet(old) /\ IsFiniteSet(now) /\ old \subseteq now /\ Cardinality(old) \in Nat /\ Cardinality(now) \in Nat
        BY <2>3, UnheardGrows
      <3> HIDE DEF old, now, i
      <3>5. Cardinality(old) + 1 <= Cardinality(now)
        <4>1. IsFiniteSet(old \cup {i}) /\ Cardinality(old \cup {i}) = Cardinality(old) + 1
          BY <3>3, <3>4, FS_AddElement
        <4>2. Cardinality(old \cup {i}) <= Cardinality(now)
          BY <3>3, <3>4, FS_Subset
        <4> QED BY <4>1, <4>2
      <3>6. w.echoes \in Nat
        BY TypeParts DEF WidgetOf
      <3>7. w.echoes <= Cardinality(old) + 1 /\ (w.box = "off" => w.echoes = 0)
        BY <2>2, <3>1 DEF Echoed, old
      <3>8. w.echoes <= Cardinality(now) + Due(calls')
        BY <3>2, <3>4, <3>5, <3>6, <3>7
      <3> QED BY <2>2, <3>7, <3>8 DEF Echoed, now
    <2> QED BY <2>2, <2>4, <2>5
  <1>4. CASE ServePoll(r)
    <2>1. PICK new : Polled(r, new)
      BY <1>4, PollServed
    <2>2. w' = w /\ calls' = (calls \ {r}) \cup {new} /\ new.kind = r.kind /\ r.kind # "send" /\ lines' = lines
      BY <2>1 DEF Polled
    <2>3. Len(lines') \in Nat /\ Len(lines) <= Len(lines') /\ \A i \in 1..Len(lines) : lines'[i] = lines[i]
      BY <1>0, <2>2
    <2> QED BY <2>2, <2>3, EchoedMoved
  <1> QED BY <1>1, <1>2, <1>3, <1>4 DEF Served

LEMMA UnheardDrawn ==
  ASSUME NEW ids, Drawn(w', w, ids), lines' = lines, \A i \in ids : lines[i].role # "visitor"
  PROVE  Unheard(lines', w'.token, w'.shown) = Unheard(lines, w.token, w.shown)
  BY DEF Unheard, Drawn

\* An answer that is no reply's, acted on.
LEMMA EchoedTaken ==
  ASSUME Echoed(w, calls, lines), NEW r \in calls, Kept(r), r.kind # "send", w'.echoes = w.echoes,
         Unheard(lines', w'.token, w'.shown) = Unheard(lines, w.token, w.shown),
         w'.box = "on" => w.box = "on" \/ \E s \in calls : s.kind = "send",
         w'.box = "off" => w.box = "off"
  PROVE  Echoed(w', calls', lines')
  <1>1. \A s : s.kind = "send" => (s \in calls <=> s \in calls')
    BY DEF Kept
  <1>2. Due(calls') = Due(calls)
    BY <1>1 DEF Due
  <1> QED BY <1>1, <1>2 DEF Echoed

\* Where nothing is echoed there is nothing to be recorded.
LEMMA EchoedNothing ==
  ASSUME TypeOK', w'.echoes = 0
  PROVE  Echoed(w', calls', lines')
  <1>1. Len(lines') \in Nat
    BY TypePartsNext
  <1>2. IsFiniteSet(1..Len(lines'))
    BY <1>1, FS_Interval
  <1>3. Unheard(lines', w'.token, w'.shown) \subseteq 1..Len(lines')
    BY DEF Unheard
  <1>4. Cardinality(Unheard(lines', w'.token, w'.shown)) \in Nat
    BY <1>2, <1>3, FS_Subset, FS_CardinalityType
  <1>5. Due(calls') \in {0, 1}
    BY DEF Due
  <1> QED BY <1>4, <1>5 DEF Echoed

LEMMA EchoedAnswered ==
  ASSUME TypeOK, TypeOK', Solo(w, calls), Fitted(w, calls, convs), Voiceless(calls, lines),
         Known(w, calls, convs), Echoed(w, calls, lines), NEW r \in calls, Answered(r)
  PROVE  Echoed(w', calls', lines')
  <1>1. CASE BeginAnswered(r)
    <2>1. w'.echoes = 0
      BY <1>1, BeginKept DEF Solo, Echoed
    <2> QED BY <2>1, EchoedNothing
  <1>2. CASE BeginDrawn(r)
    <2>1. w'.echoes = 0
      BY <1>2, BeginShown DEF Solo, Echoed, Showing, Drawn
    <2> QED BY <2>1, EchoedNothing
  <1>3. CASE SendAnswered(r)
    <2>1. /\ Kept(r) /\ r.kind = "send" /\ r.stage = "back" /\ Drawn(w', w, r.got.ids)
          /\ w'.box # "off" /\ w'.echoes = w.echoes
      BY <1>3, SendShown DEF Showing, Drawn
    <2>2. Unheard(lines', w'.token, w'.shown) = Unheard(lines, w.token, w.shown)
      BY <2>1, UnheardDrawn DEF Voiceless, Kept
    <2>3. Due(calls) = 0 /\ Due(calls') = 0
      BY <2>1 DEF Solo, Due, Kept
    <2> QED BY <2>1, <2>2, <2>3 DEF Echoed
  <1>4. CASE SendRefused(r)
    <2>1. /\ Kept(r) /\ r.kind = "send" /\ r.stage = "refused" /\ w'.token = w.token
          /\ w'.shown = w.shown /\ w'.box = (IF w.node = None THEN w.box ELSE "on")
          /\ w'.echoes = (IF w.echoes = 0 THEN 0 ELSE w.echoes - 1)
      BY <1>4, SendTakenBack
    <2>2. Due(calls) = 1 /\ Due(calls') = 0 /\ ~\E s \in calls' : s.kind = "send"
      BY <2>1 DEF Solo, Due, Kept
    <2>3. Unheard(lines', w'.token, w'.shown) = Unheard(lines, w.token, w.shown)
      BY <2>1 DEF Kept
    <2> DEFINE n == Cardinality(Unheard(lines, w.token, w.shown))
    <2>4. n \in Nat /\ w.echoes \in Nat
      <3>1. lines' = lines /\ Len(lines) \in Nat
        BY <2>1, TypeParts DEF Kept
      <3>2. Len(lines') \in Nat /\ Len(lines) <= Len(lines') /\ \A i \in 1..Len(lines) : lines'[i] = lines[i]
        BY <3>1
      <3> QED BY <3>2, UnheardGrows, TypeParts DEF WidgetOf
    <2>5. w.echoes <= n + 1
      BY <2>1, <2>2 DEF Echoed
    <2> HIDE DEF n
    <2>6. w'.echoes <= n + Due(calls')
      BY <2>1, <2>2, <2>4, <2>5
    <2>7. w'.box # "off"
      BY <2>1 DEF Solo
    <2> QED BY <2>3, <2>6, <2>7 DEF Echoed, n
  <1>5. CASE PollAnswered(r)
    <2>1. Kept(r) /\ r.kind = "poll" /\ r.stage = "back" /\ PollShows(r) /\ Drawn(w', w, r.got.ids)
          /\ w'.echoes = w.echoes
      BY <1>5, PollShown DEF PollShows, Drawn
    <2>2. Unheard(lines', w'.token, w'.shown) = Unheard(lines, w.token, w.shown)
      BY <2>1, UnheardDrawn DEF Voiceless, Kept
    <2>3. w'.box = "on" => w.box = "on" \/ \E s \in calls : s.kind = "send"
      <3> SUFFICES ASSUME w'.box = "on", w.box # "on" PROVE \E s \in calls : s.kind = "send"
        OBVIOUS
      <3>1. r.got.live /\ ~w.live
        BY <2>1 DEF PollShows
      <3>2. r.conv = w.token /\ w.token # 0
        BY <2>1, RequestFields DEF Solo
      <3>3. convs[w.token].live
        BY <2>1, <3>1, <3>2 DEF Fitted
      <3> QED BY <2>1, <3>1, <3>2, <3>3 DEF Known
    <2>4. w'.box = "off" => w.box = "off"
      BY <2>1 DEF PollShows
    <2> QED BY <2>1, <2>2, <2>3, <2>4, EchoedTaken
  <1>6. CASE RestoreAnswered(r)
    <2>1. w'.echoes = 0
      BY <1>6, RestoreShown DEF Solo, Echoed, RestoreShows, Drawn
    <2> QED BY <2>1, EchoedNothing
  <1>7. CASE CallFailed(r)
    <2>1. Kept(r) /\ FailureShows(r)
      BY <1>7, FailureShown
    <2>2. CASE r.kind = "send"
      <3>1. w'.box = "failed" /\ ~\E s \in calls' : s.kind = "send"
        BY <2>1, <2>2 DEF Solo, FailureShows, Kept
      <3> QED BY <3>1 DEF Echoed
    <2>3. CASE r.kind # "send"
      <3>1. w'.echoes = w.echoes /\ w'.token = w.token /\ w'.shown = w.shown /\ lines' = lines
            /\ (w'.box = "on" => w.box = "on") /\ (w'.box = "off" => w.box = "off")
        BY <2>1 DEF FailureShows, Kept
      <3> QED BY <2>1, <2>3, <3>1, EchoedTaken
    <2> QED BY <2>2, <2>3
  <1> QED BY <1>1, <1>2, <1>3, <1>4, <1>5, <1>6, <1>7 DEF Answered

LEMMA EchoedStep ==
  ASSUME Once, TypeOK, Solo(w, calls), Rows(calls, convs, lines), Fitted(w, calls, convs),
         Voiceless(calls, lines), Known(w, calls, convs), Echoed(w, calls, lines), [Next]_vars
  PROVE  Echoed(w', calls', lines')
  <1>t. TypeOK' /\ w.echoes \in Nat /\ Len(lines) \in Nat
    BY TypeStep, TypeParts DEF WidgetOf
  <1>1. CASE OpenPanel
    BY <1>t, <1>1, PanelOpened, EchoedNothing DEF Blank
  <1>2. CASE Close
    <2>1. /\ calls' = calls /\ lines' = lines /\ w'.token = w.token /\ w'.box = w.box
          /\ w'.shown = w.shown /\ w'.echoes = w.echoes
      BY <1>2, PanelClosed
    <2> QED BY <2>1 DEF Echoed
  <1>3. CASE NewChat
    BY <1>t, <1>3, ChatRestarted, EchoedNothing DEF Blank
  <1>4. CASE PollTick
    <2>1. PICK new : calls' = calls \cup {new} /\ new.kind = "poll"
      BY <1>4, PollSent
    <2>2. w' = w /\ lines' = lines
      BY <1>4, PollSent
    <2>3. Due(calls') = Due(calls)
      BY <2>1 DEF Due
    <2> QED BY <2>1, <2>2, <2>3 DEF Echoed
  <1>5. ASSUME NEW answer \in Answers, NEW tapped \in BOOLEAN, Send(answer, tapped)
        PROVE  Echoed(w', calls', lines')
    <2>1. PICK new : calls' = calls \cup {new} /\ new.kind = "send" /\ new.stage = "out"
      BY <1>5, ReplySent
    <2>2. /\ lines' = lines /\ w'.box = "on" /\ w.box = "on" /\ ~w.busy /\ w'.echoes = w.echoes + 1
          /\ w'.token = w.token /\ w'.shown = w.shown
      BY <1>5, ReplySent
    <2>3. Due(calls) = 0 /\ Due(calls') = 1
      BY <2>1, <2>2 DEF Solo, Due
    <2> DEFINE n == Cardinality(Unheard(lines, w.token, w.shown))
    <2>4. n \in Nat
      <3>1. Len(lines') \in Nat /\ Len(lines) <= Len(lines') /\ \A i \in 1..Len(lines) : lines'[i] = lines[i]
        BY <1>t, <2>2
      <3> QED BY <3>1, UnheardGrows
    <2>5. w.echoes <= n + 0
      BY <2>2, <2>3 DEF Echoed
    <2> HIDE DEF n
    <2>6. w'.echoes <= n + Due(calls')
      BY <1>t, <2>2, <2>3, <2>4, <2>5
    <2> QED BY <2>2, <2>6 DEF Echoed, n
  <1>6. ASSUME NEW r \in calls, Served(r)
        PROVE  Echoed(w', calls', lines')
    BY <1>6, EchoedServed
  <1>7. ASSUME NEW r \in calls, LoseRequest(r) \/ LoseAnswer(r)
        PROVE  Echoed(w', calls', lines')
    <2>1. PICK new : Dropped(r, new)
      BY <1>7, CallDropped
    <2>2. /\ w' = w /\ calls' = (calls \ {r}) \cup {new} /\ new.kind = r.kind /\ new.stage # "back"
          /\ lines' = lines
      BY <2>1 DEF Dropped
    <2>3. Len(lines') \in Nat /\ Len(lines) <= Len(lines') /\ \A i \in 1..Len(lines) : lines'[i] = lines[i]
      BY <1>t, <2>2
    <2> QED BY <2>2, <2>3, EchoedMoved
  <1>8. ASSUME NEW r \in calls, Answered(r)
        PROVE  Echoed(w', calls', lines')
    BY <1>t, <1>8, EchoedAnswered
  <1>9. ASSUME NEW c \in Tokens, AgentReplies(c)
        PROVE  Echoed(w', calls', lines')
    <2>1. w' = w /\ calls' = calls /\ Len(lines') \in Nat /\ Len(lines) <= Len(lines')
          /\ \A i \in 1..Len(lines) : lines'[i] = lines[i]
      BY <1>9, AgentWrote DEF AgentWrites, Adds
    <2>2. LET old == Cardinality(Unheard(lines, w.token, w.shown))
              now == Cardinality(Unheard(lines', w.token, w.shown))
          IN old \in Nat /\ now \in Nat /\ old <= now
      BY <2>1, UnheardGrows
    <2>3. Due(calls) \in {0, 1}
      BY DEF Due
    <2> QED BY <1>t, <2>1, <2>2, <2>3 DEF Echoed
  <1>10. ASSUME NEW c \in Tokens, AgentCloses(c)
         PROVE  Echoed(w', calls', lines')
    <2>1. w' = w /\ calls' = calls /\ lines' = lines
      BY <1>10 DEF AgentCloses
    <2> QED BY <2>1
  <1>11. CASE UNCHANGED vars
    BY <1>11 DEF vars
  <1> QED BY <1>1, <1>2, <1>3, <1>4, <1>5, <1>6, <1>7, <1>8, <1>9, <1>10, <1>11 DEF Next

\* The widget draws a reply as it sends it and is never told its number.
\* While the chat is open to replies there is, for each one drawn so, a line
\* the server recorded or a reply still on its way: none stays on screen
\* that the server took back, dropped or never had (Once).
THEOREM EchoesAreRecorded ==
  ASSUME Once
  PROVE  Spec => []EchoIsRecorded
  <1> DEFINE Inv == /\ Solo(w, calls) /\ Rows(calls, convs, lines) /\ Fitted(w, calls, convs)
                    /\ Voiceless(calls, lines) /\ Known(w, calls, convs) /\ Echoed(w, calls, lines)
  <1>1. Init => TypeOK /\ Inv
    <2> SUFFICES ASSUME Init PROVE TypeOK /\ Inv
      OBVIOUS
    <2>1. w.node = None /\ w.token = 0 /\ w.echoes = 0 /\ w.box = "off" /\ calls = {}
      BY DEF Init
    <2>2. Fitted(w, calls, convs) /\ Voiceless(calls, lines) /\ Known(w, calls, convs)
          /\ Echoed(w, calls, lines)
      BY <2>1 DEF Fitted, Fits, Voiceless, Known, Echoed
    <2> QED BY <2>2, TypeInit, OrderInit
  <1>2. TypeOK /\ Inv /\ [Next]_vars => (TypeOK /\ Inv)'
    <2> SUFFICES ASSUME TypeOK, Inv, [Next]_vars PROVE (TypeOK /\ Inv)'
      OBVIOUS
    <2>1. TypeOK'
      BY TypeStep
    <2>2. Solo(w', calls')
      BY SoloStep DEF Once
    <2>3. Rows(calls', convs', lines')
      BY RowsStep DEF Once
    <2>4. Fitted(w', calls', convs')
      BY FittedStep
    <2>5. Voiceless(calls', lines')
      BY VoicelessStep
    <2>6. Known(w', calls', convs')
      BY KnownStep
    <2>7. Echoed(w', calls', lines')
      BY EchoedStep
    <2> QED BY <2>1, <2>2, <2>3, <2>4, <2>5, <2>6, <2>7
  <1>3. TypeOK /\ Inv => EchoIsRecorded
    <2> SUFFICES ASSUME TypeOK, Inv, w.box = "on" PROVE EchoIsRecorded
      BY DEF EchoIsRecorded
    <2> DEFINE mine == {i \in LinesOf(w.token) \ w.shown : lines[i].role = "visitor"}
    <2>1. mine = Unheard(lines, w.token, w.shown)
      BY DEF LinesOf, Unheard
    <2>2. w.echoes <= Cardinality(mine) + Due(calls)
      BY <2>1 DEF Echoed
    <2>3. Due(calls) = 0 \/ (Due(calls) = 1 /\ w.busy)
      BY DEF Due, Solo
    <2>4. Cardinality(mine) \in Nat /\ w.echoes \in Nat
      <3>1. IsFiniteSet(1..Len(lines))
        BY TypeParts, FS_Interval
      <3>2. mine \subseteq 1..Len(lines)
        BY DEF LinesOf
      <3> QED BY <3>1, <3>2, FS_Subset, FS_CardinalityType, TypeParts DEF WidgetOf
    <2> HIDE DEF mine
    <2>5. w.echoes <= Cardinality(mine) + (IF w.busy THEN 1 ELSE 0)
      BY <2>2, <2>3, <2>4
    <2> QED BY <2>5 DEF EchoIsRecorded, mine
  <1> QED BY <1>1, <1>2, <1>3, PTL DEF Spec
=============================================================================
