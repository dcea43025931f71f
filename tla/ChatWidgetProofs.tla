-------------------------- MODULE ChatWidgetProofs --------------------------
(***************************************************************************)
(* What each action of ChatWidget does, and what every reachable state is  *)
(* whatever the visitor, the agents and the network do: well typed, with   *)
(* every line drawn once.                                                  *)
(*                                                                         *)
(* An action has one lemma (BeginServed, MessageApplied, ...) that says    *)
(* what it does in a predicate (Begun, Applied, ...) of the fields that    *)
(* the proofs look at.  ChatAnswersProofs reasons from these.              *)
(***************************************************************************)
EXTENDS ChatWidget, SequenceTheorems, FiniteSetTheorems, TLAPS

-----------------------------------------------------------------------------
(***************************************************************************)
(* advance() comes to a stop from every step, for every flow whose         *)
(* speaking steps do not lead round; and what handle() answers, as the     *)
(* proofs about the widget use it.                                         *)
(***************************************************************************)

Nodes == Steps \cup {None}
Next1(n) == Flow[n].to["go"]
GoesOn(n, free) ==
  n # None /\ (Flow[n].type = "message" \/ (Flow[n].type = "handoff" /\ ~free))

\* What is said from a step on, given what is said from the next one on.
Told(n, rest, free) ==
  IF n = None THEN [said |-> <<"bot">>, stop |-> None]
  ELSE IF Flow[n].type = "message" \/ (Flow[n].type = "handoff" /\ ~free)
       THEN [rest EXCEPT !.said = <<"bot">> \o @]
       ELSE [said |-> IF Flow[n].type = "handoff" THEN <<"system", "bot">> ELSE <<"bot">>,
             stop |-> n]

Said == [said : Seq({"bot", "system"}), stop : Nodes]
Stopped(free) == {t \in Said : ~GoesOn(t.stop, free)}

\* f tells what is said from the steps of D on, which leads nowhere else.
Follows(f, D, free) ==
  /\ D \subseteq Nodes
  /\ \A n \in D : GoesOn(n, free) => Next1(n) \in D
  /\ \A n \in D : f[n] = Told(n, f[Next1(n)], free)
Tells(f, D, free) == Follows(f, D, free) /\ f \in [D -> Stopped(free)]

LEMMA ToldType ==
  ASSUME NEW free, NEW n \in Nodes
  PROVE  /\ ~GoesOn(n, free) => \A rest : /\ Told(n, rest, free) = Told(n, None, free)
                                          /\ Told(n, rest, free) \in Stopped(free)
         /\ GoesOn(n, free) => \A rest \in Stopped(free) : Told(n, rest, free) \in Stopped(free)
         /\ GoesOn(n, free) => Next1(n) \in Nodes /\ Speaks(n) /\ n \in Steps
  <1>1. ASSUME ~GoesOn(n, free), NEW rest
        PROVE  /\ Told(n, rest, free) = Told(n, None, free)
               /\ Told(n, rest, free) \in Stopped(free)
    <2>1. Told(n, rest, free) = [said |-> IF n # None /\ Flow[n].type = "handoff" THEN <<"system", "bot">> ELSE <<"bot">>,
                                 stop |-> n]
      BY <1>1 DEF Told, GoesOn
    <2>2. Told(n, None, free) = Told(n, rest, free)
      BY <1>1 DEF Told, GoesOn
    <2>3. <<"system", "bot">> \in Seq({"bot", "system"}) /\ <<"bot">> \in Seq({"bot", "system"})
      OBVIOUS
    <2>4. Told(n, rest, free) \in Said /\ Told(n, rest, free).stop = n
      <3> DEFINE words == IF n # None /\ Flow[n].type = "handoff" THEN <<"system", "bot">> ELSE <<"bot">>
      <3>1. words \in Seq({"bot", "system"})
        BY <2>3
      <3> HIDE DEF words
      <3>2. [said |-> words, stop |-> n] \in Said
        BY <3>1 DEF Said
      <3> QED BY <2>1, <3>2 DEF words
    <2> QED BY <1>1, <2>2, <2>4 DEF Stopped
  <1>2. ASSUME GoesOn(n, free), NEW rest \in Stopped(free)
        PROVE  Told(n, rest, free) \in Stopped(free)
    <2>1. Told(n, rest, free) = [rest EXCEPT !.said = <<"bot">> \o @]
      BY <1>2 DEF Told, GoesOn
    <2>2. <<"bot">> \o rest.said \in Seq({"bot", "system"})
      <3>1. rest.said \in Seq({"bot", "system"}) /\ <<"bot">> \in Seq({"bot", "system"})
        BY <1>2 DEF Stopped, Said
      <3> QED BY <3>1, ConcatProperties
    <2>3. Told(n, rest, free) \in Said /\ Told(n, rest, free).stop = rest.stop
      BY <1>2, <2>1, <2>2 DEF Stopped, Said
    <2> QED BY <1>2, <2>3 DEF Stopped
  <1>3. ASSUME GoesOn(n, free) PROVE Next1(n) \in Nodes /\ Speaks(n) /\ n \in Steps
    BY <1>3, FlowAssumption, SpeakingStepsEnd DEF GoesOn, Next1, Nodes, Speaks
  <1> QED BY <1>1, <1>2, <1>3

LEMMA FollowSame ==
  ASSUME NEW free, NEW f, NEW g, NEW D, NEW E, Follows(f, D, free), Follows(g, E, free),
         NEW n \in D \cap E
  PROVE  f[n] = g[n]
  <1> DEFINE R == {m \in D \cap E : f[m] # g[m]}
  <1> SUFFICES ASSUME R # {} PROVE FALSE
    OBVIOUS
  <1>1. ASSUME NEW m \in R PROVE GoesOn(m, free) /\ Next1(m) \in R
    <2>1. m \in Nodes /\ f[m] = Told(m, f[Next1(m)], free) /\ g[m] = Told(m, g[Next1(m)], free)
      BY DEF Tells, Follows
    <2>2. GoesOn(m, free)
      BY <2>1, ToldType
    <2> QED BY <2>1, <2>2 DEF Tells, Follows
  <1>2. R \in SUBSET {m \in Steps : Speaks(m)}
    BY <1>1, ToldType DEF Tells, Follows
  <1> QED BY <1>1, <1>2, SpeakingStepsEnd DEF Next1

LEMMA TellsAll ==
  ASSUME NEW free
  PROVE  \E f : Tells(f, Nodes, free)
  <1> DEFINE U == UNION {D \in SUBSET Nodes : \E f : Tells(f, D, free)}
             F == [n \in U |-> (CHOOSE f : \E D \in SUBSET Nodes : n \in D /\ Tells(f, D, free))[n]]
  <1>1. ASSUME NEW D, NEW f, Tells(f, D, free), NEW n \in D
        PROVE  n \in U /\ F[n] = f[n]
    <2>1. D \in SUBSET Nodes /\ n \in U
      BY <1>1 DEF Tells, Follows
    <2> DEFINE g == CHOOSE g : \E E \in SUBSET Nodes : n \in E /\ Tells(g, E, free)
    <2>2. PICK E \in SUBSET Nodes : n \in E /\ Tells(g, E, free)
      BY <1>1, <2>1
    <2>3. g[n] = f[n]
      BY <1>1, <2>2, FollowSame DEF Tells
    <2> QED BY <2>1, <2>3
  <1>2. ASSUME NEW n \in U
        PROVE  /\ n \in Nodes /\ F[n] \in Stopped(free) /\ (GoesOn(n, free) => Next1(n) \in U)
               /\ F[n] = Told(n, F[Next1(n)], free)
    <2>1. \E D \in SUBSET Nodes : n \in D /\ \E f : Tells(f, D, free)
      OBVIOUS
    <2>a. PICK D, f : D \in SUBSET Nodes /\ n \in D /\ Tells(f, D, free)
      BY <2>1
    <2>2. F[n] = f[n] /\ f[n] \in Stopped(free) /\ f[n] = Told(n, f[Next1(n)], free)
      BY <1>1, <2>a DEF Tells, Follows
    <2>3. CASE GoesOn(n, free)
      <3>1. Next1(n) \in U /\ F[Next1(n)] = f[Next1(n)]
        <4>1. Next1(n) \in D
          BY <2>a, <2>3 DEF Tells, Follows
        <4> HIDE DEF U, F
        <4> QED BY <1>1, <2>a, <4>1
      <3> HIDE DEF U, F
      <3> QED BY <2>a, <2>2, <3>1
    <2>4. CASE ~GoesOn(n, free)
      <3> HIDE DEF U, F
      <3> QED BY <2>a, <2>2, <2>4, ToldType
    <2> QED BY <2>3, <2>4
  <1>3. F = [n \in U |-> F[n]]
    OBVIOUS
  <1>h. \A n : n \in U <=> \E D \in SUBSET Nodes : n \in D /\ \E f : Tells(f, D, free)
    OBVIOUS
  <1> HIDE DEF U, F
  <1>4. Tells(F, U, free)
    BY <1>2, <1>3 DEF Tells, Follows
  <1>5. ASSUME NEW n \in Nodes, n \notin U PROVE GoesOn(n, free) /\ Next1(n) \notin U
    <2>1. ASSUME GoesOn(n, free) => Next1(n) \in U PROVE FALSE
      <3> DEFINE new == Told(n, F[Next1(n)], free)
                 G == [m \in U \cup {n} |-> IF m = n THEN new ELSE F[m]]
      <3>1. new \in Stopped(free)
        BY <1>2, <2>1, ToldType
      <3>2. \A m \in U \cup {n} : GoesOn(m, free) => Next1(m) \in U
        BY <1>2, <2>1
      <3>3. \A m \in U : G[m] = F[m]
        BY <1>5
      <3>4. \A m \in U \cup {n} : G[m] = Told(m, G[Next1(m)], free)
        <4>1. ASSUME NEW m \in U \cup {n} PROVE G[m] = Told(m, F[Next1(m)], free)
          BY <1>2, <3>3
        <4>2. ASSUME NEW m \in U \cup {n}
              PROVE  Told(m, F[Next1(m)], free) = Told(m, G[Next1(m)], free)
          <5>0. m \in Nodes
            BY <1>2, <1>5
          <5>1. CASE GoesOn(m, free)
            BY <3>2, <3>3, <5>1
          <5>2. CASE ~GoesOn(m, free)
            <6> HIDE DEF G
            <6> QED BY <5>0, <5>2, ToldType
          <5> QED BY <5>1, <5>2
        <4> HIDE DEF G
        <4> QED BY <4>1, <4>2
      <3>5. G \in [U \cup {n} -> Stopped(free)]
        BY <1>2, <3>1
      <3>6. Tells(G, U \cup {n}, free)
        <4> HIDE DEF G
        <4> QED BY <1>2, <1>5, <3>2, <3>4, <3>5 DEF Tells, Follows
      <3>7. U \cup {n} \in SUBSET Nodes
        BY <1>2
      <3> HIDE DEF G
      <3> QED BY <1>5, <1>h, <3>6, <3>7
    <2> QED BY <2>1
  <1>6. Nodes \ U = {}
    <2> DEFINE R == Nodes \ U
    <2>1. \A n \in R : GoesOn(n, free) /\ Next1(n) \in R /\ n \in Steps /\ Speaks(n)
      BY <1>5, ToldType
    <2>2. R \in SUBSET {n \in Steps : Speaks(n)}
      BY <2>1
    <2> QED BY <2>1, <2>2, SpeakingStepsEnd DEF Next1
  <1>7. U = Nodes
    BY <1>2, <1>6
  <1> QED BY <1>4, <1>7

LEMMA WalkTells ==
  ASSUME NEW free
  PROVE  \E f : Tells(f, Nodes, free) /\ \A from \in Nodes : Walk(from, free) = f[from]
  <1> DEFINE Walking(f) == f = [n \in Nodes |-> Told(n, f[Next1(n)], free)]
  <1>1. PICK f : Tells(f, Nodes, free)
    BY TellsAll
  <1>2. Walking(f)
    <2>1. f = [n \in Nodes |-> f[n]]
      BY <1>1 DEF Tells, Follows
    <2> QED BY <1>1, <2>1 DEF Tells, Follows
  <1> DEFINE g == CHOOSE g : Walking(g)
  <1>3. \A from : Walk(from, free) = g[from]
    BY DEF Walk, Told, Next1, Nodes
  <1>4. Walking(g)
    BY <1>2
  <1> HIDE DEF g
  <1>5. Follows(g, Nodes, free)
    BY <1>1, <1>4 DEF Tells, Follows
  <1>6. \A n \in Nodes : g[n] = f[n]
    BY <1>1, <1>5, FollowSame DEF Tells
  <1> QED BY <1>1, <1>3, <1>6

\* advance() comes to a stop from every step, at a step that does not lead
\* on by itself, having said bot and system lines only.
THEOREM WalkStops ==
  \A free : \A from \in Nodes :
    /\ Walk(from, free) \in [said : Seq({"bot", "system"}), stop : Nodes]
    /\ ~GoesOn(Walk(from, free).stop, free)
  <1> SUFFICES ASSUME NEW free, NEW from \in Nodes
               PROVE  Walk(from, free) \in Stopped(free)
    BY DEF Stopped, Said
  <1> QED BY WalkTells DEF Tells

-----------------------------------------------------------------------------
(* What a handler's result says.                                           *)

AllBoxes == Steps \cup {None, LiveStep}
Result == [refused : BOOLEAN, heard : AllBoxes, said : Seq({"bot", "system"}), cursor : Nodes,
           live : BOOLEAN, closed : BOOLEAN, node : AllBoxes]

\* The box handed to the widget is the one the conversation is at.
NodeFits(res) ==
  res.node # None => IF res.node = LiveStep THEN res.live ELSE ~res.live /\ res.cursor = res.node

LEMMA AdvanceResult ==
  ASSUME NEW c, c.cursor \in Nodes, NEW from \in Nodes, NEW heard \in AllBoxes, NEW free
  PROVE  /\ Advance(c, from, heard, free) \in Result
         /\ ~Advance(c, from, heard, free).refused
         /\ Advance(c, from, heard, free).heard = heard
         /\ NodeFits(Advance(c, from, heard, free))
  <1> DEFINE walk == Walk(from, free)
             handed == walk.stop # None /\ Flow[walk.stop].type = "handoff"
             res == Advance(c, from, heard, free)
             cursor == IF Asks(walk.stop) THEN walk.stop
                       ELSE IF walk.stop # None /\ Flow[walk.stop].type = "end" THEN None
                       ELSE c.cursor
             node == IF handed THEN LiveStep ELSE IF Asks(walk.stop) THEN walk.stop ELSE None
             closed == walk.stop = None \/ walk.stop \in Closing
  <1>1. walk.said \in Seq({"bot", "system"}) /\ walk.stop \in Nodes
    BY WalkStops
  <1>2. res = [refused |-> FALSE, heard |-> heard, said |-> walk.said, cursor |-> cursor,
               live |-> handed, closed |-> closed, node |-> node]
    BY DEF Advance
  <1>3. /\ cursor \in Nodes /\ node \in AllBoxes /\ handed \in BOOLEAN /\ closed \in BOOLEAN
        /\ node # None => IF node = LiveStep THEN handed ELSE ~handed /\ cursor = node
    BY <1>1, FlowAssumption DEF Nodes, AllBoxes, Asks
  <1> HIDE DEF walk, handed, cursor, node, closed, res
  <1>4. res \in Result
    BY <1>1, <1>2, <1>3 DEF Result
  <1>5. NodeFits(res)
    BY <1>2, <1>3 DEF NodeFits
  <1>6. ~res.refused /\ res.heard = heard
    BY <1>2
  <1> QED BY <1>4, <1>5, <1>6 DEF res

\* A reply is recorded for the step the conversation was at when it was
\* loaded, and a chat a person has is answered with nothing.
LEMMA HandleResult ==
  ASSUME NEW c, c.cursor \in Nodes, NEW reply, NEW free
  PROVE  LET res == Handle(c, reply, free)
         IN /\ res \in Result
            /\ NodeFits(res)
            /\ c.live => ~res.refused /\ res.live /\ res.said = <<>>
            /\ res.heard = (IF c.live THEN IF reply.tapped THEN None ELSE LiveStep
                            ELSE IF res.refused THEN None ELSE c.cursor)
            /\ res.refused => res.said = <<>> /\ res.cursor = c.cursor /\ ~res.live /\ ~res.closed
  <1> DEFINE res == Handle(c, reply, free)
  <1>0. None \in AllBoxes /\ LiveStep \in AllBoxes /\ Nodes \subseteq AllBoxes /\ LiveStep # None
        /\ <<>> \in Seq({"bot", "system"})
    BY FlowAssumption DEF AllBoxes, Nodes
  <1>1. CASE c.live
    <2> DEFINE heard == IF reply.tapped THEN None ELSE LiveStep
    <2>1. heard \in AllBoxes
      BY <1>0
    <2>2. res = [refused |-> FALSE, heard |-> heard, said |-> <<>>, cursor |-> c.cursor,
                 live |-> TRUE, closed |-> FALSE, node |-> LiveStep]
      BY <1>1 DEF Handle
    <2> HIDE DEF heard, res
    <2>3. res \in Result
      BY <1>0, <2>1, <2>2 DEF Result
    <2>4. NodeFits(res) /\ res.heard = heard /\ ~res.refused /\ res.live /\ res.said = <<>>
      BY <2>2 DEF NodeFits
    <2> QED BY <1>1, <2>3, <2>4 DEF heard, res
  <1>2. CASE ~c.live /\ c.cursor = None
    <2>1. Start \in Nodes
      BY FlowAssumption DEF Nodes
    <2>2. res = Advance(c, Start, None, free)
      BY <1>2 DEF Handle
    <2> HIDE DEF res
    <2>3. res \in Result /\ ~res.refused /\ res.heard = None /\ NodeFits(res)
      BY <1>0, <2>1, <2>2, AdvanceResult
    <2> QED BY <1>2, <2>3 DEF res
  <1>3. CASE ~c.live /\ c.cursor # None /\ Accepts(c.cursor, reply.answer)
    <2>1. Flow[c.cursor].to[reply.answer] \in Nodes
      BY <1>3, FlowAssumption DEF Accepts, Asks, Nodes
    <2>2. res = Advance(c, Flow[c.cursor].to[reply.answer], c.cursor, free)
      BY <1>3 DEF Handle
    <2> HIDE DEF res
    <2>3. res \in Result /\ ~res.refused /\ res.heard = c.cursor /\ NodeFits(res)
      BY <1>0, <2>1, <2>2, AdvanceResult
    <2> QED BY <1>3, <2>3 DEF res
  <1>4. CASE ~c.live /\ c.cursor # None /\ ~Accepts(c.cursor, reply.answer)
    <2>1. res = Refused(c)
      BY <1>4 DEF Handle
    <2>2. res = [refused |-> TRUE, heard |-> None, said |-> <<>>, cursor |-> c.cursor,
                 live |-> FALSE, closed |-> FALSE, node |-> None]
      BY <2>1 DEF Refused
    <2> HIDE DEF res
    <2>3. res \in Result
      BY <1>0, <2>2 DEF Result
    <2> QED BY <1>4, <2>2, <2>3 DEF res, NodeFits
  <1> QED BY <1>1, <1>2, <1>3, <1>4

-----------------------------------------------------------------------------
(* The actions of the widget, the server, the agents and the network.     *)

\* The types of TypeOK, for C conversations and L lines.
WidgetOf(u, C, L) ==
  u \in [token : 0..C, open : BOOLEAN, busy : BOOLEAN, live : BOOLEAN,
         shown : SUBSET (1..L), last : 0..L, node : Boxes, timer : BOOLEAN,
         box : {"off", "on", "ended", "failed"}, log : [u.shown -> Nat], echoes : Nat]
ConversationOf(L) == [cursor : Nodes, live : BOOLEAN, closed : BOOLEAN, seen : 0..L]
LineOf(C) == [conv : 1..C, role : {"bot", "system", "visitor", "agent"}, step : Boxes, asked : Boxes]
AnswerOf(L) == [ids : SUBSET (1..L), node : Boxes, live : BOOLEAN, closed : BOOLEAN]
GotAt(stage, L) == IF stage = "loaded" THEN ConversationOf(L)
                   ELSE IF stage \in {"back", "typing"} THEN AnswerOf(L) ELSE {None}
RequestOf(r, C, L) ==
  /\ r \in [kind : Kinds, conv : 0..C, since : 0..L, answer : Answers \cup {None},
            tapped : BOOLEAN, asked : Boxes, tries : {1, 2},
            stage : {"out", "loaded", "back", "typing", "refused", "gone", "dead"},
            got : ConversationOf(L) \cup AnswerOf(L) \cup {None}]
  /\ r.stage \in StagesOf[r.kind]
  /\ r.conv = 0 => r.kind = "begin" /\ r.stage \in {"out", "dead"}
  /\ r.got \in GotAt(r.stage, L)
CountType == [sends : Nat, faults : Nat, opens : Nat]

LEMMA StagesUnion ==
  UNION {StagesOf[k] : k \in Kinds} = {"out", "loaded", "back", "typing", "refused", "gone", "dead"}
  BY DEF StagesOf, Kinds

LEMMA TypeParts ==
  TypeOK <=> /\ WidgetOf(w, Len(convs), Len(lines))
             /\ convs \in Seq(ConversationOf(Len(lines)))
             /\ lines \in Seq(LineOf(Len(convs)))
             /\ \A r \in calls : RequestOf(r, Len(convs), Len(lines))
             /\ count \in CountType
  BY StagesUnion DEF TypeOK, WidgetOf, ConversationOf, LineOf, RequestOf, GotAt, AnswerOf, CountType, Conversation,
         Line, Answer, Request, Tokens, Ids, Nodes

LEMMA TypePartsNext ==
  TypeOK' <=> /\ WidgetOf(w', Len(convs'), Len(lines'))
              /\ convs' \in Seq(ConversationOf(Len(lines')))
              /\ lines' \in Seq(LineOf(Len(convs')))
              /\ \A r \in calls' : RequestOf(r, Len(convs'), Len(lines'))
              /\ count' \in CountType
  BY StagesUnion DEF TypeOK, WidgetOf, ConversationOf, LineOf, RequestOf, GotAt, AnswerOf, CountType, Conversation,
         Line, Answer, Request, Tokens, Ids, Nodes

\* More conversations and lines leave what was typed typed.
LEMMA TypesGrow ==
  ASSUME NEW C \in Nat, NEW L \in Nat, NEW D \in Nat, NEW M \in Nat, C <= D, L <= M
  PROVE  /\ \A u : WidgetOf(u, C, L) => WidgetOf(u, D, M)
         /\ \A r : RequestOf(r, C, L) => RequestOf(r, D, M)
         /\ ConversationOf(L) \subseteq ConversationOf(M)
         /\ LineOf(C) \subseteq LineOf(D)
  <1>1. 0..C \subseteq 0..D /\ 1..C \subseteq 1..D /\ 0..L \subseteq 0..M
        /\ SUBSET (1..L) \subseteq SUBSET (1..M)
    OBVIOUS
  <1>2. ConversationOf(L) \subseteq ConversationOf(M) /\ LineOf(C) \subseteq LineOf(D)
        /\ AnswerOf(L) \subseteq AnswerOf(M)
    BY <1>1 DEF ConversationOf, LineOf, AnswerOf
  <1>3. ASSUME NEW u, WidgetOf(u, C, L) PROVE WidgetOf(u, D, M)
    BY <1>1, <1>3 DEF WidgetOf
  <1>4. ASSUME NEW r, RequestOf(r, C, L) PROVE RequestOf(r, D, M)
    BY <1>1, <1>2, <1>4 DEF RequestOf, GotAt
  <1> QED BY <1>2, <1>3, <1>4

\* The largest of some numbers with a bound: the numbers up to one of them
\* are finitely many, and adding 1 to each would otherwise miss only 0.
LEMMA MaxOf ==
  ASSUME NEW n \in Nat, NEW S \in SUBSET (0..n), S # {}
  PROVE  Max(S) \in S /\ \A i \in S : i <= Max(S)
  <1> DEFINE U == {m \in 0..n : \E i \in S : m <= i}
             up == [m \in U |-> m + 1]
  <1>1. \E m \in S : \A i \in S : m >= i
    <2> SUFFICES ASSUME \A m \in S : \E i \in S : m < i PROVE FALSE
      OBVIOUS
    <2>1. IsFiniteSet(U) /\ 0 \in U
      <3>1. IsFiniteSet(0..n)
        BY FS_Interval
      <3>2. IsFiniteSet(U)
        BY <3>1, FS_Subset
      <3>3. \E i \in S : 0 <= i
        <4>1. PICK i \in S : TRUE
          OBVIOUS
        <4>2. i \in 0..n
          OBVIOUS
        <4> QED BY <4>2
      <3> QED BY <3>2, <3>3
    <2>2. up \in [U -> U \ {0}]
      OBVIOUS
    <2>3. \A a, b \in U : up[a] = up[b] => a = b
      OBVIOUS
    <2> HIDE DEF U, up
    <2>4. IsFiniteSet(U \ {0}) /\ Cardinality(U \ {0}) = Cardinality(U) - 1
      BY <2>1, FS_RemoveElement
    <2>5. up \in Injection(U, U \ {0})
      BY <2>2, <2>3 DEF Injection, IsInjective
    <2>6. Cardinality(U) <= Cardinality(U \ {0})
      BY <2>1, <2>4, <2>5, FS_Injection
    <2> QED BY <2>1, <2>4, <2>6, FS_CardinalityType
  <1> QED BY <1>1 DEF Max

\* What drawing the lines of an answer does to the widget.
Drawn(new, u, ids) ==
  /\ new.token = u.token /\ new.open = u.open /\ new.echoes = u.echoes
  /\ new.shown = u.shown \cup ids
  /\ new.last \in {u.last} \cup ids /\ u.last <= new.last
  /\ \A i \in DOMAIN new.log : new.log[i] = IF i \in u.shown THEN u.log[i] ELSE 1

LEMMA IncomingType ==
  ASSUME NEW C \in Nat, NEW L \in Nat, NEW u, WidgetOf(u, C, L), NEW ids \in SUBSET (1..L)
  PROVE  LET new == Incoming(u, ids)
         IN /\ WidgetOf(new, C, L) /\ Drawn(new, u, ids)
            /\ new.busy = u.busy /\ new.live = u.live
            /\ new.node = u.node /\ new.timer = u.timer /\ new.box = u.box
  <1> DEFINE fresh == ids \ u.shown
             last == Max(fresh \cup {u.last})
             log == u.log (+) SetToBag(fresh)
             new == Incoming(u, ids)
  <1>0. u.last \in 0..L /\ u.shown \in SUBSET (1..L) /\ u.log \in [u.shown -> Nat]
    BY DEF WidgetOf
  <1>1. last \in fresh \cup {u.last} /\ u.last <= last
    <2>1. fresh \cup {u.last} \in SUBSET (0..L)
      <3>1. \A i \in 1..L : i \in 0..L
        OBVIOUS
      <3>2. ids \subseteq 0..L
        BY <3>1
      <3> QED BY <1>0, <3>2
    <2> HIDE DEF fresh
    <2>2. fresh \cup {u.last} # {}
      OBVIOUS
    <2> QED BY <2>1, <2>2, MaxOf
  <1>2. log = [i \in u.shown \cup fresh |-> IF i \in u.shown THEN u.log[i] ELSE 1]
    BY <1>0 DEF SetToBag, (+)
  <1>3. u.shown \cup fresh = u.shown \cup ids
    OBVIOUS
  <1>4. new = [u EXCEPT !.shown = u.shown \cup ids, !.last = last, !.log = log]
    BY <1>3 DEF Incoming, WidgetOf
  <1> HIDE DEF last, log, new
  <1>5. log \in [u.shown \cup ids -> Nat] /\ last \in 0..L /\ u.shown \cup ids \in SUBSET (1..L)
    <2>1. log \in [u.shown \cup ids -> Nat]
      BY <1>0, <1>2, <1>3
    <2>2. last \in 0..L
      BY <1>0, <1>1
    <2> QED BY <1>0, <2>1, <2>2
  <1>6. /\ new.token = u.token /\ new.open = u.open /\ new.busy = u.busy /\ new.live = u.live
        /\ new.node = u.node /\ new.timer = u.timer /\ new.box = u.box /\ new.echoes = u.echoes
        /\ new.shown = u.shown \cup ids /\ new.last = last /\ new.log = log
    BY <1>4 DEF WidgetOf
  <1>7. WidgetOf(new, C, L)
    BY <1>4, <1>5 DEF WidgetOf
  <1>8. Drawn(new, u, ids)
    BY <1>1, <1>2, <1>3, <1>6 DEF Drawn
  <1> QED BY <1>6, <1>7, <1>8 DEF new

LEMMA BoxTypes == None \in Boxes /\ LiveStep \in Boxes /\ Nodes \subseteq Boxes /\ None # LiveStep
                  /\ Boxes = AllBoxes
  BY FlowAssumption DEF Boxes, Nodes, AllBoxes

\* What the other parts of the widget's handlers do to it: new keeps what u
\* has of the conversation and its lines.
Keeps(new, u) ==
  /\ new.token = u.token /\ new.open = u.open /\ new.busy = u.busy /\ new.live = u.live
  /\ new.shown = u.shown /\ new.last = u.last /\ new.log = u.log

LEMMA HandlerTypes ==
  ASSUME NEW C \in Nat, NEW L \in Nat, NEW u, WidgetOf(u, C, L), NEW n \in Boxes
  PROVE  /\ WidgetOf(Controls(u, n), C, L) /\ Keeps(Controls(u, n), u)
         /\ Controls(u, n).node = n /\ Controls(u, n).box = "on" /\ Controls(u, n).echoes = u.echoes
         /\ WidgetOf(Ended(u), C, L) /\ Keeps(Ended(u), u)
         /\ Ended(u).node = None /\ Ended(u).box = "ended" /\ ~Ended(u).timer
         /\ Ended(u).echoes = u.echoes
         /\ WidgetOf(Fail(u), C, L) /\ Keeps(Fail(u), u)
         /\ Fail(u).node = None /\ Fail(u).box = "failed" /\ ~Fail(u).timer
         /\ WidgetOf(RemoveEcho(u), C, L) /\ Keeps(RemoveEcho(u), u)
         /\ RemoveEcho(u).echoes = (IF u.echoes = 0 THEN 0 ELSE u.echoes - 1)
         /\ RemoveEcho(u).node = u.node /\ RemoveEcho(u).box = u.box /\ RemoveEcho(u).timer = u.timer
  <1>1. /\ WidgetOf(Controls(u, n), C, L) /\ Keeps(Controls(u, n), u)
        /\ Controls(u, n).node = n /\ Controls(u, n).box = "on" /\ Controls(u, n).echoes = u.echoes
    BY DEF WidgetOf, Controls, Keeps
  <1>2. /\ WidgetOf(Ended(u), C, L) /\ Keeps(Ended(u), u)
        /\ Ended(u).node = None /\ Ended(u).box = "ended" /\ ~Ended(u).timer
        /\ Ended(u).echoes = u.echoes
    BY BoxTypes DEF WidgetOf, Ended, Keeps
  <1>3. /\ WidgetOf(Fail(u), C, L) /\ Keeps(Fail(u), u)
        /\ Fail(u).node = None /\ Fail(u).box = "failed" /\ ~Fail(u).timer
    BY BoxTypes DEF WidgetOf, Fail, Keeps
  <1>4. /\ WidgetOf(RemoveEcho(u), C, L) /\ Keeps(RemoveEcho(u), u)
        /\ RemoveEcho(u).echoes = (IF u.echoes = 0 THEN 0 ELSE u.echoes - 1)
        /\ RemoveEcho(u).node = u.node /\ RemoveEcho(u).box = u.box /\ RemoveEcho(u).timer = u.timer
    BY DEF WidgetOf, RemoveEcho, Keeps
  <1> QED BY <1>1, <1>2, <1>3, <1>4

\* What render() does to the widget.
Showing(new, u, got) ==
  /\ Drawn(new, u, got.ids)
  /\ new.live <=> (u.live \/ got.live)
  /\ new.node = got.node
  /\ new.box = (IF got.node = None THEN "ended" ELSE "on")
  /\ new.timer => got.node # None

LEMMA RenderedType ==
  ASSUME NEW C \in Nat, NEW L \in Nat, NEW u, WidgetOf(u, C, L), NEW got \in AnswerOf(L)
  PROVE  LET new == Rendered(u, got)
         IN WidgetOf(new, C, L) /\ Showing(new, u, got) /\ new.busy = u.busy
  <1> DEFINE drawn == Incoming(u, got.ids)
  <1>1. got.ids \in SUBSET (1..L) /\ got.node \in Boxes /\ got.live \in BOOLEAN
    BY DEF AnswerOf
  <1>2. WidgetOf(drawn, C, L) /\ Drawn(drawn, u, got.ids) /\ drawn.live = u.live /\ drawn.busy = u.busy
    BY <1>1, IncomingType
  <1> HIDE DEF drawn
  <1> DEFINE shown == [drawn EXCEPT !.live = @ \/ got.live]
  <1>3. /\ WidgetOf(shown, C, L)
        /\ shown.token = drawn.token /\ shown.open = drawn.open /\ shown.busy = u.busy
        /\ shown.echoes = drawn.echoes /\ shown.live = (u.live \/ got.live)
        /\ shown.shown = drawn.shown /\ shown.last = drawn.last /\ shown.log = drawn.log
    BY <1>1, <1>2 DEF WidgetOf
  <1>4. Rendered(u, got) = IF got.node = None THEN Ended(shown) ELSE Controls(shown, got.node)
    BY DEF Rendered, drawn
  <1> HIDE DEF shown
  <1>5. Drawn(shown, u, got.ids)
    BY <1>2, <1>3 DEF Drawn
  <1>6. CASE got.node = None
    <2> DEFINE new == Ended(shown)
    <2>1. /\ WidgetOf(new, C, L) /\ Keeps(new, shown) /\ new.node = None /\ new.box = "ended"
          /\ ~new.timer /\ new.echoes = shown.echoes
      BY <1>1, <1>3, HandlerTypes
    <2> HIDE DEF new
    <2>2. Drawn(new, u, got.ids)
      BY <1>5, <2>1 DEF Drawn, Keeps
    <2> QED BY <1>3, <1>4, <1>6, <2>1, <2>2 DEF Keeps, Showing, new
  <1>7. CASE got.node # None
    <2> DEFINE new == Controls(shown, got.node)
    <2>1. /\ WidgetOf(new, C, L) /\ Keeps(new, shown) /\ new.node = got.node /\ new.box = "on"
          /\ new.echoes = shown.echoes
      BY <1>1, <1>3, HandlerTypes
    <2> HIDE DEF new
    <2>2. Drawn(new, u, got.ids)
      BY <1>5, <2>1 DEF Drawn, Keeps
    <2> QED BY <1>3, <1>4, <1>7, <2>1, <2>2 DEF Keeps, Showing, new
  <1> QED BY <1>6, <1>7

\* The lines a handler writes.
LEMMA NewLinesType ==
  ASSUME NEW C \in Nat, NEW c \in 1..C, NEW roles \in Seq({"bot", "system", "visitor", "agent"}),
         NEW step \in Boxes, NEW asked \in Boxes
  PROVE  LET new == NewLines(c, roles, step, asked)
         IN /\ new \in Seq(LineOf(C)) /\ Len(new) = Len(roles)
            /\ \A k \in 1..Len(roles) : new[k] = [conv |-> c, role |-> roles[k], step |-> step, asked |-> asked]
  <1>1. DOMAIN roles = 1..Len(roles) /\ Len(roles) \in Nat
    OBVIOUS
  <1>2. \A k \in 1..Len(roles) : [conv |-> c, role |-> roles[k], step |-> step, asked |-> asked] \in LineOf(C)
    BY DEF LineOf
  <1>3. NewLines(c, roles, step, asked) \in [1..Len(roles) -> LineOf(C)]
    BY <1>1, <1>2 DEF NewLines
  <1>4. NewLines(c, roles, step, asked) \in Seq(LineOf(C)) /\ Len(NewLines(c, roles, step, asked)) = Len(roles)
    BY <1>1, <1>3, IsASeq
  <1> QED BY <1>1, <1>4 DEF NewLines

LEMMA StepType ==
  ASSUME TypeOK, Len(convs') \in Nat, Len(lines') \in Nat,
         Len(convs) <= Len(convs'), Len(lines) <= Len(lines'),
         WidgetOf(w, Len(convs'), Len(lines')) => WidgetOf(w', Len(convs'), Len(lines')),
         convs' = convs \/ convs' \in Seq(ConversationOf(Len(lines'))),
         lines' = lines \/ lines' \in Seq(LineOf(Len(convs'))),
         \A r \in calls' : r \in calls \/ RequestOf(r, Len(convs'), Len(lines')),
         count' \in CountType
  PROVE  TypeOK'
  <1> DEFINE C == Len(convs)
             L == Len(lines)
             D == Len(convs')
             M == Len(lines')
  <1>1. C \in Nat /\ L \in Nat /\ convs \in Seq(ConversationOf(L)) /\ lines \in Seq(LineOf(C))
        /\ WidgetOf(w, C, L) /\ \A r \in calls : RequestOf(r, C, L)
    BY TypeParts
  <1>0. D \in Nat /\ M \in Nat /\ C <= D /\ L <= M
    OBVIOUS
  <1> HIDE DEF C, L, D, M
  <1>2. /\ \A u : WidgetOf(u, C, L) => WidgetOf(u, D, M)
        /\ \A r : RequestOf(r, C, L) => RequestOf(r, D, M)
        /\ ConversationOf(L) \subseteq ConversationOf(M) /\ LineOf(C) \subseteq LineOf(D)
    BY <1>0, <1>1, TypesGrow
  <1>3. convs \in Seq(ConversationOf(M)) /\ lines \in Seq(LineOf(D))
    BY <1>1, <1>2, SeqMonotonic
  <1> QED BY <1>1, <1>2, <1>3, TypePartsNext DEF D, M

\* The requests of a step that sends, moves on or ends one.
LEMMA CallType ==
  ASSUME TypeOK, NEW k \in Kinds, k = "begin" \/ w.token # 0
  PROVE  /\ RequestOf(Call(k), Len(convs), Len(lines))
         /\ Call(k).kind = k /\ Call(k).conv = w.token /\ Call(k).stage = "out"
         /\ Call(k).since = 0 /\ Call(k).got = None /\ Call(k).tries = 1
         /\ Call(k).asked = None /\ Call(k).tapped = FALSE /\ Call(k).answer = None
  <1>1. w.token \in 0..Len(convs) /\ Len(convs) \in Nat /\ Len(lines) \in Nat
    BY TypeParts DEF WidgetOf
  <1>2. None \in Boxes /\ "out" \in StagesOf[k]
    BY BoxTypes DEF StagesOf, Kinds
  <1> QED BY <1>1, <1>2 DEF Call, RequestOf, GotAt

\* What a request under way is.
LEMMA RequestFields ==
  ASSUME TypeOK, NEW r \in calls
  PROVE  /\ RequestOf(r, Len(convs), Len(lines))
         /\ Len(convs) \in Nat /\ Len(lines) \in Nat
         /\ r.kind \in Kinds /\ r.stage \in StagesOf[r.kind] /\ r.tries \in {1, 2}
         /\ r.since \in 0..Len(lines) /\ r.asked \in Boxes /\ r.tapped \in BOOLEAN
         /\ r.conv \in 0..Len(convs)
         /\ r.conv # 0 => convs[r.conv] \in ConversationOf(Len(lines))
         /\ r.conv = 0 => r.kind = "begin" /\ r.stage \in {"out", "dead"}
         /\ r.stage = "loaded" => r.got \in ConversationOf(Len(lines)) /\ r.kind = "send"
         /\ r.stage \in {"back", "typing"} => r.got \in AnswerOf(Len(lines))
         /\ r.stage \in {"refused", "gone"} => r.kind = "send"
         /\ r.stage = "typing" => r.kind = "begin"
  <1>1. RequestOf(r, Len(convs), Len(lines)) /\ convs \in Seq(ConversationOf(Len(lines)))
    BY TypeParts
  <1>2. r.conv # 0 => convs[r.conv] \in ConversationOf(Len(lines))
    <2> SUFFICES ASSUME r.conv # 0 PROVE convs[r.conv] \in ConversationOf(Len(lines))
      OBVIOUS
    <2>1. r.conv \in 1..Len(convs)
      BY <1>1 DEF RequestOf
    <2> QED BY <1>1, <2>1, ElementOfSeq
  <1>3. Len(convs) \in Nat /\ Len(lines) \in Nat
    BY TypeParts
  <1> QED BY <1>1, <1>2, <1>3 DEF RequestOf, StagesOf, Kinds, GotAt

\* The lines there were stay; the new ones are all of conversation c, of
\* these roles.
Adds(c, roles) ==
  /\ Len(lines') \in Nat /\ Len(lines) <= Len(lines')
  /\ \A i \in 1..Len(lines) : lines'[i] = lines[i]
  /\ \A i \in 1..Len(lines') : i > Len(lines) => lines'[i].conv = c /\ lines'[i].role \in roles

Written(old, c, roles, step, asked) == old \o NewLines(c, roles, step, asked)

\* all is old and lines of these roles after it.
Extended(all, old, c, roles, step, asked) ==
  /\ Len(all) = Len(old) + Len(roles) /\ Len(old) \in Nat /\ Len(roles) \in Nat
  /\ \A i \in 1..Len(old) : all[i] = old[i]
  /\ \A k \in 1..Len(roles) : all[Len(old) + k].role = roles[k]
  /\ \A i \in 1..Len(all) : i > Len(old) =>
       /\ all[i].conv = c /\ all[i].step = step /\ all[i].asked = asked
       /\ \E k \in 1..Len(roles) : i = Len(old) + k /\ all[i].role = roles[k]

LEMMA LinesAdded ==
  ASSUME NEW D \in Nat, NEW c \in 1..D, NEW old \in Seq(LineOf(D)),
         NEW roles \in Seq({"bot", "system", "visitor", "agent"}),
         NEW step \in Boxes, NEW asked \in Boxes,
         NEW all, all = Written(old, c, roles, step, asked)
  PROVE  all \in Seq(LineOf(D)) /\ Extended(all, old, c, roles, step, asked)
  <1> DEFINE new == NewLines(c, roles, step, asked)
  <1>1. /\ new \in Seq(LineOf(D)) /\ Len(new) = Len(roles)
        /\ \A k \in 1..Len(roles) : new[k] = [conv |-> c, role |-> roles[k], step |-> step, asked |-> asked]
    BY NewLinesType
  <1> HIDE DEF new
  <1>2. /\ all \in Seq(LineOf(D)) /\ Len(all) = Len(old) + Len(roles)
        /\ \A i \in 1 .. Len(old) + Len(roles) : all[i] = IF i <= Len(old) THEN old[i] ELSE new[i - Len(old)]
    <2>1. all = old \o new
      BY DEF new, Written
    <2>2. old \o new \in Seq(LineOf(D)) /\ Len(old \o new) = Len(old) + Len(new)
      BY <1>1, ConcatProperties
    <2>3. \A i \in 1 .. Len(old) + Len(new) :
             (old \o new)[i] = IF i <= Len(old) THEN old[i] ELSE new[i - Len(old)]
      BY <1>1, ConcatProperties
    <2> QED BY <1>1, <2>1, <2>2, <2>3
  <1>3. Len(old) \in Nat /\ Len(roles) \in Nat
    OBVIOUS
  <1>4. \A i \in 1..Len(old) : all[i] = old[i]
    BY <1>2, <1>3
  <1>5. ASSUME NEW k \in 1..Len(roles)
        PROVE  all[Len(old) + k] = [conv |-> c, role |-> roles[k], step |-> step, asked |-> asked]
    <2>1. all[Len(old) + k] = new[k]
      <3>1. Len(old) + k \in 1..(Len(old) + Len(roles)) /\ ~(Len(old) + k <= Len(old))
            /\ (Len(old) + k) - Len(old) = k
        BY <1>3
      <3> QED BY <1>2, <3>1
    <2> QED BY <1>1, <2>1
  <1>6. ASSUME NEW k \in 1..Len(roles)
        PROVE  LET line == all[Len(old) + k]
               IN line.conv = c /\ line.role = roles[k] /\ line.step = step /\ line.asked = asked
    <2> DEFINE line == all[Len(old) + k]
               role == roles[k]
    <2>1. line = [conv |-> c, role |-> role, step |-> step, asked |-> asked]
      BY <1>5
    <2> HIDE DEF line, role
    <2>2. line.conv = c /\ line.role = role /\ line.step = step /\ line.asked = asked
      BY <2>1
    <2> QED BY <2>2 DEF line, role
  <1>7. ASSUME NEW i \in 1..Len(all), i > Len(old)
        PROVE  /\ all[i].conv = c /\ all[i].step = step /\ all[i].asked = asked
               /\ \E k \in 1..Len(roles) : i = Len(old) + k /\ all[i].role = roles[k]
    <2> DEFINE k == i - Len(old)
    <2>1. k \in 1..Len(roles) /\ i = Len(old) + k
      BY <1>2, <1>3, <1>7
    <2> HIDE DEF k
    <2> QED BY <1>6, <2>1
  <1>8. \A k \in 1..Len(roles) : all[Len(old) + k].role = roles[k]
    BY <1>6
  <1> QED BY <1>2, <1>3, <1>4, <1>7, <1>8 DEF Extended

LEMMA GotType ==
  ASSUME NEW from \in Nat, NEW roles \in Seq({"bot", "system"}), NEW M, M = from + Len(roles),
         NEW got, got.ids = BotIds(from, roles), got.node \in Boxes,
         got.live \in BOOLEAN, got.closed \in BOOLEAN,
         got = [ids |-> got.ids, node |-> got.node, live |-> got.live, closed |-> got.closed]
  PROVE  /\ got \in AnswerOf(M)
         /\ \A i \in got.ids : \E k \in 1..Len(roles) : i = from + k /\ roles[k] = "bot"
  <1> DEFINE ids == BotIds(from, roles)
  <1>1. Len(roles) \in Nat
    OBVIOUS
  <1>2. \A i \in ids : \E k \in 1..Len(roles) : i = from + k /\ roles[k] = "bot"
    BY <1>1 DEF BotIds
  <1>3. ids \in SUBSET (1..M)
    BY <1>1, <1>2
  <1> HIDE DEF ids
  <1>4. got \in AnswerOf(M)
    BY <1>3 DEF AnswerOf, ids
  <1> QED BY <1>2, <1>4 DEF ids

\* A request moved on: r with another stage, conversation, answer or try.
Moved(r, stage, c, got, tries) ==
  [r EXCEPT !.stage = stage, !.conv = c, !.got = got, !.tries = tries]

LEMMA MovedType ==
  ASSUME NEW C, NEW L, NEW r, RequestOf(r, C, L), NEW stage, NEW c, NEW got, NEW tries,
         c \in 0..C, tries \in {1, 2}, stage \in StagesOf[r.kind],
         c = 0 => r.kind = "begin" /\ stage \in {"out", "dead"},
         got \in GotAt(stage, L)
  PROVE  LET new == Moved(r, stage, c, got, tries)
         IN /\ RequestOf(new, C, L)
            /\ new.kind = r.kind /\ new.since = r.since /\ new.answer = r.answer
            /\ new.tapped = r.tapped /\ new.asked = r.asked
            /\ new.stage = stage /\ new.conv = c /\ new.got = got /\ new.tries = tries
  <1> DEFINE new == Moved(r, stage, c, got, tries)
  <1>1. /\ r.kind \in Kinds /\ r.since \in 0..L /\ r.answer \in Answers \cup {None}
        /\ r.tapped \in BOOLEAN /\ r.asked \in Boxes
        /\ new = [kind |-> r.kind, conv |-> c, since |-> r.since, answer |-> r.answer, tapped |-> r.tapped,
                  asked |-> r.asked, tries |-> tries, stage |-> stage, got |-> got]
    <2>1. new = [r EXCEPT !.stage = stage, !.conv = c, !.got = got, !.tries = tries]
      BY DEF Moved
    <2> HIDE DEF new
    <2> QED BY <2>1 DEF RequestOf
  <1>2. stage \in {"out", "loaded", "back", "typing", "refused", "gone", "dead"}
    BY <1>1, StagesUnion
  <1>3. got \in ConversationOf(L) \cup AnswerOf(L) \cup {None}
    BY DEF GotAt
  <1> HIDE DEF new
  <1>4. /\ new.kind = r.kind /\ new.since = r.since /\ new.answer = r.answer
        /\ new.tapped = r.tapped /\ new.asked = r.asked
        /\ new.stage = stage /\ new.conv = c /\ new.got = got /\ new.tries = tries
    BY <1>1
  <1>5. RequestOf(new, C, L)
    BY <1>1, <1>2, <1>3, <1>4 DEF RequestOf
  <1> QED BY <1>4, <1>5 DEF new

\* start(): a new conversation, with the lines the widget is answered with.
Begun(r, new) ==
  LET c == Len(convs) + 1
  IN /\ UNCHANGED <<w, count>> /\ r.kind = "begin" /\ r.stage = "out"
     /\ Len(convs') = c /\ \A d \in 1..Len(convs) : convs'[d] = convs[d]
     /\ Adds(c, {"bot", "system"})
     /\ calls' = (calls \ {r}) \cup {new}
     /\ new.kind = "begin" /\ new.stage = "back" /\ new.conv = c /\ new.since = r.since
     /\ \A i \in new.got.ids : i \in 1..Len(lines') /\ i > Len(lines) /\ lines'[i].role = "bot"
     /\ new.got.live = convs'[c].live
     /\ new.got.node # None => IF new.got.node = LiveStep THEN convs'[c].live
                               ELSE ~convs'[c].live /\ convs'[c].cursor = new.got.node

LEMMA BeginServed ==
  ASSUME TypeOK, NEW r \in calls, ServeBegin(r)
  PROVE  TypeOK' /\ \E new : Begun(r, new)
  <1> DEFINE c == Len(convs) + 1
             C == Len(convs)
             L == Len(lines)
  <1>0. /\ C \in Nat /\ L \in Nat /\ convs \in Seq(ConversationOf(L)) /\ lines \in Seq(LineOf(C))
        /\ RequestOf(r, C, L) /\ count \in CountType
    BY TypeParts
  <1>k. UNCHANGED <<w, count>> /\ r.kind = "begin" /\ r.stage = "out"
    BY DEF ServeBegin
  <1>1. PICK free \in BOOLEAN :
          LET res == Advance(NewConversation, Start, None, free)
          IN /\ convs' = Append(convs, [cursor |-> res.cursor, live |-> res.live,
                                        closed |-> res.closed, seen |-> 0])
             /\ lines' = lines \o NewLines(Len(convs) + 1, res.said, None, None)
             /\ Replace(r, [r EXCEPT !.stage = "back", !.conv = Len(convs) + 1,
                              !.got = Got(BotIds(Len(lines), res.said), res.node, res.live, FALSE)])
    BY DEF ServeBegin
  <1> DEFINE res == Advance(NewConversation, Start, None, free)
  <1>2. res \in Result /\ NodeFits(res)
    <2>1. NewConversation.cursor \in Nodes /\ Start \in Nodes /\ None \in AllBoxes
      BY FlowAssumption DEF NewConversation, Nodes, AllBoxes
    <2> QED BY <2>1, AdvanceResult
  <1> DEFINE row == [cursor |-> res.cursor, live |-> res.live, closed |-> res.closed, seen |-> 0]
             got == Got(BotIds(L, res.said), res.node, res.live, FALSE)
             new == Moved(r, "back", c, got, r.tries)
  <1>4. convs' = Append(convs, row) /\ lines' = Written(lines, c, res.said, None, None)
    BY <1>1 DEF Written
  <1>n. calls' = (calls \ {r}) \cup {new}
    <2>1. new = [r EXCEPT !.stage = "back", !.conv = c, !.got = got]
      BY <1>0 DEF RequestOf, Moved
    <2> QED BY <1>1, <2>1 DEF Replace
  <1> HIDE DEF res, row, new
  <1>3. /\ res.cursor \in Nodes /\ res.live \in BOOLEAN /\ res.closed \in BOOLEAN /\ res.node \in Boxes
        /\ res.said \in Seq({"bot", "system"}) /\ Len(res.said) \in Nat
    BY <1>2, BoxTypes DEF Result
  <1>c. C <= c /\ c \in Nat /\ c \in 1..c /\ c \in 0..c /\ c # 0
    BY <1>0
  <1>5. /\ got \in AnswerOf(L + Len(res.said))
        /\ got.node = res.node /\ got.live = res.live
        /\ \A i \in got.ids : \E k \in 1..Len(res.said) : i = L + k /\ res.said[k] = "bot"
    <2>1. /\ got.ids = BotIds(L, res.said) /\ got.node = res.node /\ got.live = res.live
          /\ got.closed = FALSE
          /\ got = [ids |-> got.ids, node |-> got.node, live |-> got.live, closed |-> got.closed]
      BY DEF Got
    <2> HIDE DEF got
    <2>2. got.node \in Boxes /\ got.live \in BOOLEAN /\ got.closed \in BOOLEAN
      BY <1>3, <2>1
    <2>3. /\ got \in AnswerOf(L + Len(res.said))
          /\ \A i \in got.ids : \E k \in 1..Len(res.said) : i = L + k /\ res.said[k] = "bot"
      <3> DEFINE M == L + Len(res.said)
      <3>1. M = L + Len(res.said)
        OBVIOUS
      <3> HIDE DEF M, L
      <3>2. L \in Nat
        BY <1>0
      <3> QED BY <1>3, <2>1, <2>2, <3>1, <3>2, GotType
    <2> QED BY <2>1, <2>3
  <1> HIDE DEF got, c
  <1>6. /\ Len(lines') = L + Len(res.said) /\ lines' \in Seq(LineOf(c))
        /\ \A i \in 1..L : lines'[i] = lines[i]
        /\ \A k \in 1..Len(res.said) : lines'[L + k].role = res.said[k]
        /\ \A i \in 1..Len(lines') : i > L =>
             /\ lines'[i].conv = c
             /\ \E k \in 1..Len(res.said) : i = L + k /\ lines'[i].role = res.said[k]
    <2>1. lines \in Seq(LineOf(c))
      BY <1>0, <1>c, TypesGrow, SeqMonotonic
    <2>2. res.said \in Seq({"bot", "system", "visitor", "agent"})
      BY <1>3, SeqMonotonic
    <2>3. lines' = Written(lines, c, res.said, None, None)
      BY <1>4
    <2>4. None \in Boxes
      BY BoxTypes
    <2>5. c \in Nat /\ c \in 1..c
      BY <1>c
    <2> HIDE DEF L
    <2>6. /\ Len(lines') = Len(lines) + Len(res.said) /\ lines' \in Seq(LineOf(c))
          /\ \A i \in 1..Len(lines) : lines'[i] = lines[i]
          /\ \A k \in 1..Len(res.said) : lines'[Len(lines) + k].role = res.said[k]
          /\ \A i \in 1..Len(lines') : i > Len(lines) =>
               /\ lines'[i].conv = c
               /\ \E k \in 1..Len(res.said) : i = Len(lines) + k /\ lines'[i].role = res.said[k]
      <3>1. lines' \in Seq(LineOf(c)) /\ Extended(lines', lines, c, res.said, None, None)
        BY <2>1, <2>2, <2>3, <2>4, <2>5, LinesAdded
      <3> QED BY <3>1 DEF Extended
    <2> QED BY <2>6 DEF L
  <1>7. Adds(c, {"bot", "system"})
    <2>1. \A k \in 1..Len(res.said) : res.said[k] \in {"bot", "system"}
      BY <1>3, ElementOfSeq
    <2>2. L \in Nat /\ Len(lines') \in Nat /\ L <= Len(lines')
      BY <1>0, <1>3, <1>6
    <2> QED BY <1>6, <2>1, <2>2 DEF Adds
  <1>8. /\ Len(convs') = c /\ \A d \in 1..C : convs'[d] = convs[d]
        /\ convs'[c] = row /\ convs' \in Seq(ConversationOf(Len(lines')))
    <2>1. row \in ConversationOf(Len(lines'))
      BY <1>0, <1>3, <1>6 DEF ConversationOf, row
    <2>2. convs \in Seq(ConversationOf(Len(lines')))
      <3>1. Len(lines') \in Nat /\ L <= Len(lines')
        BY <1>0, <1>3, <1>6
      <3>2. ConversationOf(L) \subseteq ConversationOf(Len(lines'))
        BY <1>0, <3>1, TypesGrow
      <3> QED BY <1>0, <3>2, SeqMonotonic
    <2> QED BY <1>0, <1>4, <2>1, <2>2, AppendProperties DEF c
  <1>9. /\ new.kind = "begin" /\ new.stage = "back" /\ new.conv = c /\ new.since = r.since
        /\ new.got = got /\ RequestOf(new, c, Len(lines'))
    <2>1. RequestOf(r, c, Len(lines'))
      <3>1. Len(lines') \in Nat /\ L <= Len(lines')
        BY <1>0, <1>3, <1>6
      <3>2. C \in Nat /\ L \in Nat /\ C <= c /\ RequestOf(r, C, L)
        BY <1>0, <1>c
      <3> HIDE DEF C, L
      <3> QED BY <3>1, <3>2, <1>c, TypesGrow
    <2>2. "back" \in StagesOf[r.kind] /\ r.tries \in {1, 2}
      BY <1>0, <1>k DEF StagesOf, RequestOf
    <2>3. Len(lines') \in Nat
      BY <1>0, <1>3, <1>6
    <2>4. got \in AnswerOf(Len(lines'))
      BY <1>5, <1>6
    <2>5. got \in GotAt("back", Len(lines'))
      BY <2>4 DEF GotAt
    <2> QED BY <1>c, <1>k, <2>1, <2>2, <2>5, MovedType DEF new
  <1>10. TypeOK'
    <2>1. Len(lines') \in Nat /\ L <= Len(lines')
      BY <1>0, <1>3, <1>6
    <2>2. \A q \in calls' : q \in calls \/ RequestOf(q, c, Len(lines'))
      BY <1>n, <1>9
    <2> QED BY <1>0, <1>6, <1>8, <1>c, <2>1, <2>2, <1>k, StepType
  <1>11. \A i \in new.got.ids : i \in 1..Len(lines') /\ i > L /\ lines'[i].role = "bot"
    <2>1. new.got = got /\ \A i \in got.ids : \E k \in 1..Len(res.said) : i = L + k /\ res.said[k] = "bot"
      BY <1>5, <1>9
    <2>2. L \in Nat /\ Len(lines') = L + Len(res.said) /\ \A k \in 1..Len(res.said) : lines'[L + k].role = res.said[k]
      BY <1>0, <1>6
    <2> HIDE DEF L
    <2> QED BY <1>3, <2>1, <2>2
  <1>12. /\ new.got.live = convs'[c].live
         /\ new.got.node # None => IF new.got.node = LiveStep THEN convs'[c].live
                                  ELSE ~convs'[c].live /\ convs'[c].cursor = new.got.node
    BY <1>2, <1>5, <1>8, <1>9 DEF NodeFits, row
  <1>13. Begun(r, new)
    BY <1>k, <1>n, <1>7, <1>8, <1>9, <1>11, <1>12 DEF Begun, c
  <1> QED BY <1>10, <1>13

\* What message() writes: the reply under heard, if it is recorded, and
\* what is said after it.
Spoken(all, mid, old, c, said, heard, asked) ==
  /\ Len(old) \in Nat /\ Len(mid) \in Nat /\ Len(said) \in Nat /\ Len(all) \in Nat
  /\ Len(old) <= Len(mid) /\ Len(all) = Len(mid) + Len(said)
  /\ \A i \in 1..Len(old) : all[i] = old[i]
  /\ \A i \in 1..Len(all) : i > Len(old) =>
       /\ all[i].conv = c /\ all[i].role \in {"visitor", "bot", "system"}
       /\ all[i].role = "visitor" => i = Len(old) + 1 /\ heard # None /\ all[i].step = heard /\ all[i].asked = asked
  /\ heard # None => Len(old) + 1 \in 1..Len(all) /\ all[Len(old) + 1].role = "visitor"
  /\ \A k \in 1..Len(said) : all[Len(mid) + k].role = said[k]
  /\ heard = None /\ said = <<>> => Len(all) = Len(old)

LEMMA LinesSpoken ==
  ASSUME NEW D \in Nat, NEW c \in 1..D, NEW old \in Seq(LineOf(D)),
         NEW said \in Seq({"bot", "system"}), NEW heard \in Boxes, NEW asked \in Boxes,
         NEW mid, mid = IF heard = None THEN old ELSE Written(old, c, <<"visitor">>, heard, asked),
         NEW all, all = Written(mid, c, said, None, None)
  PROVE  all \in Seq(LineOf(D)) /\ Spoken(all, mid, old, c, said, heard, asked)
  <1>1. /\ mid \in Seq(LineOf(D)) /\ Len(old) \in Nat
        /\ Len(mid) = (IF heard = None THEN Len(old) ELSE Len(old) + 1)
        /\ \A i \in 1..Len(old) : mid[i] = old[i]
        /\ heard # None => LET i == Len(old) + 1 IN
             mid[i].conv = c /\ mid[i].role = "visitor" /\ mid[i].step = heard /\ mid[i].asked = asked
    <2>1. CASE heard = None
      BY <2>1
    <2>2. CASE heard # None
      <3> DEFINE roles == <<"visitor">>
      <3>1. roles \in Seq({"bot", "system", "visitor", "agent"}) /\ Len(roles) = 1 /\ roles[1] = "visitor"
        OBVIOUS
      <3>2. mid = Written(old, c, roles, heard, asked)
        BY <2>2
      <3> HIDE DEF roles
      <3>3. mid \in Seq(LineOf(D)) /\ Extended(mid, old, c, roles, heard, asked)
        BY <3>1, <3>2, LinesAdded
      <3> QED BY <2>2, <3>1, <3>3 DEF Extended
    <2> QED BY <2>1, <2>2
  <1>2. said \in Seq({"bot", "system", "visitor", "agent"}) /\ Len(said) \in Nat
        /\ \A k \in 1..Len(said) : said[k] \in {"bot", "system"}
    BY SeqMonotonic, ElementOfSeq
  <1>3. all \in Seq(LineOf(D)) /\ Extended(all, mid, c, said, None, None)
    BY <1>1, <1>2, BoxTypes, LinesAdded
  <1>4. Len(mid) \in Nat /\ Len(old) <= Len(mid) /\ Len(all) = Len(mid) + Len(said) /\ Len(all) \in Nat
    BY <1>1, <1>2, <1>3 DEF Extended
  <1>5. \A i \in 1..Len(mid) : all[i] = mid[i]
    BY <1>3 DEF Extended
  <1>6. \A i \in 1..Len(old) : all[i] = old[i]
    BY <1>1, <1>4, <1>5
  <1>7. heard # None => Len(old) + 1 \in 1..Len(all) /\ all[Len(old) + 1] = mid[Len(old) + 1]
    <2> SUFFICES ASSUME heard # None
                 PROVE  Len(old) + 1 \in 1..Len(all) /\ all[Len(old) + 1] = mid[Len(old) + 1]
      OBVIOUS
    <2> DEFINE i == Len(old) + 1
    <2>1. Len(mid) = i /\ i \in 1..Len(mid) /\ i \in 1..Len(all)
      BY <1>1, <1>2, <1>4
    <2> HIDE DEF i
    <2>2. all[i] = mid[i]
      BY <1>5, <2>1
    <2> QED BY <2>1, <2>2 DEF i
  <1>8. \A i \in 1..Len(all) : i > Len(mid) => all[i].conv = c /\ all[i].role \in {"bot", "system"}
    BY <1>2, <1>3 DEF Extended
  <1>9. \A i \in 1..Len(all) : i > Len(old) =>
          /\ all[i].conv = c /\ all[i].role \in {"visitor", "bot", "system"}
          /\ all[i].role = "visitor" => i = Len(old) + 1 /\ heard # None /\ all[i].step = heard /\ all[i].asked = asked
    <2> SUFFICES ASSUME NEW i \in 1..Len(all), i > Len(old)
                 PROVE  /\ all[i].conv = c /\ all[i].role \in {"visitor", "bot", "system"}
                        /\ all[i].role = "visitor" => /\ i = Len(old) + 1 /\ heard # None
                                                      /\ all[i].step = heard /\ all[i].asked = asked
      OBVIOUS
    <2>1. CASE i > Len(mid)
      BY <2>1, <1>8
    <2>2. CASE ~(i > Len(mid))
      <3>1. heard # None /\ i = Len(old) + 1
        BY <2>2, <1>1, <1>4
      <3> QED BY <3>1, <1>1, <1>7
    <2> QED BY <2>1, <2>2
  <1>10. \A k \in 1..Len(said) : all[Len(mid) + k].role = said[k]
    BY <1>3 DEF Extended
  <1>11. heard = None /\ said = <<>> => Len(all) = Len(old)
    BY <1>1, <1>4
  <1>12. heard # None => Len(old) + 1 \in 1..Len(all) /\ all[Len(old) + 1].role = "visitor"
    BY <1>1, <1>7
  <1> QED BY <1>1, <1>2, <1>3, <1>4, <1>6, <1>9, <1>10, <1>11, <1>12 DEF Spoken

\* What message() writes for r, as it was loaded, and answers with new.
Applied(r, new) ==
  LET c == r.conv
  IN /\ UNCHANGED <<w, count>> /\ r.kind = "send" /\ r.stage = "loaded" /\ c \in 1..Len(convs)
     /\ Len(convs') = Len(convs) /\ \A d \in 1..Len(convs) : d # c => convs'[d] = convs[d]
     /\ convs[c].live => convs'[c].live
     /\ Adds(c, {"visitor", "bot", "system"})
     /\ \A i \in 1..Len(lines') : i > Len(lines) /\ lines'[i].role = "visitor" =>
          /\ lines'[i].step = (IF r.got.live THEN LiveStep ELSE r.got.cursor)
          /\ lines'[i].asked = r.asked
     /\ calls' = (calls \ {r}) \cup {new}
     /\ new.kind = "send" /\ new.conv = c /\ new.since = r.since /\ new.asked = r.asked
     /\ new.tapped = r.tapped /\ new.stage \in {"back", "refused"}
     /\ new.stage = "refused" =>
          /\ Len(lines') = Len(lines) /\ convs'[c].cursor = convs[c].cursor
          /\ convs'[c].live <=> convs[c].live
     /\ new.stage = "back" =>
          /\ \A i \in new.got.ids : i \in 1..Len(lines') /\ i > Len(lines) /\ lines'[i].role = "bot"
          /\ r.got.live => new.got.ids = {}
          /\ (IF r.got.live THEN ~r.tapped ELSE r.got.cursor # None)
               => Len(lines) + 1 \in 1..Len(lines') /\ lines'[Len(lines) + 1].role = "visitor"
          /\ r.got.cursor = convs[c].cursor /\ (r.got.live <=> convs[c].live) =>
               /\ new.got.live <=> convs'[c].live
               /\ new.got.node # None => IF new.got.node = LiveStep THEN convs'[c].live
                                         ELSE ~convs'[c].live /\ convs'[c].cursor = new.got.node

LEMMA MessageApplied ==
  ASSUME TypeOK, NEW r \in calls, ApplyMessage(r)
  PROVE  TypeOK' /\ \E new : Applied(r, new)
  <1> DEFINE c == r.conv
             C == Len(convs)
             L == Len(lines)
  <1>0. /\ C \in Nat /\ L \in Nat /\ convs \in Seq(ConversationOf(L)) /\ lines \in Seq(LineOf(C))
        /\ RequestOf(r, C, L) /\ count \in CountType
    BY TypeParts
  <1>k. UNCHANGED <<w, count>> /\ r.kind = "send" /\ r.stage = "loaded"
    BY DEF ApplyMessage
  <1>f. /\ c \in 1..C /\ c \in 0..C /\ c # 0 /\ r.got \in ConversationOf(L) /\ r.asked \in Boxes
        /\ r.tries \in {1, 2} /\ convs[c] \in ConversationOf(L) /\ r.got.cursor \in Nodes
    <2>1. /\ c \in 0..C /\ c # 0 /\ r.got \in ConversationOf(L) /\ r.asked \in Boxes
          /\ r.tries \in {1, 2} /\ convs[c] \in ConversationOf(L)
      BY <1>k, RequestFields
    <2>2. c \in 1..C
      BY <1>0, <2>1
    <2>3. r.got.cursor \in Nodes
      BY <2>1 DEF ConversationOf
    <2> QED BY <2>1, <2>2, <2>3
  <1>1. PICK free \in BOOLEAN :
          LET res   == Handle(r.got, r, free)
              heard == IF res.heard = None THEN <<>>
                       ELSE NewLines(r.conv, <<"visitor">>, res.heard, r.asked)
          IN /\ lines' = lines \o heard \o NewLines(r.conv, res.said, None, None)
             /\ convs' = [convs EXCEPT ![r.conv] = Saved(@, r.got, res)]
             /\ Replace(r, IF res.refused THEN [r EXCEPT !.stage = "refused", !.got = None]
                           ELSE [r EXCEPT !.stage = "back",
                                   !.got = Got(BotIds(Len(lines \o heard), res.said),
                                               res.node, res.live, FALSE)])
    BY DEF ApplyMessage
  <1> DEFINE res == Handle(r.got, r, free)
             mid == IF res.heard = None THEN lines ELSE Written(lines, c, <<"visitor">>, res.heard, r.asked)
             row == Saved(convs[c], r.got, res)
             got == Got(BotIds(Len(mid), res.said), res.node, res.live, FALSE)
             new == IF res.refused THEN Moved(r, "refused", c, None, r.tries)
                    ELSE Moved(r, "back", c, got, r.tries)
  <1>2. /\ res \in Result /\ NodeFits(res)
        /\ r.got.live => ~res.refused /\ res.live /\ res.said = <<>>
        /\ res.heard = (IF r.got.live THEN IF r.tapped THEN None ELSE LiveStep
                        ELSE IF res.refused THEN None ELSE r.got.cursor)
        /\ res.refused => res.said = <<>> /\ res.cursor = r.got.cursor /\ ~res.live /\ ~res.closed
    BY <1>f, HandleResult
  <1>3. mid = lines \o (IF res.heard = None THEN <<>> ELSE NewLines(r.conv, <<"visitor">>, res.heard, r.asked))
    BY <1>0, ConcatEmptySeq DEF Written
  <1>4. /\ lines' = Written(mid, c, res.said, None, None)
        /\ convs' = [convs EXCEPT ![c] = row]
        /\ calls' = (calls \ {r}) \cup {new}
    <2>1. lines' = Written(mid, c, res.said, None, None)
      BY <1>1, <1>3 DEF Written
    <2>2. convs' = [convs EXCEPT ![c] = row]
      BY <1>1
    <2>3. r = Moved(r, r.stage, c, r.got, r.tries)
      BY <1>0 DEF RequestOf, Moved
    <2>4. /\ [r EXCEPT !.stage = "refused", !.got = None] = Moved(r, "refused", c, None, r.tries)
          /\ [r EXCEPT !.stage = "back", !.got = got] = Moved(r, "back", c, got, r.tries)
      BY <1>0 DEF RequestOf, Moved
    <2>5. calls' = (calls \ {r}) \cup {new}
      BY <1>1, <1>3, <2>4 DEF Replace
    <2> QED BY <2>1, <2>2, <2>5
  <1> HIDE DEF res, mid, row, got, new, c
  <1>5. /\ res.cursor \in Nodes /\ res.live \in BOOLEAN /\ res.closed \in BOOLEAN /\ res.node \in Boxes
        /\ res.said \in Seq({"bot", "system"}) /\ Len(res.said) \in Nat /\ res.heard \in Boxes
        /\ res.refused \in BOOLEAN
    BY <1>2, BoxTypes DEF Result
  <1>6. lines' \in Seq(LineOf(C)) /\ Spoken(lines', mid, lines, c, res.said, res.heard, r.asked)
    <2>1. mid = IF res.heard = None THEN lines ELSE Written(lines, c, <<"visitor">>, res.heard, r.asked)
      BY DEF mid
    <2>2. lines' = Written(mid, c, res.said, None, None)
      BY <1>4
    <2> HIDE DEF C
    <2> QED BY <1>0, <1>f, <1>5, <2>1, <2>2, LinesSpoken
  <1>7. Len(lines') \in Nat /\ L <= Len(lines') /\ Len(mid) \in Nat /\ L <= Len(mid)
        /\ Len(lines') = Len(mid) + Len(res.said)
    BY <1>5, <1>6 DEF Spoken
  <1>8. /\ row.cursor = (IF res.cursor = r.got.cursor THEN convs[c].cursor ELSE res.cursor)
        /\ row.live <=> (convs[c].live \/ res.live)
        /\ row \in ConversationOf(L)
    <2> DEFINE old == convs[c]
               cursor == IF res.cursor = r.got.cursor THEN old.cursor ELSE res.cursor
               live == old.live \/ res.live
               closed == old.closed \/ res.closed
    <2>1. /\ old \in ConversationOf(L) /\ old.cursor \in Nodes /\ old.live \in BOOLEAN
          /\ old.closed \in BOOLEAN /\ old.seen \in 0..L
          /\ cursor \in Nodes /\ live \in BOOLEAN /\ closed \in BOOLEAN
      BY <1>f, <1>5 DEF ConversationOf
    <2>2. row = [old EXCEPT !.cursor = cursor, !.live = live, !.closed = closed]
      BY DEF row, Saved
    <2> HIDE DEF cursor, live, closed, old
    <2>3. row = [cursor |-> cursor, live |-> live, closed |-> closed, seen |-> old.seen]
      BY <2>1, <2>2 DEF ConversationOf
    <2>4. row \in ConversationOf(L) /\ row.cursor = cursor /\ row.live = live
      BY <2>1, <2>3 DEF ConversationOf
    <2> QED BY <2>4 DEF cursor, live, old
  <1>9. /\ Len(convs') = C /\ convs'[c] = row /\ \A d \in 1..C : d # c => convs'[d] = convs[d]
        /\ convs' \in Seq(ConversationOf(Len(lines')))
    <2> DEFINE M == Len(lines')
    <2>1. ConversationOf(L) \subseteq ConversationOf(M)
      BY <1>0, <1>7, TypesGrow
    <2> HIDE DEF M
    <2>2. convs \in Seq(ConversationOf(M)) /\ row \in ConversationOf(M)
      BY <1>0, <1>8, <2>1, SeqMonotonic
    <2> QED BY <1>f, <1>4, <2>2, ExceptSeq DEF M
  <1>10. ~res.refused =>
           /\ got.node = res.node /\ (got.live <=> res.live)
           /\ got \in AnswerOf(Len(lines'))
           /\ \A i \in got.ids : \E k \in 1..Len(res.said) : i = Len(mid) + k /\ res.said[k] = "bot"
    <2>1. /\ got.ids = BotIds(Len(mid), res.said) /\ got.node = res.node /\ got.live = res.live
          /\ got.closed = FALSE
          /\ got = [ids |-> got.ids, node |-> got.node, live |-> got.live, closed |-> got.closed]
      BY DEF Got, got
    <2>2. got.node \in Boxes /\ got.live \in BOOLEAN /\ got.closed \in BOOLEAN
      BY <1>5, <2>1
    <2> DEFINE M == Len(lines')
               from == Len(mid)
    <2>3. M = from + Len(res.said) /\ from \in Nat
      BY <1>7
    <2>4. got.ids = BotIds(from, res.said)
      BY <2>1
    <2> HIDE DEF M, from
    <2>5. /\ got \in AnswerOf(M)
          /\ \A i \in got.ids : \E k \in 1..Len(res.said) : i = from + k /\ res.said[k] = "bot"
      BY <1>5, <2>1, <2>2, <2>3, <2>4, GotType
    <2> QED BY <2>1, <2>5 DEF M, from
  <1>11. /\ RequestOf(new, C, Len(lines'))
         /\ new.kind = "send" /\ new.conv = c /\ new.since = r.since /\ new.asked = r.asked
         /\ new.tapped = r.tapped
         /\ new.stage = (IF res.refused THEN "refused" ELSE "back")
         /\ ~res.refused => new.got = got
    <2>1. RequestOf(r, C, Len(lines'))
      BY <1>0, <1>7, TypesGrow
    <2>2. "back" \in StagesOf[r.kind] /\ "refused" \in StagesOf[r.kind]
      BY <1>k DEF StagesOf
    <2>3. CASE res.refused
      <3>1. new = Moved(r, "refused", c, None, r.tries)
        BY <2>3 DEF new
      <3>2. None \in GotAt("refused", Len(lines'))
        BY DEF GotAt
      <3> QED BY <1>f, <1>k, <2>1, <2>2, <2>3, <3>1, <3>2, MovedType
    <2>4. CASE ~res.refused
      <3>1. new = Moved(r, "back", c, got, r.tries)
        BY <2>4 DEF new
      <3>2. got \in GotAt("back", Len(lines'))
        BY <1>10, <2>4 DEF GotAt
      <3> QED BY <1>f, <1>k, <2>1, <2>2, <2>4, <3>1, <3>2, MovedType
    <2> QED BY <2>3, <2>4
  <1>12. TypeOK'
    <2>1. \A q \in calls' : q \in calls \/ RequestOf(q, C, Len(lines'))
      BY <1>4, <1>11
    <2> QED BY <1>0, <1>6, <1>7, <1>9, <1>k, <2>1, StepType
  <1>13. Applied(r, new)
    <2>1. Adds(c, {"visitor", "bot", "system"})
      BY <1>6, <1>7 DEF Adds, Spoken
    <2>2. \A i \in 1..Len(lines') : i > Len(lines) /\ lines'[i].role = "visitor" =>
            /\ lines'[i].step = (IF r.got.live THEN LiveStep ELSE r.got.cursor)
            /\ lines'[i].asked = r.asked
      BY <1>2, <1>6 DEF Spoken
    <2>3. new.stage = "refused" =>
            /\ Len(lines') = Len(lines) /\ convs'[c].cursor = convs[c].cursor
            /\ convs'[c].live <=> convs[c].live
      BY <1>2, <1>6, <1>8, <1>9, <1>11 DEF Spoken
    <2>4. ASSUME new.stage = "back"
          PROVE  /\ \A i \in new.got.ids : i \in 1..Len(lines') /\ i > Len(lines) /\ lines'[i].role = "bot"
                 /\ r.got.live => new.got.ids = {}
                 /\ (IF r.got.live THEN ~r.tapped ELSE r.got.cursor # None)
                      => Len(lines) + 1 \in 1..Len(lines') /\ lines'[Len(lines) + 1].role = "visitor"
                 /\ r.got.cursor = convs[c].cursor /\ (r.got.live <=> convs[c].live) =>
                      /\ new.got.live <=> convs'[c].live
                      /\ new.got.node # None => IF new.got.node = LiveStep THEN convs'[c].live
                                                ELSE ~convs'[c].live /\ convs'[c].cursor = new.got.node
      <3>1. ~res.refused /\ new.got = got
        BY <1>11, <2>4
      <3>2. \A i \in got.ids : i \in 1..Len(lines') /\ i > Len(lines) /\ lines'[i].role = "bot"
        <4> SUFFICES ASSUME NEW i \in got.ids
                     PROVE  i \in 1..Len(lines') /\ i > Len(lines) /\ lines'[i].role = "bot"
          OBVIOUS
        <4>1. PICK k \in 1..Len(res.said) : i = Len(mid) + k /\ res.said[k] = "bot"
          BY <1>10, <3>1
        <4>2. lines'[Len(mid) + k].role = res.said[k]
          BY <1>6 DEF Spoken
        <4>3. i \in 1..Len(lines') /\ i > Len(lines)
          BY <1>0, <1>5, <1>7, <4>1
        <4> QED BY <4>1, <4>2, <4>3
      <3>3. r.got.live => got.ids = {}
        BY <1>2, <1>10, <3>1
      <3>4. (IF r.got.live THEN ~r.tapped ELSE r.got.cursor # None) => res.heard # None
        BY <1>2, <3>1, BoxTypes
      <3>5. res.heard # None => Len(lines) + 1 \in 1..Len(lines') /\ lines'[Len(lines) + 1].role = "visitor"
        BY <1>6 DEF Spoken
      <3>6. ASSUME r.got.cursor = convs[c].cursor, r.got.live <=> convs[c].live
            PROVE  /\ got.live <=> convs'[c].live
                   /\ got.node # None => IF got.node = LiveStep THEN convs'[c].live
                                         ELSE ~convs'[c].live /\ convs'[c].cursor = got.node
        <4>1. got.node = res.node /\ (got.live <=> res.live)
          BY <1>10, <3>1
        <4>2. /\ convs'[c].cursor = res.cursor
              /\ convs'[c].live <=> (r.got.live \/ res.live)
          BY <1>8, <1>9, <3>6
        <4>3. r.got.live => res.live
          BY <1>2
        <4>4. res.node # None => IF res.node = LiveStep THEN res.live ELSE ~res.live /\ res.cursor = res.node
          BY <1>2 DEF NodeFits
        <4> QED BY <4>1, <4>2, <4>3, <4>4
      <3> QED BY <3>1, <3>2, <3>3, <3>4, <3>5, <3>6
    <2>5. convs[c].live => convs'[c].live
      BY <1>8, <1>9
    <2>6. new.stage \in {"back", "refused"}
      BY <1>11
    <2> QED BY <1>4, <1>9, <1>11, <1>f, <1>k, <2>1, <2>2, <2>3, <2>4, <2>5, <2>6 DEF Applied, c
  <1> QED BY <1>12, <1>13

\* poll(): the lines after r.since, and where the conversation is; of the
\* row only the mark of what was seen moves.
Polled(r, new) ==
  LET c == r.conv
  IN /\ UNCHANGED <<w, lines, count>> /\ r.kind \in {"poll", "restore"} /\ r.stage = "out"
     /\ c \in 1..Len(convs) /\ Len(convs') = Len(convs)
     /\ \A d \in 1..Len(convs) : /\ convs'[d].cursor = convs[d].cursor /\ convs'[d].live = convs[d].live
                                 /\ convs'[d].closed = convs[d].closed
     /\ calls' = (calls \ {r}) \cup {new}
     /\ new.kind = r.kind /\ new.conv = c /\ new.since = r.since /\ new.stage = "back"
     /\ \A i : i \in new.got.ids <=> /\ i \in 1..Len(lines) /\ lines[i].conv = c /\ i > r.since
                                     /\ r.kind = "restore" \/ lines[i].role # "visitor"
     /\ new.got.live = convs[c].live /\ new.got.node = Current(convs[c])

LEMMA PollServed ==
  ASSUME TypeOK, NEW r \in calls, ServePoll(r)
  PROVE  TypeOK' /\ \E new : Polled(r, new)
  <1> DEFINE c == r.conv
             C == Len(convs)
             L == Len(lines)
             ids == {i \in LinesOf(c) : i > r.since /\ (r.kind = "restore" \/ lines[i].role # "visitor")}
             top == Max(ids \cup {r.since})
             row == convs[c]
             got == Got(ids, Current(row), row.live, row.closed)
             new == Moved(r, "back", c, got, r.tries)
             seen == IF top > row.seen THEN top ELSE row.seen
             saved == [row EXCEPT !.seen = seen]
  <1>0. /\ C \in Nat /\ L \in Nat /\ convs \in Seq(ConversationOf(L)) /\ lines \in Seq(LineOf(C))
        /\ RequestOf(r, C, L) /\ count \in CountType
    BY TypeParts
  <1>k. /\ UNCHANGED <<w, lines, count>> /\ r.kind \in {"poll", "restore"} /\ r.stage = "out"
        /\ convs' = [convs EXCEPT ![c].seen = IF top > @ THEN top ELSE @]
        /\ Replace(r, [r EXCEPT !.stage = "back", !.got = got])
    BY DEF ServePoll
  <1>1. c \in 1..C /\ c \in 0..C /\ c # 0 /\ row \in ConversationOf(L) /\ r.since \in 0..L /\ r.tries \in {1, 2}
    BY <1>k, RequestFields
  <1>2. convs' = [convs EXCEPT ![c] = saved]
    BY <1>0, <1>1, <1>k
  <1>3. [r EXCEPT !.stage = "back", !.got = got] = new
    BY <1>0 DEF RequestOf, Moved
  <1>4. calls' = (calls \ {r}) \cup {new}
    BY <1>k, <1>3 DEF Replace
  <1>5. ids \in SUBSET (1..L)
    BY DEF LinesOf
  <1>6. top \in 0..L
    <2>1. ids \cup {r.since} \in SUBSET (0..L)
      <3>1. \A i \in 1..L : i \in 0..L
        OBVIOUS
      <3> QED BY <1>1, <1>5, <3>1
    <2> HIDE DEF ids
    <2>2. ids \cup {r.since} # {}
      OBVIOUS
    <2> QED BY <1>0, <2>1, <2>2, MaxOf
  <1> HIDE DEF top
  <1>7. /\ row.cursor \in Nodes /\ row.live \in BOOLEAN /\ row.closed \in BOOLEAN /\ row.seen \in 0..L
        /\ seen \in 0..L
    BY <1>1, <1>6 DEF ConversationOf
  <1>8. Current(row) \in Boxes
    BY <1>7, BoxTypes DEF Current
  <1>9. /\ got.ids = ids /\ got.node = Current(row) /\ got.live = row.live /\ got.closed = row.closed
        /\ got = [ids |-> got.ids, node |-> got.node, live |-> got.live, closed |-> got.closed]
    BY DEF Got
  <1> HIDE DEF got, new, seen, row, ids
  <1>10. got \in AnswerOf(L)
    BY <1>5, <1>7, <1>8, <1>9 DEF AnswerOf
  <1>11. saved \in ConversationOf(L) /\ saved.cursor = row.cursor /\ saved.live = row.live
         /\ saved.closed = row.closed
    BY <1>1, <1>7 DEF ConversationOf
  <1> HIDE DEF saved
  <1>12. /\ Len(convs') = C /\ convs' \in Seq(ConversationOf(L))
         /\ \A d \in 1..C : convs'[d] = IF d = c THEN saved ELSE convs[d]
    BY <1>0, <1>1, <1>2, <1>11, ExceptSeq
  <1>13. /\ RequestOf(new, C, L) /\ new.kind = r.kind /\ new.conv = c /\ new.since = r.since
         /\ new.stage = "back" /\ new.got = got
    <2>1. "back" \in StagesOf[r.kind] /\ got \in GotAt("back", L)
      BY <1>10, <1>k DEF StagesOf, GotAt
    <2> QED BY <1>0, <1>1, <2>1, MovedType DEF new
  <1>14. TypeOK'
    <2>1. \A q \in calls' : q \in calls \/ RequestOf(q, C, L)
      BY <1>4, <1>13
    <2> QED BY <1>0, <1>12, <1>k, <2>1, StepType
  <1>15. \A d \in 1..C : /\ convs'[d].cursor = convs[d].cursor /\ convs'[d].live = convs[d].live
                         /\ convs'[d].closed = convs[d].closed
    BY <1>11, <1>12 DEF row
  <1>16. \A i : i \in new.got.ids <=> /\ i \in 1..Len(lines) /\ lines[i].conv = c /\ i > r.since
                                      /\ r.kind = "restore" \/ lines[i].role # "visitor"
    BY <1>9, <1>13 DEF ids, LinesOf
  <1>17. Polled(r, new)
    BY <1>1, <1>4, <1>9, <1>12, <1>13, <1>15, <1>16, <1>k DEF Polled, row
  <1> QED BY <1>14, <1>17

\* message() up to the engine: a closed conversation is gone, and of an
\* open one the row is kept as it is now.
Loaded(r, new) ==
  /\ UNCHANGED <<w, convs, lines, count>> /\ r.kind = "send" /\ r.stage = "out" /\ r.conv \in 1..Len(convs)
  /\ calls' = (calls \ {r}) \cup {new}
  /\ new.kind = "send" /\ new.conv = r.conv /\ new.since = r.since /\ new.asked = r.asked
  /\ new.tapped = r.tapped /\ new.stage \in {"gone", "loaded"}
  /\ new.stage = "loaded" => new.got = convs[r.conv]

LEMMA MessageLoaded ==
  ASSUME TypeOK, NEW r \in calls, LoadMessage(r)
  PROVE  TypeOK' /\ \E new : Loaded(r, new)
  <1> DEFINE c == r.conv
             C == Len(convs)
             L == Len(lines)
             row == convs[c]
             new == IF row.closed THEN Moved(r, "gone", c, None, r.tries)
                    ELSE Moved(r, "loaded", c, row, r.tries)
  <1>0. /\ C \in Nat /\ L \in Nat /\ RequestOf(r, C, L) /\ count \in CountType
    BY TypeParts
  <1>k. /\ UNCHANGED <<w, convs, lines, count>> /\ r.kind = "send" /\ r.stage = "out"
        /\ Replace(r, IF row.closed THEN [r EXCEPT !.stage = "gone"]
                      ELSE [r EXCEPT !.stage = "loaded", !.got = row])
    BY DEF LoadMessage
  <1>1. c \in 1..C /\ c \in 0..C /\ c # 0 /\ row \in ConversationOf(L) /\ r.tries \in {1, 2} /\ r.got = None
    BY <1>0, <1>k, RequestFields DEF RequestOf, GotAt
  <1>2. /\ [r EXCEPT !.stage = "gone"] = Moved(r, "gone", c, None, r.tries)
        /\ [r EXCEPT !.stage = "loaded", !.got = row] = Moved(r, "loaded", c, row, r.tries)
    <2>1. [r EXCEPT !.stage = "gone"] = Moved(r, "gone", c, r.got, r.tries)
      BY <1>0 DEF RequestOf, Moved
    <2>2. [r EXCEPT !.stage = "loaded", !.got = row] = Moved(r, "loaded", c, row, r.tries)
      BY <1>0 DEF RequestOf, Moved
    <2> QED BY <1>1, <2>1, <2>2
  <1>3. calls' = (calls \ {r}) \cup {new}
    BY <1>k, <1>2 DEF Replace
  <1> HIDE DEF new
  <1>4. /\ RequestOf(new, C, L) /\ new.kind = "send" /\ new.conv = c /\ new.since = r.since
        /\ new.asked = r.asked /\ new.tapped = r.tapped /\ new.stage \in {"gone", "loaded"}
        /\ new.stage = "loaded" => new.got = row
    <2>1. "gone" \in StagesOf[r.kind] /\ "loaded" \in StagesOf[r.kind]
          /\ None \in GotAt("gone", L) /\ row \in GotAt("loaded", L)
      BY <1>1, <1>k DEF StagesOf, GotAt
    <2>2. new = Moved(r, "gone", c, None, r.tries) \/ new = Moved(r, "loaded", c, row, r.tries)
      BY DEF new
    <2> QED BY <1>0, <1>1, <1>k, <2>1, <2>2, MovedType
  <1>5. TypeOK'
    <2>1. \A q \in calls' : q \in calls \/ RequestOf(q, C, L)
      BY <1>3, <1>4
    <2> QED BY <1>0, <1>k, <2>1, StepType
  <1> QED BY <1>1, <1>3, <1>4, <1>5, <1>k DEF Loaded

-----------------------------------------------------------------------------
(* What the widget does with an answer.                                    *)

\* A step that only takes r, and may change the widget.
LEMMA WidgetStep ==
  ASSUME TypeOK, NEW r \in calls, Done(r), UNCHANGED <<convs, lines, count>>,
         WidgetOf(w', Len(convs), Len(lines))
  PROVE  TypeOK'
  <1>1. Len(convs) \in Nat /\ Len(lines) \in Nat /\ count \in CountType
    BY TypeParts
  <1>2. \A q \in calls' : q \in calls
    BY DEF Done
  <1> QED BY <1>1, <1>2, StepType

Kept(r) == calls' = calls \ {r} /\ UNCHANGED <<convs, lines, count>>

LEMMA BeginKept ==
  ASSUME TypeOK, NEW r \in calls, BeginAnswered(r)
  PROVE  /\ TypeOK' /\ UNCHANGED <<convs, lines, count>>
         /\ r.kind = "begin" /\ r.stage = "back" /\ r.conv # 0
         /\ w'.token = r.conv /\ w'.open = w.open /\ w'.busy = w.busy /\ w'.live = w.live
         /\ w'.shown = w.shown /\ w'.last = w.last /\ w'.log = w.log /\ w'.node = w.node
         /\ w'.timer = w.timer /\ w'.box = w.box /\ w'.echoes = w.echoes
         /\ \E new : /\ calls' = (calls \ {r}) \cup {new}
                     /\ new.kind = "begin" /\ new.conv = r.conv /\ new.since = r.since
                     /\ new.stage = "typing" /\ new.got = r.got
  <1> DEFINE C == Len(convs)
             L == Len(lines)
             new == Moved(r, "typing", r.conv, r.got, r.tries)
  <1>0. /\ C \in Nat /\ L \in Nat /\ RequestOf(r, C, L) /\ count \in CountType /\ WidgetOf(w, C, L)
    BY TypeParts
  <1>1. /\ UNCHANGED <<convs, lines, count>> /\ r.kind = "begin" /\ r.stage = "back"
        /\ w' = [w EXCEPT !.token = r.conv] /\ Replace(r, [r EXCEPT !.stage = "typing"])
    BY DEF BeginAnswered
  <1>2. r.conv # 0 /\ r.conv \in 0..C /\ r.got \in AnswerOf(L) /\ r.tries \in {1, 2}
    BY <1>1, RequestFields
  <1>3. [r EXCEPT !.stage = "typing"] = new
    BY <1>0 DEF RequestOf, Moved
  <1>4. calls' = (calls \ {r}) \cup {new}
    BY <1>1, <1>3 DEF Replace
  <1> HIDE DEF new
  <1>5. /\ RequestOf(new, C, L) /\ new.kind = "begin" /\ new.conv = r.conv /\ new.since = r.since
        /\ new.stage = "typing" /\ new.got = r.got
    <2>1. "typing" \in StagesOf[r.kind] /\ r.got \in GotAt("typing", L)
      BY <1>1, <1>2 DEF StagesOf, GotAt
    <2> QED BY <1>0, <1>1, <1>2, <2>1, MovedType DEF new
  <1>6. /\ WidgetOf(w', C, L)
        /\ w'.token = r.conv /\ w'.open = w.open /\ w'.busy = w.busy /\ w'.live = w.live
        /\ w'.shown = w.shown /\ w'.last = w.last /\ w'.log = w.log /\ w'.node = w.node
        /\ w'.timer = w.timer /\ w'.box = w.box /\ w'.echoes = w.echoes
    BY <1>0, <1>1, <1>2 DEF WidgetOf
  <1>7. TypeOK'
    <2>1. \A q \in calls' : q \in calls \/ RequestOf(q, C, L)
      BY <1>4, <1>5
    <2> QED BY <1>0, <1>1, <1>6, <2>1, StepType
  <1> QED BY <1>1, <1>2, <1>4, <1>5, <1>6, <1>7

LEMMA BeginShown ==
  ASSUME TypeOK, NEW r \in calls, BeginDrawn(r)
  PROVE  /\ TypeOK' /\ Kept(r) /\ r.kind = "begin" /\ r.stage = "typing"
         /\ Showing(w', w, r.got) /\ w'.busy = w.busy
  <1>1. Done(r) /\ UNCHANGED <<convs, lines, count>> /\ r.kind = "begin" /\ r.stage = "typing"
        /\ w' = Rendered(w, r.got)
    BY DEF BeginDrawn
  <1>2. r.got \in AnswerOf(Len(lines)) /\ Len(convs) \in Nat /\ Len(lines) \in Nat
        /\ WidgetOf(w, Len(convs), Len(lines))
    BY <1>1, RequestFields, TypeParts
  <1>3. WidgetOf(w', Len(convs), Len(lines)) /\ Showing(w', w, r.got) /\ w'.busy = w.busy
    BY <1>1, <1>2, RenderedType
  <1>4. TypeOK'
    BY <1>1, <1>3, WidgetStep
  <1> QED BY <1>1, <1>3, <1>4 DEF Kept, Done

\* The widget with its busy mark off, and with a person in the chat.
Idle(u) == [u EXCEPT !.busy = FALSE]
Manned(u) == [u EXCEPT !.live = TRUE]

LEMMA MarkTypes ==
  ASSUME NEW C \in Nat, NEW L \in Nat, NEW u, WidgetOf(u, C, L)
  PROVE  /\ WidgetOf(Idle(u), C, L) /\ ~Idle(u).busy
         /\ Idle(u).token = u.token /\ Idle(u).open = u.open /\ Idle(u).live = u.live
         /\ Idle(u).shown = u.shown /\ Idle(u).last = u.last /\ Idle(u).log = u.log
         /\ Idle(u).node = u.node /\ Idle(u).timer = u.timer /\ Idle(u).box = u.box
         /\ Idle(u).echoes = u.echoes
         /\ WidgetOf(Manned(u), C, L) /\ Manned(u).live
         /\ Manned(u).token = u.token /\ Manned(u).open = u.open /\ Manned(u).busy = u.busy
         /\ Manned(u).shown = u.shown /\ Manned(u).last = u.last /\ Manned(u).log = u.log
         /\ Manned(u).node = u.node /\ Manned(u).timer = u.timer /\ Manned(u).box = u.box
         /\ Manned(u).echoes = u.echoes
  <1>1. /\ WidgetOf(Idle(u), C, L) /\ ~Idle(u).busy
        /\ Idle(u).token = u.token /\ Idle(u).open = u.open /\ Idle(u).live = u.live
        /\ Idle(u).shown = u.shown /\ Idle(u).last = u.last /\ Idle(u).log = u.log
        /\ Idle(u).node = u.node /\ Idle(u).timer = u.timer /\ Idle(u).box = u.box
        /\ Idle(u).echoes = u.echoes
    BY DEF WidgetOf, Idle
  <1>2. /\ WidgetOf(Manned(u), C, L) /\ Manned(u).live
        /\ Manned(u).token = u.token /\ Manned(u).open = u.open /\ Manned(u).busy = u.busy
        /\ Manned(u).shown = u.shown /\ Manned(u).last = u.last /\ Manned(u).log = u.log
        /\ Manned(u).node = u.node /\ Manned(u).timer = u.timer /\ Manned(u).box = u.box
        /\ Manned(u).echoes = u.echoes
    BY DEF WidgetOf, Manned
  <1> QED BY <1>1, <1>2

LEMMA SendShown ==
  ASSUME TypeOK, NEW r \in calls, SendAnswered(r)
  PROVE  /\ TypeOK' /\ Kept(r) /\ r.kind = "send" /\ r.stage = "back"
         /\ Showing(w', w, r.got) /\ ~w'.busy
  <1> DEFINE u == Rendered(w, r.got)
  <1>1. Done(r) /\ UNCHANGED <<convs, lines, count>> /\ r.kind = "send" /\ r.stage = "back"
        /\ w' = Idle(u)
    BY DEF SendAnswered, Idle
  <1>2. r.got \in AnswerOf(Len(lines)) /\ Len(convs) \in Nat /\ Len(lines) \in Nat
        /\ WidgetOf(w, Len(convs), Len(lines))
    BY <1>1, RequestFields, TypeParts
  <1>3. WidgetOf(u, Len(convs), Len(lines)) /\ Showing(u, w, r.got)
    BY <1>2, RenderedType
  <1> HIDE DEF u
  <1>4. WidgetOf(w', Len(convs), Len(lines)) /\ Showing(w', w, r.got) /\ ~w'.busy
    BY <1>1, <1>2, <1>3, MarkTypes DEF Showing, Drawn
  <1>5. TypeOK'
    BY <1>1, <1>4, WidgetStep
  <1> QED BY <1>1, <1>4, <1>5 DEF Kept, Done

\* A reply refused: its bubble goes, and the question is put up again.
LEMMA SendTakenBack ==
  ASSUME TypeOK, NEW r \in calls, SendRefused(r)
  PROVE  /\ TypeOK' /\ Kept(r) /\ r.kind = "send" /\ r.stage = "refused" /\ ~w'.busy
         /\ w'.token = w.token /\ w'.open = w.open /\ w'.live = w.live
         /\ w'.shown = w.shown /\ w'.last = w.last /\ w'.log = w.log /\ w'.node = w.node
         /\ w'.box = (IF w.node = None THEN w.box ELSE "on")
         /\ w'.timer => w.timer \/ w'.box = "on"
         /\ w'.echoes = (IF w.echoes = 0 THEN 0 ELSE w.echoes - 1)
  <1> DEFINE back == RemoveEcho(w)
             u == IF w.node = None THEN back ELSE Controls(back, w.node)
             C == Len(convs)
             L == Len(lines)
  <1>1. Done(r) /\ UNCHANGED <<convs, lines, count>> /\ r.kind = "send" /\ r.stage = "refused"
        /\ w' = Idle(u)
    BY DEF SendRefused, Idle
  <1>2. C \in Nat /\ L \in Nat /\ WidgetOf(w, C, L)
    BY TypeParts
  <1>3. w.node \in Boxes
    BY <1>2 DEF WidgetOf
  <1>4. /\ WidgetOf(back, C, L) /\ Keeps(back, w)
        /\ back.echoes = (IF w.echoes = 0 THEN 0 ELSE w.echoes - 1)
        /\ back.node = w.node /\ back.box = w.box /\ back.timer = w.timer
    BY <1>2, <1>3, HandlerTypes
  <1> HIDE DEF back, C, L
  <1>5. /\ WidgetOf(u, C, L) /\ Keeps(u, back) /\ u.echoes = back.echoes /\ u.node = w.node
        /\ u.box = (IF w.node = None THEN w.box ELSE "on") /\ (u.timer => w.timer \/ u.box = "on")
    <2>1. CASE w.node = None
      BY <1>4, <2>1 DEF Keeps
    <2>2. CASE w.node # None
      <3>1. u = Controls(back, w.node)
        BY <2>2
      <3> HIDE DEF u
      <3> QED BY <1>2, <1>3, <1>4, <2>2, <3>1, HandlerTypes
    <2> QED BY <2>1, <2>2
  <1> HIDE DEF u
  <1>6. /\ WidgetOf(w', C, L) /\ ~w'.busy
        /\ w'.token = u.token /\ w'.open = u.open /\ w'.live = u.live
        /\ w'.shown = u.shown /\ w'.last = u.last /\ w'.log = u.log
        /\ w'.node = u.node /\ w'.timer = u.timer /\ w'.box = u.box /\ w'.echoes = u.echoes
    BY <1>1, <1>2, <1>5, MarkTypes
  <1>7. TypeOK'
    BY <1>1, <1>6, WidgetStep DEF C, L
  <1> QED BY <1>1, <1>4, <1>5, <1>6, <1>7 DEF Kept, Done, Keeps

\* The timer's answer: its lines are drawn; a chat a person took is shown
\* as one, and a closed one ends.
PollShows(r) ==
  /\ Drawn(w', w, r.got.ids) /\ w'.busy = w.busy
  /\ r.got.closed => /\ w'.node = None /\ w'.box = "ended" /\ ~w'.timer
                     /\ w'.live <=> w.live
  /\ ~r.got.closed /\ r.got.live /\ ~w.live => w'.live /\ w'.node = LiveStep /\ w'.box = "on"
  /\ ~r.got.closed /\ ~(r.got.live /\ ~w.live) =>
       /\ w'.node = w.node /\ w'.box = w.box /\ w'.timer = w.timer
       /\ w'.live <=> w.live

LEMMA PollShown ==
  ASSUME TypeOK, NEW r \in calls, PollAnswered(r)
  PROVE  TypeOK' /\ Kept(r) /\ r.kind = "poll" /\ r.stage = "back" /\ PollShows(r)
  <1> DEFINE C == Len(convs)
             L == Len(lines)
             drawn == Incoming(w, r.got.ids)
             manned == Manned(drawn)
             taken == IF r.got.live /\ ~w.live /\ ~r.got.closed THEN Controls(manned, LiveStep) ELSE drawn
  <1>1. Done(r) /\ UNCHANGED <<convs, lines, count>> /\ r.kind = "poll" /\ r.stage = "back"
        /\ w' = IF r.got.closed THEN Ended(taken) ELSE taken
    BY DEF PollAnswered, Manned
  <1>2. /\ r.got \in AnswerOf(L) /\ C \in Nat /\ L \in Nat /\ WidgetOf(w, C, L)
        /\ r.got.ids \in SUBSET (1..L) /\ LiveStep \in Boxes
    BY <1>1, RequestFields, TypeParts, BoxTypes DEF AnswerOf
  <1>3. /\ WidgetOf(drawn, C, L) /\ Drawn(drawn, w, r.got.ids)
        /\ drawn.busy = w.busy /\ drawn.live = w.live
        /\ drawn.node = w.node /\ drawn.timer = w.timer /\ drawn.box = w.box
    BY <1>2, IncomingType
  <1> HIDE DEF drawn, C, L
  <1>4. /\ WidgetOf(manned, C, L) /\ Drawn(manned, w, r.got.ids) /\ manned.busy = w.busy /\ manned.live
    BY <1>2, <1>3, MarkTypes DEF Drawn
  <1> HIDE DEF manned
  <1>5. CASE r.got.closed
    <2>1. w' = Ended(drawn)
      BY <1>1, <1>5
    <2>2. /\ WidgetOf(w', C, L) /\ Keeps(w', drawn) /\ w'.node = None /\ w'.box = "ended" /\ ~w'.timer
          /\ w'.echoes = drawn.echoes
      BY <1>2, <1>3, <2>1, HandlerTypes
    <2>3. Drawn(w', w, r.got.ids)
      BY <1>3, <2>2 DEF Drawn, Keeps
    <2>4. PollShows(r)
      BY <1>3, <1>5, <2>2, <2>3 DEF PollShows, Keeps
    <2> QED BY <1>1, <2>2, <2>4, WidgetStep DEF C, L, Kept, Done
  <1>6. CASE ~r.got.closed /\ r.got.live /\ ~w.live
    <2>1. w' = Controls(manned, LiveStep)
      BY <1>1, <1>6
    <2>2. /\ WidgetOf(w', C, L) /\ Keeps(w', manned) /\ w'.node = LiveStep /\ w'.box = "on"
          /\ w'.echoes = manned.echoes
      BY <1>2, <1>4, <2>1, HandlerTypes
    <2>3. Drawn(w', w, r.got.ids)
      BY <1>4, <2>2 DEF Drawn, Keeps
    <2>4. PollShows(r)
      BY <1>4, <1>6, <2>2, <2>3 DEF PollShows, Keeps
    <2> QED BY <1>1, <2>2, <2>4, WidgetStep DEF C, L, Kept, Done
  <1>7. CASE ~r.got.closed /\ ~(r.got.live /\ ~w.live)
    <2>1. w' = drawn
      BY <1>1, <1>7
    <2>2. PollShows(r)
      BY <1>3, <1>7, <2>1 DEF PollShows
    <2>3. WidgetOf(w', C, L)
      BY <1>3, <2>1
    <2> QED BY <1>1, <2>2, <2>3, WidgetStep DEF C, L, Kept, Done
  <1> QED BY <1>5, <1>6, <1>7

\* A reopened panel: the transcript is drawn, and the question it is at.
RestoreShows(r) ==
  /\ Drawn(w', w, r.got.ids) /\ w'.busy = w.busy
  /\ r.got.live /\ ~r.got.closed => w'.live /\ w'.node = LiveStep /\ w'.box = "on"
  /\ r.got.node # None /\ ~r.got.closed /\ ~r.got.live =>
       /\ w'.node = r.got.node /\ w'.box = "on"
       /\ w'.live <=> w.live
  /\ r.got.closed \/ (r.got.node = None /\ ~r.got.live) =>
       /\ w'.node = None /\ w'.box = "ended" /\ ~w'.timer
       /\ w'.live <=> w.live

LEMMA RestoreShown ==
  ASSUME TypeOK, NEW r \in calls, RestoreAnswered(r)
  PROVE  TypeOK' /\ Kept(r) /\ r.kind = "restore" /\ r.stage = "back" /\ RestoreShows(r)
  <1> DEFINE C == Len(convs)
             L == Len(lines)
             drawn == Incoming(w, r.got.ids)
             manned == Manned(drawn)
  <1>1. Done(r) /\ UNCHANGED <<convs, lines, count>> /\ r.kind = "restore" /\ r.stage = "back"
        /\ w' = IF r.got.live /\ ~r.got.closed THEN Controls(manned, LiveStep)
                ELSE IF r.got.node # None /\ ~r.got.closed THEN Controls(drawn, r.got.node)
                ELSE Ended(drawn)
    BY DEF RestoreAnswered, Manned
  <1>2. /\ r.got \in AnswerOf(L) /\ C \in Nat /\ L \in Nat /\ WidgetOf(w, C, L)
        /\ r.got.ids \in SUBSET (1..L) /\ r.got.node \in Boxes /\ LiveStep \in Boxes
    BY <1>1, RequestFields, TypeParts, BoxTypes DEF AnswerOf
  <1>3. /\ WidgetOf(drawn, C, L) /\ Drawn(drawn, w, r.got.ids)
        /\ drawn.busy = w.busy /\ drawn.live = w.live
    BY <1>2, IncomingType
  <1> HIDE DEF drawn, C, L
  <1>4. /\ WidgetOf(manned, C, L) /\ Drawn(manned, w, r.got.ids) /\ manned.busy = w.busy /\ manned.live
    BY <1>2, <1>3, MarkTypes DEF Drawn
  <1> HIDE DEF manned
  <1>5. CASE r.got.live /\ ~r.got.closed
    <2>1. w' = Controls(manned, LiveStep)
      BY <1>1, <1>5
    <2>2. /\ WidgetOf(w', C, L) /\ Keeps(w', manned) /\ w'.node = LiveStep /\ w'.box = "on"
          /\ w'.echoes = manned.echoes
      BY <1>2, <1>4, <2>1, HandlerTypes
    <2>3. Drawn(w', w, r.got.ids)
      BY <1>4, <2>2 DEF Drawn, Keeps
    <2>4. RestoreShows(r)
      BY <1>4, <1>5, <2>2, <2>3 DEF RestoreShows, Keeps
    <2> QED BY <1>1, <2>2, <2>4, WidgetStep DEF C, L, Kept, Done
  <1>6. CASE r.got.node # None /\ ~r.got.closed /\ ~r.got.live
    <2>1. w' = Controls(drawn, r.got.node)
      BY <1>1, <1>6
    <2>2. /\ WidgetOf(w', C, L) /\ Keeps(w', drawn) /\ w'.node = r.got.node /\ w'.box = "on"
          /\ w'.echoes = drawn.echoes
      <3> DEFINE n == r.got.node
      <3>1. C \in Nat /\ L \in Nat /\ n \in Boxes /\ WidgetOf(drawn, C, L)
        BY <1>2, <1>3
      <3>2. w' = Controls(drawn, n)
        BY <2>1
      <3> HIDE DEF n
      <3>3. /\ WidgetOf(w', C, L) /\ Keeps(w', drawn) /\ w'.node = n /\ w'.box = "on"
            /\ w'.echoes = drawn.echoes
        BY <3>1, <3>2, HandlerTypes
      <3> QED BY <3>3 DEF n
    <2>3. Drawn(w', w, r.got.ids)
      BY <1>3, <2>2 DEF Drawn, Keeps
    <2>4. RestoreShows(r)
      BY <1>3, <1>6, <2>2, <2>3 DEF RestoreShows, Keeps
    <2> QED BY <1>1, <2>2, <2>4, WidgetStep DEF C, L, Kept, Done
  <1>7. CASE r.got.closed \/ (r.got.node = None /\ ~r.got.live)
    <2>1. w' = Ended(drawn)
      BY <1>1, <1>7
    <2>2. /\ WidgetOf(w', C, L) /\ Keeps(w', drawn) /\ w'.node = None /\ w'.box = "ended" /\ ~w'.timer
          /\ w'.echoes = drawn.echoes
      <3>1. C \in Nat /\ L \in Nat /\ LiveStep \in Boxes /\ WidgetOf(drawn, C, L)
        BY <1>2, <1>3
      <3> QED BY <2>1, <3>1, HandlerTypes
    <2>3. Drawn(w', w, r.got.ids)
      BY <1>3, <2>2 DEF Drawn, Keeps
    <2>4. RestoreShows(r)
      BY <1>3, <1>7, <2>2, <2>3 DEF RestoreShows, Keeps
    <2> QED BY <1>1, <2>2, <2>4, WidgetStep DEF C, L, Kept, Done
  <1> QED BY <1>5, <1>6, <1>7

\* A call that failed for good: of a poll nothing is made.
FailureShows(r) ==
  /\ w'.token = w.token /\ w'.open = w.open /\ w'.live = w.live /\ w'.shown = w.shown
  /\ w'.last = w.last /\ w'.log = w.log /\ w'.echoes = w.echoes
  /\ r.kind = "poll" => w' = w
  /\ r.kind # "poll" => w'.node = None /\ w'.box = "failed" /\ ~w'.timer
  /\ w'.busy <=> (w.busy /\ r.kind # "send")

LEMMA FailureShown ==
  ASSUME TypeOK, NEW r \in calls, CallFailed(r)
  PROVE  TypeOK' /\ Kept(r) /\ r.stage \in {"dead", "gone"} /\ FailureShows(r)
  <1> DEFINE C == Len(convs)
             L == Len(lines)
             failed == Fail(w)
  <1>1. Done(r) /\ UNCHANGED <<convs, lines, count>> /\ r.stage \in {"dead", "gone"}
        /\ w' = IF r.kind = "poll" THEN w
                ELSE [failed EXCEPT !.busy = IF r.kind = "send" THEN FALSE ELSE @]
    BY DEF CallFailed
  <1>2. C \in Nat /\ L \in Nat /\ WidgetOf(w, C, L) /\ w.busy \in BOOLEAN
    BY TypeParts DEF WidgetOf
  <1>3. /\ WidgetOf(failed, C, L) /\ Keeps(failed, w) /\ failed.node = None /\ failed.box = "failed"
        /\ ~failed.timer /\ failed.echoes = w.echoes
    <2>1. /\ WidgetOf(failed, C, L) /\ Keeps(failed, w) /\ failed.node = None /\ failed.box = "failed"
          /\ ~failed.timer
      BY <1>2, BoxTypes, HandlerTypes
    <2>2. failed.echoes = w.echoes
      BY <1>2 DEF WidgetOf, Fail
    <2> QED BY <2>1, <2>2
  <1> HIDE DEF failed, C, L
  <1>4. CASE r.kind = "poll"
    <2>1. w' = w
      BY <1>1, <1>4
    <2>2. FailureShows(r)
      BY <1>4, <2>1 DEF FailureShows
    <2> QED BY <1>1, <1>2, <2>1, <2>2, WidgetStep DEF C, L, Kept, Done
  <1>5. CASE r.kind = "send"
    <2>1. w' = Idle(failed)
      BY <1>1, <1>5 DEF Idle
    <2>2. /\ WidgetOf(w', C, L) /\ ~w'.busy
          /\ w'.token = failed.token /\ w'.open = failed.open /\ w'.live = failed.live
          /\ w'.shown = failed.shown /\ w'.last = failed.last /\ w'.log = failed.log
          /\ w'.node = failed.node /\ w'.timer = failed.timer /\ w'.box = failed.box
          /\ w'.echoes = failed.echoes
      BY <1>2, <1>3, <2>1, MarkTypes
    <2>3. FailureShows(r)
      BY <1>3, <1>5, <2>2 DEF FailureShows, Keeps
    <2> QED BY <1>1, <2>2, <2>3, WidgetStep DEF C, L, Kept, Done
  <1>6. CASE r.kind # "poll" /\ r.kind # "send"
    <2>1. w' = failed
      BY <1>1, <1>3, <1>6 DEF WidgetOf
    <2>2. FailureShows(r)
      BY <1>2, <1>3, <1>6, <2>1 DEF FailureShows, Keeps
    <2> QED BY <1>1, <1>3, <2>1, <2>2, WidgetStep DEF C, L, Kept, Done
  <1> QED BY <1>4, <1>5, <1>6

-----------------------------------------------------------------------------
(* The visitor, the agents and the network.                                *)

LEMMA CallStep ==
  ASSUME TypeOK, NEW call, Issue(call), UNCHANGED <<convs, lines>>, count' \in CountType,
         RequestOf(call, Len(convs), Len(lines)), WidgetOf(w', Len(convs), Len(lines))
  PROVE  TypeOK'
  <1>1. Len(convs) \in Nat /\ Len(lines) \in Nat
    BY TypeParts
  <1>2. \A q \in calls' : q \in calls \/ q = call
    BY DEF Issue
  <1> QED BY <1>1, <1>2, StepType

\* The panel, with nothing on it.
Blank(u) == /\ u.shown = {} /\ u.box = "off" /\ u.echoes = 0 /\ DOMAIN u.log = {}

LEMMA PanelOpened ==
  ASSUME TypeOK, OpenPanel
  PROVE  /\ TypeOK' /\ UNCHANGED <<convs, lines>> /\ ~w.open /\ w'.open /\ Blank(w')
         /\ calls' = calls \cup {Call(IF w.token = 0 THEN "begin" ELSE "restore")}
         /\ w'.token = w.token /\ w'.busy = w.busy /\ w'.live = w.live /\ w'.last = w.last
         /\ w'.node = w.node /\ w'.timer = w.timer
  <1> DEFINE C == Len(convs)
             L == Len(lines)
             k == IF w.token = 0 THEN "begin" ELSE "restore"
             blank == EmptyBag
  <1>0. C \in Nat /\ L \in Nat /\ WidgetOf(w, C, L) /\ count \in CountType
    BY TypeParts
  <1>1. /\ UNCHANGED <<convs, lines>> /\ ~w.open /\ Issue(Call(k))
        /\ w' = [w EXCEPT !.open = TRUE, !.log = blank, !.echoes = 0, !.shown = {}, !.box = "off"]
        /\ count' = [count EXCEPT !.opens = @ + 1]
    BY DEF OpenPanel
  <1>2. blank \in [{} -> Nat] /\ DOMAIN blank = {}
    BY DEF EmptyBag, SetToBag
  <1> HIDE DEF blank
  <1>3. /\ WidgetOf(w', C, L) /\ w'.open /\ Blank(w')
        /\ w'.token = w.token /\ w'.busy = w.busy /\ w'.live = w.live /\ w'.last = w.last
        /\ w'.node = w.node /\ w'.timer = w.timer
    BY <1>0, <1>1, <1>2 DEF WidgetOf, Blank
  <1>4. count' \in CountType
    BY <1>0, <1>1 DEF CountType
  <1>5. k \in Kinds /\ (k = "begin" \/ w.token # 0)
    BY DEF Kinds
  <1> HIDE DEF k
  <1>6. RequestOf(Call(k), C, L)
    BY <1>5, CallType
  <1>7. TypeOK'
    BY <1>1, <1>3, <1>4, <1>6, CallStep
  <1> QED BY <1>1, <1>3, <1>7 DEF Issue, k

LEMMA PanelClosed ==
  ASSUME TypeOK, Close
  PROVE  /\ TypeOK' /\ UNCHANGED <<calls, convs, lines, count>> /\ w.open /\ Calm
         /\ ~w'.open /\ ~w'.timer
         /\ w'.token = w.token /\ w'.busy = w.busy /\ w'.live = w.live /\ w'.last = w.last
         /\ w'.node = w.node /\ w'.box = w.box /\ w'.shown = w.shown /\ w'.log = w.log
         /\ w'.echoes = w.echoes
  <1>0. /\ Len(convs) \in Nat /\ Len(lines) \in Nat /\ WidgetOf(w, Len(convs), Len(lines))
        /\ count \in CountType
    BY TypeParts
  <1>1. /\ UNCHANGED <<calls, convs, lines, count>> /\ w.open /\ Calm
        /\ w' = [w EXCEPT !.open = FALSE, !.timer = FALSE]
    BY DEF Close
  <1>2. /\ WidgetOf(w', Len(convs), Len(lines)) /\ ~w'.open /\ ~w'.timer
        /\ w'.token = w.token /\ w'.busy = w.busy /\ w'.live = w.live /\ w'.last = w.last
        /\ w'.node = w.node /\ w'.box = w.box /\ w'.shown = w.shown /\ w'.log = w.log
        /\ w'.echoes = w.echoes
    BY <1>0, <1>1 DEF WidgetOf
  <1>3. TypeOK'
    BY <1>0, <1>1, <1>2, StepType
  <1> QED BY <1>1, <1>2, <1>3

LEMMA ChatRestarted ==
  ASSUME TypeOK, NewChat
  PROVE  /\ TypeOK' /\ UNCHANGED <<convs, lines>> /\ w.open /\ w.box = "ended" /\ Calm /\ Blank(w')
         /\ w'.token = 0 /\ w'.last = 0 /\ ~w'.live
         /\ w'.open = w.open /\ w'.busy = w.busy /\ w'.node = w.node /\ w'.timer = w.timer
         /\ \E new : /\ calls' = calls \cup {new}
                     /\ new.kind = "begin" /\ new.conv = 0 /\ new.since = 0 /\ new.stage = "out"
  <1> DEFINE C == Len(convs)
             L == Len(lines)
             blank == EmptyBag
             new == [Call("begin") EXCEPT !.conv = 0]
  <1>0. C \in Nat /\ L \in Nat /\ WidgetOf(w, C, L) /\ count \in CountType
    BY TypeParts
  <1>1. /\ UNCHANGED <<convs, lines>> /\ w.open /\ w.box = "ended" /\ Calm /\ Issue(new)
        /\ w' = [w EXCEPT !.token = 0, !.last = 0, !.live = FALSE, !.log = blank, !.echoes = 0,
                          !.shown = {}, !.box = "off"]
        /\ count' = [count EXCEPT !.opens = @ + 1]
    BY DEF NewChat
  <1>2. blank \in [{} -> Nat] /\ DOMAIN blank = {}
    BY DEF EmptyBag, SetToBag
  <1> HIDE DEF blank
  <1>3. /\ WidgetOf(w', C, L) /\ Blank(w') /\ w'.token = 0 /\ w'.last = 0 /\ ~w'.live
        /\ w'.open = w.open /\ w'.busy = w.busy /\ w'.node = w.node /\ w'.timer = w.timer
    <2>1. w' = [token |-> 0, open |-> w.open, busy |-> w.busy, live |-> FALSE, shown |-> {},
                last |-> 0, node |-> w.node, timer |-> w.timer, box |-> "off", log |-> blank,
                echoes |-> 0]
      BY <1>0, <1>1 DEF WidgetOf
    <2>2. w.open \in BOOLEAN /\ w.busy \in BOOLEAN /\ w.node \in Boxes /\ w.timer \in BOOLEAN
      BY <1>0 DEF WidgetOf
    <2>3. WidgetOf(w', C, L)
      BY <1>0, <1>2, <2>1, <2>2 DEF WidgetOf
    <2> QED BY <1>2, <2>1, <2>3 DEF Blank
  <1>4. count' \in CountType
    BY <1>0, <1>1 DEF CountType
  <1>5. /\ new = [kind |-> "begin", conv |-> 0, since |-> 0, answer |-> None, tapped |-> FALSE,
                  asked |-> None, tries |-> 1, stage |-> "out", got |-> None]
    <2> DEFINE call == Call("begin")
    <2>1. call = [kind |-> "begin", conv |-> w.token, since |-> 0, answer |-> None, tapped |-> FALSE,
                  asked |-> None, tries |-> 1, stage |-> "out", got |-> None]
      BY DEF Call
    <2>2. new = [call EXCEPT !.conv = 0]
      OBVIOUS
    <2> HIDE DEF call, new
    <2> QED BY <2>1, <2>2
  <1> HIDE DEF new
  <1>6. new.kind = "begin" /\ new.conv = 0 /\ new.since = 0 /\ new.stage = "out"
    BY <1>5
  <1>7. RequestOf(new, C, L)
    <2>1. None \in Boxes /\ "begin" \in Kinds /\ "out" \in StagesOf["begin"]
      BY BoxTypes DEF Kinds, StagesOf
    <2> QED BY <1>0, <1>5, <2>1 DEF RequestOf, GotAt
  <1>8. TypeOK'
    BY <1>1, <1>3, <1>4, <1>7, CallStep
  <1> QED BY <1>1, <1>3, <1>6, <1>8 DEF Issue

LEMMA ReplySent ==
  ASSUME TypeOK, NEW answer \in Answers, NEW tapped \in BOOLEAN, Send(answer, tapped)
  PROVE  /\ TypeOK' /\ UNCHANGED <<convs, lines>>
         /\ w.open /\ w.box = "on" /\ ~w.busy /\ w.token # 0 /\ w.node # None
         /\ w'.busy /\ w'.echoes = w.echoes + 1
         /\ w'.token = w.token /\ w'.open = w.open /\ w'.live = w.live /\ w'.last = w.last
         /\ w'.node = w.node /\ w'.box = w.box /\ w'.shown = w.shown /\ w'.log = w.log
         /\ w'.timer = w.timer
         /\ \E new : /\ calls' = calls \cup {new}
                     /\ new.kind = "send" /\ new.conv = w.token /\ new.since = 0 /\ new.stage = "out"
                     /\ new.asked = w.node /\ (new.tapped => Asks(w.node))
  <1> DEFINE C == Len(convs)
             L == Len(lines)
             new == [Call("send") EXCEPT !.answer = answer, !.tapped = tapped, !.asked = w.node]
  <1>0. C \in Nat /\ L \in Nat /\ WidgetOf(w, C, L) /\ count \in CountType
    BY TypeParts
  <1>1. /\ UNCHANGED <<convs, lines>> /\ Issue(new) /\ (tapped => Asks(w.node))
        /\ w.open /\ w.box = "on" /\ ~w.busy /\ w.token # 0 /\ w.node # None
        /\ w' = [w EXCEPT !.busy = TRUE, !.echoes = @ + 1]
        /\ count' = [count EXCEPT !.sends = @ + 1]
    BY DEF Send
  <1>2. /\ WidgetOf(w', C, L) /\ w'.busy /\ w'.echoes = w.echoes + 1
        /\ w'.token = w.token /\ w'.open = w.open /\ w'.live = w.live /\ w'.last = w.last
        /\ w'.node = w.node /\ w'.box = w.box /\ w'.shown = w.shown /\ w'.log = w.log
        /\ w'.timer = w.timer
    <2>1. w' = [token |-> w.token, open |-> w.open, busy |-> TRUE, live |-> w.live,
                shown |-> w.shown, last |-> w.last, node |-> w.node, timer |-> w.timer,
                box |-> w.box, log |-> w.log, echoes |-> w.echoes + 1]
      BY <1>0, <1>1 DEF WidgetOf
    <2>2. WidgetOf(w', C, L)
      BY <1>0, <2>1 DEF WidgetOf
    <2> QED BY <2>1, <2>2
  <1>3. count' \in CountType
    BY <1>0, <1>1 DEF CountType
  <1>4. /\ new = [kind |-> "send", conv |-> w.token, since |-> 0, answer |-> answer, tapped |-> tapped,
                  asked |-> w.node, tries |-> 1, stage |-> "out", got |-> None]
    <2> DEFINE call == Call("send")
    <2>1. call = [kind |-> "send", conv |-> w.token, since |-> 0, answer |-> None, tapped |-> FALSE,
                  asked |-> None, tries |-> 1, stage |-> "out", got |-> None]
      BY DEF Call
    <2>2. new = [call EXCEPT !.answer = answer, !.tapped = tapped, !.asked = w.node]
      OBVIOUS
    <2> HIDE DEF call, new
    <2> QED BY <2>1, <2>2
  <1> HIDE DEF new
  <1>5. /\ new.kind = "send" /\ new.conv = w.token /\ new.since = 0 /\ new.stage = "out"
        /\ new.asked = w.node /\ (new.tapped => Asks(w.node))
    BY <1>1, <1>4
  <1>6. RequestOf(new, C, L)
    <2>1. None \in Boxes /\ "send" \in Kinds /\ "out" \in StagesOf["send"] /\ w.node \in Boxes
          /\ w.token \in 0..C
      BY <1>0, BoxTypes DEF Kinds, StagesOf, WidgetOf
    <2> QED BY <1>0, <1>1, <1>4, <2>1 DEF RequestOf, GotAt
  <1>7. TypeOK'
    BY <1>1, <1>2, <1>3, <1>6, CallStep
  <1> QED BY <1>1, <1>2, <1>5, <1>7 DEF Issue

LEMMA PollSent ==
  ASSUME TypeOK, PollTick
  PROVE  /\ TypeOK' /\ UNCHANGED <<w, convs, lines, count>>
         /\ w.timer /\ w.token # 0 /\ w.open /\ ~w.busy
         /\ \E new : /\ calls' = calls \cup {new}
                     /\ new.kind = "poll" /\ new.conv = w.token /\ new.since = w.last
                     /\ new.stage = "out"
  <1> DEFINE C == Len(convs)
             L == Len(lines)
             new == [Call("poll") EXCEPT !.since = w.last]
  <1>0. C \in Nat /\ L \in Nat /\ WidgetOf(w, C, L) /\ count \in CountType
    BY TypeParts
  <1>1. /\ UNCHANGED <<w, convs, lines, count>> /\ Issue(new)
        /\ w.timer /\ w.token # 0 /\ w.open /\ ~w.busy
    BY DEF PollTick
  <1>2. /\ new = [kind |-> "poll", conv |-> w.token, since |-> w.last, answer |-> None, tapped |-> FALSE,
                  asked |-> None, tries |-> 1, stage |-> "out", got |-> None]
    <2> DEFINE call == Call("poll")
    <2>1. call = [kind |-> "poll", conv |-> w.token, since |-> 0, answer |-> None, tapped |-> FALSE,
                  asked |-> None, tries |-> 1, stage |-> "out", got |-> None]
      BY DEF Call
    <2>2. new = [call EXCEPT !.since = w.last]
      OBVIOUS
    <2> HIDE DEF call, new
    <2> QED BY <2>1, <2>2
  <1> HIDE DEF new
  <1>3. new.kind = "poll" /\ new.conv = w.token /\ new.since = w.last /\ new.stage = "out"
    BY <1>2
  <1>4. RequestOf(new, C, L)
    <2>1. None \in Boxes /\ "poll" \in Kinds /\ "out" \in StagesOf["poll"] /\ w.last \in 0..L
          /\ w.token \in 0..C
      BY <1>0, BoxTypes DEF Kinds, StagesOf, WidgetOf
    <2> QED BY <1>0, <1>1, <1>2, <2>1 DEF RequestOf, GotAt
  <1>5. WidgetOf(w', C, L) /\ count' \in CountType
    BY <1>0, <1>1
  <1>6. TypeOK'
    BY <1>1, <1>4, <1>5, CallStep
  <1> QED BY <1>1, <1>3, <1>6 DEF Issue

\* A request or an answer lost: the request is out again, or dead.
Dropped(r, new) ==
  /\ UNCHANGED <<w, convs, lines>> /\ calls' = (calls \ {r}) \cup {new}
  /\ new.kind = r.kind /\ new.since = r.since /\ new.asked = r.asked /\ new.tapped = r.tapped
  /\ new.conv = r.conv \/ (r.kind = "begin" /\ new.conv = 0)
  /\ new.stage \in {"out", "dead"}

LEMMA DropType ==
  ASSUME TypeOK, NEW r \in calls, NEW c \in 0..Len(convs), c = r.conv \/ (r.kind = "begin" /\ c = 0),
         NEW new, new = Moved(r, IF r.tries = 1 THEN "out" ELSE "dead", c, None, 2),
         calls' = (calls \ {r}) \cup {new}, UNCHANGED <<w, convs, lines>>, count' \in CountType
  PROVE  TypeOK' /\ Dropped(r, new)
  <1> DEFINE C == Len(convs)
             L == Len(lines)
             stage == IF r.tries = 1 THEN "out" ELSE "dead"
  <1>0. C \in Nat /\ L \in Nat /\ RequestOf(r, C, L)
    BY TypeParts
  <1>1. stage \in StagesOf[r.kind] /\ stage \in {"out", "dead"}
    BY RequestFields DEF StagesOf, Kinds
  <1>2. None \in GotAt(stage, L)
    BY <1>1 DEF GotAt
  <1>3. c = 0 => r.kind = "begin"
    BY RequestFields
  <1>4. new = Moved(r, stage, c, None, 2)
    OBVIOUS
  <1> HIDE DEF stage, C, L
  <1>5. /\ RequestOf(new, C, L)
        /\ new.kind = r.kind /\ new.since = r.since /\ new.asked = r.asked /\ new.tapped = r.tapped
        /\ new.conv = c /\ new.stage = stage
    <2>1. c \in 0..C
      BY DEF C
    <2> QED BY <1>0, <1>1, <1>2, <1>3, <1>4, <2>1, MovedType
  <1>6. TypeOK'
    <2>1. \A q \in calls' : q \in calls \/ RequestOf(q, C, L)
      BY <1>5
    <2> QED BY <1>0, <2>1, StepType DEF C, L
  <1> QED BY <1>1, <1>5, <1>6 DEF Dropped

LEMMA CallDropped ==
  ASSUME TypeOK, NEW r \in calls, LoseRequest(r) \/ LoseAnswer(r)
  PROVE  /\ TypeOK' /\ \E new : Dropped(r, new)
         /\ r.stage = "out" \/ r.kind \in Lossy
  <1> DEFINE C == Len(convs)
             L == Len(lines)
             stage == IF r.tries = 1 THEN "out" ELSE "dead"
             c == IF r.kind = "begin" THEN 0 ELSE r.conv
             lost == Moved(r, stage, r.conv, None, 2)
             again == Moved(r, stage, c, None, 2)
  <1>0. RequestOf(r, C, L) /\ count \in CountType /\ r.tries \in {1, 2}
    BY TypeParts, RequestFields
  <1>1. Attempted(r) = lost
    <2>1. [r EXCEPT !.tries = 2, !.stage = "out", !.got = None] = Moved(r, "out", r.conv, None, 2)
      BY <1>0 DEF RequestOf, Moved
    <2>2. [r EXCEPT !.stage = "dead", !.got = None] = Moved(r, "dead", r.conv, None, r.tries)
      BY <1>0 DEF RequestOf, Moved
    <2> HIDE DEF L, C
    <2>3. CASE r.tries = 1
      BY <2>1, <2>3 DEF Attempted
    <2>4. CASE r.tries = 2
      BY <2>2, <2>4 DEF Attempted
    <2> QED BY <1>0, <2>3, <2>4
  <1>2. [lost EXCEPT !.conv = c] = again
    BY <1>0 DEF RequestOf, Moved
  <1>3. r.conv \in 0..Len(convs) /\ 0 \in 0..Len(convs)
    BY RequestFields
  <1> HIDE DEF lost, again, stage
  <1>4. CASE LoseRequest(r)
    <2>1. /\ calls' = (calls \ {r}) \cup {lost} /\ UNCHANGED <<w, convs, lines>> /\ r.stage = "out"
          /\ count' = [count EXCEPT !.faults = @ + 1]
      BY <1>1, <1>4 DEF LoseRequest, Replace
    <2>2. count' \in CountType
      BY <1>0, <2>1 DEF CountType
    <2>3. TypeOK' /\ Dropped(r, lost)
      BY <1>3, <2>1, <2>2, DropType DEF lost, stage
    <2> QED BY <2>1, <2>3
  <1>5. CASE LoseAnswer(r)
    <2>1. /\ Replace(r, [Attempted(r) EXCEPT !.conv = IF r.kind = "begin" THEN 0 ELSE @])
          /\ UNCHANGED <<w, convs, lines>> /\ r.kind \in Lossy
          /\ count' = [count EXCEPT !.faults = @ + 1]
      BY <1>5 DEF LoseAnswer
    <2>2. [Attempted(r) EXCEPT !.conv = IF r.kind = "begin" THEN 0 ELSE @] = again
      <3>1. lost.conv = r.conv
        BY <1>0 DEF lost, Moved, RequestOf
      <3> QED BY <1>1, <1>2, <3>1
    <2>3. count' \in CountType
      BY <1>0, <2>1 DEF CountType
    <2>4. calls' = (calls \ {r}) \cup {again}
      BY <2>1, <2>2 DEF Replace
    <2>5. c \in 0..Len(convs) /\ (c = r.conv \/ (r.kind = "begin" /\ c = 0))
      BY <1>3
    <2> HIDE DEF c
    <2>6. TypeOK' /\ Dropped(r, again)
      BY <2>1, <2>3, <2>4, <2>5, DropType DEF again, stage
    <2> QED BY <2>1, <2>6
  <1> QED BY <1>4, <1>5

\* reply() of an agent: a line of theirs, in a chat they have from then on.
AgentWrites(c) ==
  /\ UNCHANGED <<w, calls, count>> /\ Len(convs') = Len(convs) /\ Len(lines') = Len(lines) + 1
  /\ Adds(c, {"agent"})
  /\ \A d \in 1..Len(convs) : /\ convs'[d].cursor = convs[d].cursor
                              /\ convs'[d].live <=> (convs[d].live \/ d = c)

LEMMA AgentWrote ==
  ASSUME TypeOK, NEW c \in Tokens, AgentReplies(c)
  PROVE  TypeOK' /\ AgentWrites(c) /\ (Takeover \/ convs[c].live)
  <1> DEFINE C == Len(convs)
             L == Len(lines)
             roles == <<"agent">>
             row == convs[c]
             saved == [row EXCEPT !.live = TRUE]
  <1>0. /\ C \in Nat /\ L \in Nat /\ convs \in Seq(ConversationOf(L)) /\ lines \in Seq(LineOf(C))
        /\ count \in CountType
    BY TypeParts
  <1>1. /\ UNCHANGED <<w, calls, count>> /\ (Takeover \/ convs[c].live)
        /\ lines' = Written(lines, c, roles, None, None)
        /\ convs' = [convs EXCEPT ![c].live = TRUE]
    BY DEF AgentReplies, Written
  <1>2. c \in 1..C
    BY DEF Tokens
  <1>3. row \in ConversationOf(L)
    BY <1>0, <1>2, ElementOfSeq
  <1>4. convs' = [convs EXCEPT ![c] = saved]
    BY <1>0, <1>1, <1>2
  <1>5. roles \in Seq({"bot", "system", "visitor", "agent"}) /\ Len(roles) = 1 /\ roles[1] = "agent"
    OBVIOUS
  <1> HIDE DEF roles, C
  <1>6. lines' \in Seq(LineOf(C)) /\ Extended(lines', lines, c, roles, None, None)
    BY <1>0, <1>1, <1>2, <1>5, BoxTypes, LinesAdded
  <1>7. Len(lines') = L + 1 /\ Len(lines') \in Nat /\ Adds(c, {"agent"})
    <2>1. Len(lines') = L + 1 /\ Len(lines') \in Nat /\ L <= Len(lines')
      BY <1>0, <1>5, <1>6 DEF Extended
    <2>2. \A i \in 1..Len(lines') : i > Len(lines) => lines'[i].conv = c /\ lines'[i].role = "agent"
      BY <1>5, <1>6 DEF Extended
    <2> QED BY <1>6, <2>1, <2>2 DEF Adds, Extended
  <1> HIDE DEF row
  <1>8. saved \in ConversationOf(L) /\ saved.cursor = row.cursor /\ saved.live = TRUE
    BY <1>3 DEF ConversationOf
  <1> HIDE DEF saved
  <1>9. /\ Len(convs') = C /\ convs' \in Seq(ConversationOf(Len(lines')))
        /\ \A d \in 1..C : convs'[d] = IF d = c THEN saved ELSE convs[d]
    <2> DEFINE M == Len(lines')
    <2>1. ConversationOf(L) \subseteq ConversationOf(M)
      BY <1>0, <1>7, TypesGrow DEF C
    <2> HIDE DEF M
    <2>2. convs \in Seq(ConversationOf(M)) /\ saved \in ConversationOf(M)
      BY <1>0, <1>8, <2>1, SeqMonotonic
    <2> QED BY <1>2, <1>4, <2>2, ExceptSeq DEF M, C
  <1>10. TypeOK'
    <2>1. \A q \in calls' : q \in calls
      BY <1>1
    <2> QED BY <1>0, <1>1, <1>6, <1>7, <1>9, <2>1, StepType DEF C
  <1>11. \A d \in 1..C : /\ convs'[d].cursor = convs[d].cursor
                         /\ convs'[d].live <=> (convs[d].live \/ d = c)
    BY <1>8, <1>9 DEF row
  <1> QED BY <1>1, <1>7, <1>9, <1>10, <1>11 DEF AgentWrites, C

LEMMA AgentClosed ==
  ASSUME TypeOK, NEW c \in Tokens, AgentCloses(c)
  PROVE  /\ TypeOK' /\ UNCHANGED <<w, calls, lines, count>> /\ Len(convs') = Len(convs)
         /\ \A d \in 1..Len(convs) : convs'[d].cursor = convs[d].cursor /\ convs'[d].live = convs[d].live
  <1> DEFINE C == Len(convs)
             L == Len(lines)
             row == convs[c]
             saved == [row EXCEPT !.closed = TRUE]
  <1>0. /\ C \in Nat /\ L \in Nat /\ convs \in Seq(ConversationOf(L)) /\ count \in CountType
    BY TypeParts
  <1>1. UNCHANGED <<w, calls, lines, count>> /\ convs' = [convs EXCEPT ![c].closed = TRUE]
    BY DEF AgentCloses
  <1>2. c \in 1..C
    BY DEF Tokens
  <1>3. row \in ConversationOf(L)
    BY <1>0, <1>2, ElementOfSeq
  <1>4. convs' = [convs EXCEPT ![c] = saved]
    BY <1>0, <1>1, <1>2
  <1> HIDE DEF row, C
  <1>5. saved \in ConversationOf(L) /\ saved.cursor = row.cursor /\ saved.live = row.live
    BY <1>3 DEF ConversationOf
  <1> HIDE DEF saved
  <1>6. /\ Len(convs') = C /\ convs' \in Seq(ConversationOf(L))
        /\ \A d \in 1..C : convs'[d] = IF d = c THEN saved ELSE convs[d]
    BY <1>0, <1>2, <1>4, <1>5, ExceptSeq DEF C
  <1>7. TypeOK'
    BY <1>0, <1>1, <1>6, StepType DEF C
  <1> QED BY <1>1, <1>5, <1>6, <1>7 DEF row, C

-----------------------------------------------------------------------------
(* What every step keeps.                                                  *)

\* A step leaves the log alone, empties it, or draws an answer's lines.
LogKept == w'.log = w.log \/ DOMAIN w'.log = {} \/ \E ids : Drawn(w', w, ids)

LEMMA TypeStep ==
  ASSUME TypeOK, [Next]_vars
  PROVE  TypeOK' /\ LogKept
  <1>1. CASE OpenPanel
    BY <1>1, PanelOpened DEF LogKept, Blank
  <1>2. CASE Close
    BY <1>2, PanelClosed DEF LogKept
  <1>3. CASE NewChat
    BY <1>3, ChatRestarted DEF LogKept, Blank
  <1>4. CASE PollTick
    <2>1. TypeOK' /\ w' = w
      BY <1>4, PollSent
    <2> QED BY <2>1 DEF LogKept
  <1>5. ASSUME NEW answer \in Answers, NEW tapped \in BOOLEAN, Send(answer, tapped)
        PROVE  TypeOK' /\ LogKept
    <2>1. TypeOK' /\ w'.log = w.log
      BY <1>5, ReplySent
    <2> QED BY <2>1 DEF LogKept
  <1>6. ASSUME NEW r \in calls, Served(r)
        PROVE  TypeOK' /\ LogKept
    <2>1. CASE ServeBegin(r)
      BY <2>1, BeginServed DEF Begun, LogKept
    <2>2. CASE LoadMessage(r)
      BY <2>2, MessageLoaded DEF Loaded, LogKept
    <2>3. CASE ApplyMessage(r)
      BY <2>3, MessageApplied DEF Applied, LogKept
    <2>4. CASE ServePoll(r)
      BY <2>4, PollServed DEF Polled, LogKept
    <2> QED BY <1>6, <2>1, <2>2, <2>3, <2>4 DEF Served
  <1>7. ASSUME NEW r \in calls, LoseRequest(r) \/ LoseAnswer(r)
        PROVE  TypeOK' /\ LogKept
    BY <1>7, CallDropped DEF Dropped, LogKept
  <1>8. ASSUME NEW r \in calls, Answered(r)
        PROVE  TypeOK' /\ LogKept
    <2>1. CASE BeginAnswered(r)
      BY <2>1, BeginKept DEF LogKept
    <2>2. CASE BeginDrawn(r)
      BY <2>2, BeginShown DEF Showing, LogKept
    <2>3. CASE SendAnswered(r)
      BY <2>3, SendShown DEF Showing, LogKept
    <2>4. CASE SendRefused(r)
      BY <2>4, SendTakenBack DEF LogKept
    <2>5. CASE PollAnswered(r)
      BY <2>5, PollShown DEF PollShows, LogKept
    <2>6. CASE RestoreAnswered(r)
      BY <2>6, RestoreShown DEF RestoreShows, LogKept
    <2>7. CASE CallFailed(r)
      BY <2>7, FailureShown DEF FailureShows, LogKept
    <2> QED BY <1>8, <2>1, <2>2, <2>3, <2>4, <2>5, <2>6, <2>7 DEF Answered
  <1>9. ASSUME NEW c \in Tokens, AgentReplies(c)
        PROVE  TypeOK' /\ LogKept
    BY <1>9, AgentWrote DEF AgentWrites, LogKept
  <1>10. ASSUME NEW c \in Tokens, AgentCloses(c)
         PROVE  TypeOK' /\ LogKept
    BY <1>10, AgentClosed DEF LogKept
  <1>11. CASE UNCHANGED vars
    <2>1. UNCHANGED <<w, calls, convs, lines, count>>
      BY <1>11 DEF vars
    <2>2. TypeOK'
      BY <2>1, TypeParts, TypePartsNext
    <2> QED BY <2>1, <2>2 DEF LogKept
  <1> QED BY <1>1, <1>2, <1>3, <1>4, <1>5, <1>6, <1>7, <1>8, <1>9, <1>10, <1>11 DEF Next

LEMMA TypeInit ==
  ASSUME Init
  PROVE  TypeOK /\ DrawnOnce
  <1> DEFINE blank == EmptyBag
  <1>1. blank \in [{} -> Nat] /\ DOMAIN blank = {}
    BY DEF EmptyBag, SetToBag
  <1>2. /\ w = [token |-> 0, open |-> FALSE, busy |-> FALSE, live |-> FALSE, shown |-> {}, last |-> 0,
                node |-> None, timer |-> FALSE, box |-> "off", log |-> blank, echoes |-> 0]
        /\ calls = {} /\ convs = <<>> /\ lines = <<>>
        /\ count = [sends |-> 0, faults |-> 0, opens |-> 0]
    BY DEF Init
  <1> HIDE DEF blank
  <1>3. Len(convs) = 0 /\ Len(lines) = 0 /\ convs \in Seq(ConversationOf(0)) /\ lines \in Seq(LineOf(0))
    BY <1>2, EmptySeq
  <1>4. WidgetOf(w, 0, 0)
    BY <1>1, <1>2, BoxTypes DEF WidgetOf
  <1>5. count \in CountType
    BY <1>2 DEF CountType
  <1>6. TypeOK
    BY <1>2, <1>3, <1>4, <1>5, TypeParts
  <1>7. DrawnOnce
    BY <1>1, <1>2 DEF DrawnOnce
  <1> QED BY <1>6, <1>7

\* Whatever the visitor, the agents and the network do, the widget, its
\* requests and the server's rows stay what their types say: no answer
\* names a line the server does not have, a conversation's token is always
\* of a conversation, and a request without one is a new chat's.
THEOREM WidgetTypes == Spec => []TypeOK
  <1>1. TypeOK /\ [Next]_vars => TypeOK'
    BY TypeStep
  <1> QED BY <1>1, TypeInit, PTL DEF Spec

\* A line stands in the log once, however many answers carried it, in
\* whatever order they came, and whatever was lost on the way.
THEOREM LinesDrawnOnce == Spec => []DrawnOnce
  <1>1. ASSUME TypeOK, DrawnOnce, [Next]_vars
        PROVE  DrawnOnce'
    <2>1. DOMAIN w.log = w.shown /\ TypeOK' /\ LogKept
      BY <1>1, TypeParts, TypeStep DEF WidgetOf
    <2>2. CASE w'.log = w.log
      BY <1>1, <2>2 DEF DrawnOnce
    <2>3. CASE DOMAIN w'.log = {}
      BY <2>3 DEF DrawnOnce
    <2>4. CASE \E ids : Drawn(w', w, ids)
      <3>1. \A i \in DOMAIN w'.log : w'.log[i] = IF i \in w.shown THEN w.log[i] ELSE 1
        BY <2>4 DEF Drawn
      <3> QED BY <1>1, <2>1, <3>1 DEF DrawnOnce
    <2> QED BY <2>1, <2>2, <2>3, <2>4 DEF LogKept
  <1>2. Init => TypeOK /\ DrawnOnce
    BY TypeInit
  <1>3. (TypeOK /\ DrawnOnce) /\ [Next]_vars => (TypeOK /\ DrawnOnce)'
    BY <1>1, TypeStep
  <1> QED BY <1>2, <1>3, PTL DEF Spec
=============================================================================
