----------------------------- MODULE FlowGraph -----------------------------
(***************************************************************************)
(* A conversation as the chat engine runs it and the builder edits it      *)
(* (lib/flow-tree.ts): steps that each point at the step that comes next.  *)
(* The edits that need no drawing are here; those that need the tree the   *)
(* builder draws take from it the place and the block they work on.        *)
(*                                                                         *)
(* A step is its type and its exits in the order edges() lists them:       *)
(*   message (every type that simply leads on)   next                      *)
(*   choice                                      one per answer            *)
(*   condition                                   next, otherwise           *)
(*   booking (and ai)                            next, fallback            *)
(*   end                                         none                      *)
(* Words, scores and saved fields play no part in an edit of the graph.    *)
(***************************************************************************)
EXTENDS Naturals, FiniteSets

CONSTANTS
  StepId,      \* ids a step may have
  Nil          \* an exit that leads nowhere

ASSUME IdAssumption == StepId \subseteq Nat /\ Nil \notin StepId /\ IsFiniteSet(StepId)

Types == {"message", "choice", "condition", "booking", "end"}
ExitNo == 1..3      \* an answer's place: no question of the model has more than three
Target == StepId \cup {Nil}

(* The exits a step of each type has.  *)
ExitsOf(type) == CASE type = "end"     -> {{}}
                   [] type = "message" -> {{1}}
                   [] type = "choice"  -> {{}, {1}, {1, 2}, {1, 2, 3}}
                   [] OTHER            -> {{1, 2}}

Node == UNION {UNION {[type : {type}, exits : [K -> Target]] : K \in ExitsOf(type)} : type \in Types}

IsFlow(f) == \E S \in SUBSET StepId : f \in [start : Target, nodes : [S -> Node]]

EmptyFlow == [start |-> Nil, nodes |-> [n \in {} |-> Nil]]

Ids(f) == DOMAIN f.nodes

Exits(f) == {e \in Ids(f) \X ExitNo : e[2] \in DOMAIN f.nodes[e[1]].exits}

To(f, e) == f.nodes[e[1]].exits[e[2]]

(* A step leads to another, both of them there.  *)
Leads(f, m, n) == /\ m \in Ids(f) /\ n \in Ids(f)
                  /\ \E k \in DOMAIN f.nodes[m].exits : f.nodes[m].exits[k] = n

(* The steps the conversation can reach: those in every set of steps that  *)
(* holds the start and whatever its members lead to.                       *)
Closed(f, S) == /\ f.start \in S \/ f.start \notin Ids(f)
                /\ \A m \in S : \A k \in DOMAIN f.nodes[m].exits :
                     f.nodes[m].exits[k] \in S \/ f.nodes[m].exits[k] \notin Ids(f)

Reachable(f) == LET closed == {S \in SUBSET Ids(f) : Closed(f, S)}
                IN {n \in Ids(f) : \A S \in closed : n \in S}

(* Every exit leads to a step that is there, or openly nowhere, and every  *)
(* step can be reached.                                                    *)
Anchored(f) == /\ f.start \in Ids(f) \cup {Nil}
               /\ \A e \in Exits(f) : To(f, e) \in Ids(f) \cup {Nil}
WellConnected(f) == Anchored(f) /\ Reachable(f) = Ids(f)

(* n comes after m: it is in every set with m and what its members lead to. *)
After(f, m, n) == \A S \in SUBSET Ids(f) :
                    (m \in S /\ \A a \in S, b \in Ids(f) : Leads(f, a, b) => b \in S) => n \in S

(* Every set of steps has one that nothing in the set leads to.            *)
Acyclic(f) == \A S \in SUBSET Ids(f) : S # {} => \E n \in S : \A m \in S : ~Leads(f, m, n)

(* Point a set of exits at a step.  *)
Repointed(f, E, t) ==
  LET exits(n) == [k \in DOMAIN f.nodes[n].exits |-> IF <<n, k>> \in E THEN t ELSE f.nodes[n].exits[k]]
  IN [f EXCEPT !.nodes = [n \in Ids(f) |-> [f.nodes[n] EXCEPT !.exits = exits(n)]]]

-----------------------------------------------------------------------------
(* A place in the conversation: its start, some exits of one step, or the  *)
(* exits of a region's steps that meet at its target.                      *)
StartSlot == [kind |-> "start", from |-> {}, exits |-> {}, target |-> Nil]
ExitSlot(n, K) == [kind |-> "exits", from |-> {n}, exits |-> K, target |-> Nil]
JoinSlot(region, t) == [kind |-> "join", from |-> region, exits |-> {}, target |-> t]

Slot == [kind : {"start", "exits", "join"}, from : SUBSET StepId, exits : SUBSET ExitNo, target : Target]

SlotExits(f, s) ==
  CASE s.kind = "start" -> {}
    [] s.kind = "exits" -> {e \in Exits(f) : e[1] \in s.from /\ e[2] \in s.exits}
    [] s.kind = "join"  -> {e \in Exits(f) : e[1] \in s.from /\ To(f, e) = s.target}

TargetOf(f, s) ==
  CASE s.kind = "start" -> f.start
    [] s.kind = "exits" -> IF SlotExits(f, s) = {} THEN Nil
                           ELSE To(f, CHOOSE e \in SlotExits(f, s) :
                                        \A x \in SlotExits(f, s) : e[2] <= x[2])
    [] s.kind = "join"  -> s.target

(* A place is somewhere, and leads one way.  *)
PlaceIn(f, s) ==
  /\ s \in Slot
  /\ s.kind = "exits" => \E n \in s.from : s.from = {n}
  /\ s.kind # "start" => /\ s.from \subseteq Ids(f) /\ SlotExits(f, s) # {}
                         /\ \A e \in SlotExits(f, s) : To(f, e) = TargetOf(f, s)

WithTarget(f, s, t) ==
  IF s.kind = "start" THEN [f EXCEPT !.start = t] ELSE Repointed(f, SlotExits(f, s), t)

-----------------------------------------------------------------------------
(* Every exit that led to one step leads to another, save from some steps. *)
Repoint(f, from, to, except) ==
  LET g == Repointed(f, {e \in Exits(f) : e[1] \notin except /\ To(f, e) = from}, to)
  IN [g EXCEPT !.start = IF @ = from THEN to ELSE @]

FaultyNewNodeOpen(type, next) ==
  [type |-> type,
   exits |-> CASE type = "end"     -> [k \in {} |-> Nil]
               [] type = "message" -> [k \in {1} |-> next]
               [] OTHER            -> [k \in {1, 2} |-> IF k = 1 THEN next ELSE Nil]]
NewNode(type, next) ==
  [type |-> type,
   exits |-> CASE type = "end"     -> [k \in {} |-> Nil]
               [] type = "message" -> [k \in {1} |-> next]
               [] type = "booking" -> [k \in {1, 2} |-> IF k = 1 THEN next ELSE Nil]
               [] OTHER            -> [k \in {1, 2} |-> next]]

Added(f, id, node) ==
  [f EXCEPT !.nodes = [n \in Ids(f) \cup {id} |-> IF n = id THEN node ELSE @[n]]]

Dropped(f, S) == [f EXCEPT !.nodes = [n \in Ids(f) \ S |-> @[n]]]

(* insertStep: what the place led to now follows the new step.  *)
CanInsert(f, s, type) == type = "end" => TargetOf(f, s) = Nil
Insert(f, s, id, type) == WithTarget(Added(f, id, NewNode(type, TargetOf(f, s))), s, id)

(* removeStep: neighbours joined up, and what only it led to goes along.   *)
Continuation(node) ==
  LET targets == {node.exits[k] : k \in DOMAIN node.exits}
  IN IF node.type = "booking" THEN node.exits[1]
     ELSE IF Cardinality(targets) = 1 THEN CHOOSE t \in targets : TRUE ELSE Nil

Joined(f, id) == Dropped(Repoint(f, id, Continuation(f.nodes[id]), {}), {id})
Stranded(f, g) == Reachable(f) \ Reachable(g)
FaultyRemovedAlone(f, id) == Joined(f, id)
Removed(f, id) == Dropped(Joined(f, id), Stranded(f, Joined(f, id)) \ {id})
RemovedWith(f, id) == {id} \cup Stranded(f, Joined(f, id))

WithoutStranded(f, g) == Dropped(g, Stranded(f, g))

(* leadOn: a booking step with no way of its own when it cannot run keeps  *)
(* none.                                                                   *)
FaultyLeadsOnNoAnswers(f, ids, from) ==
  {e \in Exits(f) : e[1] \in ids /\ To(f, e) = from /\ f.nodes[e[1]].type = "message"}
LeadsOn(f, ids, from) ==
  {e \in Exits(f) : /\ e[1] \in ids /\ To(f, e) = from
                    /\ ~(f.nodes[e[1]].type = "booking" /\ e[2] = 2 /\ To(f, e) = Nil)}

(* moveStep: a block of steps, headed by id and carrying on at exit, is    *)
(* lifted out and put into a place.  Nothing changes when that makes no    *)
(* sense or would cut a step off.                                          *)
Move(f, id, block, slot) ==
  LET lifted == Repoint(f, id, block.exit, block.ids)
      place  == IF slot.kind = "join" THEN [slot EXCEPT !.from = @ \ block.ids] ELSE slot
      next   == TargetOf(lifted, place)
      rewired == IF block.closed THEN lifted
                 ELSE Repointed(lifted, LeadsOn(lifted, block.ids, block.exit), next)
      moved  == WithTarget(rewired, place, id)
  IN IF \/ TargetOf(f, slot) = id
        \/ slot.kind # "start" /\ slot.from \subseteq block.ids
        \/ block.closed /\ next # Nil
        \/ ~(Reachable(f) \subseteq Reachable(moved))
     THEN f ELSE moved

(* A question's answers: one more, one fewer, all on, all off.  *)
WithExits(f, id, exits) == [f EXCEPT !.nodes[id].exits = exits]

AddOption(f, id, main) ==
  LET exits == f.nodes[id].exits
      n     == Cardinality(DOMAIN exits) + 1
  IN WithExits(f, id, [j \in 1..n |-> IF j = n THEN main ELSE exits[j]])

RemoveOption(f, id, k) ==
  LET exits == f.nodes[id].exits
  IN WithoutStranded(f, WithExits(f, id, [j \in 1..(Cardinality(DOMAIN exits) - 1) |->
                                            exits[IF j < k THEN j ELSE j + 1]]))

QuickRepliesOn(f, id) ==
  [f EXCEPT !.nodes[id] = [type |-> "choice", exits |-> [k \in {1, 2} |-> @.exits[1]]]]

FaultyQuickRepliesKept(f, id, main) ==
  WithoutStranded(f, [f EXCEPT !.nodes[id] = [type |-> "message", exits |-> [k \in DOMAIN @.exits |-> main]]])
QuickRepliesOff(f, id, main) ==
  WithoutStranded(f, [f EXCEPT !.nodes[id] = [type |-> "message", exits |-> [k \in {1} |-> main]]])

(* choosePath: an exit goes on the main way or to a step, or gets a new    *)
(* message of its own first.                                               *)
ChoosePath(f, slot, t) == WithoutStranded(f, WithTarget(f, slot, t))
OwnPath(f, slot, main, id) == WithoutStranded(f, Insert(WithTarget(f, slot, main), slot, id, "message"))

-----------------------------------------------------------------------------
(* ChatFlowValidator: what the server asks of the graph before it is       *)
(* published.  A booking step may have no fallback; every other exit must  *)
(* lead to a step that is there.                                           *)
Valid(f) ==
  /\ f.start \in Ids(f)
  /\ \A e \in Exits(f) : \/ To(f, e) \in Ids(f)
                         \/ f.nodes[e[1]].type = "booking" /\ e[2] = 2 /\ To(f, e) = Nil
  /\ \A n \in Ids(f) : f.nodes[n].type = "choice" => DOMAIN f.nodes[n].exits # {}
=============================================================================
