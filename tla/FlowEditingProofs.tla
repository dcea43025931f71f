------------------------- MODULE FlowEditingProofs -------------------------
(***************************************************************************)
(* The builder keeps a conversation well formed, connected and free of     *)
(* loops, however it is drawn, as long as the drawing tells the edits the  *)
(* truth (DrawingHolds).                                                   *)
(***************************************************************************)
EXTENDS FlowEditing, FiniteSetTheorems, TLAPS

-----------------------------------------------------------------------------

(* What the proofs need to know of a conversation.                         *)

\* A conversation as the other lemmas see it.
Shape(f) == /\ f = [start |-> f.start, nodes |-> f.nodes]
            /\ f.nodes = [n \in Ids(f) |-> f.nodes[n]]
            /\ \A n \in Ids(f) : /\ f.nodes[n] = [type |-> f.nodes[n].type, exits |-> f.nodes[n].exits]
                                 /\ f.nodes[n].exits = [k \in DOMAIN f.nodes[n].exits |-> f.nodes[n].exits[k]]
                                 /\ DOMAIN f.nodes[n].exits \subseteq ExitNo

\* A step as the other lemmas see it.
Formed(x) == /\ x = [type |-> x.type, exits |-> x.exits]
             /\ x.exits = [k \in DOMAIN x.exits |-> x.exits[k]]
             /\ DOMAIN x.exits \subseteq ExitNo

LEMMA NodeShape ==
  ASSUME NEW x \in Node
  PROVE  /\ x = [type |-> x.type, exits |-> x.exits]
         /\ x.exits = [k \in DOMAIN x.exits |-> x.exits[k]]
         /\ DOMAIN x.exits \subseteq ExitNo
         /\ x.type \in Types
  <1>0. PICK type \in Types : \E K \in ExitsOf(type) : x \in [type : {type}, exits : [K -> Target]]
    BY DEF Node
  <1>1. PICK K \in ExitsOf(type) : x \in [type : {type}, exits : [K -> Target]]
    BY <1>0
  <1>2. K \subseteq ExitNo
    BY <1>1 DEF ExitsOf, Types, ExitNo
  <1> QED BY <1>1, <1>2

LEMMA FlowShape == \A f : IsFlow(f) => Shape(f)
  <1> SUFFICES ASSUME NEW f, IsFlow(f) PROVE Shape(f)
    OBVIOUS
  <1>1. PICK S \in SUBSET StepId : f \in [start : Target, nodes : [S -> Node]]
    BY DEF IsFlow
  <1>2. Ids(f) = S /\ \A n \in S : f.nodes[n] \in Node
    BY <1>1 DEF Ids
  <1> QED BY <1>1, <1>2, NodeShape DEF Shape, Ids

LEMMA RepointedShape ==
  ASSUME NEW f, Shape(f), NEW E, NEW t
  PROVE  LET g == Repointed(f, E, t)
         IN /\ Shape(g) /\ Ids(g) = Ids(f) /\ g.start = f.start
            /\ Exits(g) = Exits(f)
            /\ \A e \in Exits(f) : To(g, e) = IF e \in E THEN t ELSE To(f, e)
            /\ \A n \in Ids(f) : g.nodes[n].type = f.nodes[n].type
  <1> DEFINE moved(n) == [k \in DOMAIN f.nodes[n].exits |-> IF <<n, k>> \in E THEN t ELSE f.nodes[n].exits[k]]
             g == [start |-> f.start,
                   nodes |-> [n \in Ids(f) |-> [type |-> f.nodes[n].type, exits |-> moved(n)]]]
  <1>1. Repointed(f, E, t) = g
    <2>1. \A X : [f EXCEPT !.nodes = X] = [start |-> f.start, nodes |-> X]
      BY DEF Shape
    <2>2. \A n \in Ids(f) : \A X : [f.nodes[n] EXCEPT !.exits = X] = [type |-> f.nodes[n].type, exits |-> X]
      <3> SUFFICES ASSUME NEW n \in Ids(f), NEW X
                   PROVE  [f.nodes[n] EXCEPT !.exits = X] = [type |-> f.nodes[n].type, exits |-> X]
        OBVIOUS
      <3>1. f.nodes[n] = [type |-> f.nodes[n].type, exits |-> f.nodes[n].exits]
        BY DEF Shape
      <3>2. PICK ty, ex, x : ty = f.nodes[n].type /\ ex = f.nodes[n].exits /\ x = f.nodes[n]
        OBVIOUS
      <3>3. x = [type |-> ty, exits |-> ex]
        BY <3>1, <3>2
      <3>4. [x EXCEPT !.exits = X] = [type |-> ty, exits |-> X]
        BY <3>3
      <3> QED BY <3>2, <3>4
    <2>3. Repointed(f, E, t) =
            [f EXCEPT !.nodes = [n \in Ids(f) |-> [f.nodes[n] EXCEPT !.exits = moved(n)]]]
      BY DEF Repointed
    <2>4. [n \in Ids(f) |-> [f.nodes[n] EXCEPT !.exits = moved(n)]] = g.nodes
      BY <2>2
    <2> QED BY <2>1, <2>3, <2>4
  <1>2. Ids(g) = Ids(f) /\ g.start = f.start
    BY DEF Ids
  <1>3. \A n \in Ids(f) : /\ g.nodes[n].exits = moved(n) /\ DOMAIN g.nodes[n].exits = DOMAIN f.nodes[n].exits
                          /\ g.nodes[n].type = f.nodes[n].type
    BY DEF Ids
  <1>4. Shape(g)
    BY <1>2, <1>3 DEF Shape, Ids
  <1>5. Exits(g) = Exits(f)
    BY <1>2, <1>3 DEF Exits
  <1>6. \A e \in Exits(f) : To(g, e) = IF e \in E THEN t ELSE To(f, e)
    BY <1>3 DEF Exits, To
  <1> QED BY <1>1, <1>2, <1>3, <1>4, <1>5, <1>6

LEMMA StartShape ==
  ASSUME NEW f, Shape(f), NEW t
  PROVE  LET g == [f EXCEPT !.start = t]
         IN /\ Shape(g) /\ Ids(g) = Ids(f) /\ g.start = t
            /\ Exits(g) = Exits(f) /\ \A e \in Exits(f) : To(g, e) = To(f, e)
            /\ \A n \in Ids(f) : g.nodes[n].type = f.nodes[n].type
  <1>1. [f EXCEPT !.start = t] = [start |-> t, nodes |-> f.nodes]
    BY DEF Shape
  <1> QED BY <1>1 DEF Shape, Ids, Exits, To

LEMMA DroppedShape ==
  ASSUME NEW f, Shape(f), NEW S
  PROVE  LET g == Dropped(f, S)
         IN /\ Shape(g) /\ Ids(g) = Ids(f) \ S /\ g.start = f.start
            /\ Exits(g) = {e \in Exits(f) : e[1] \notin S}
            /\ \A e \in Exits(g) : To(g, e) = To(f, e)
  <1> DEFINE g == [start |-> f.start, nodes |-> [n \in Ids(f) \ S |-> f.nodes[n]]]
  <1>1. Dropped(f, S) = g
    BY DEF Dropped, Shape
  <1>2. Ids(g) = Ids(f) \ S /\ g.start = f.start /\ \A n \in Ids(g) : g.nodes[n] = f.nodes[n]
    BY DEF Ids
  <1>3. Shape(g)
    BY <1>2 DEF Shape, Ids
  <1>4. Exits(g) = {e \in Exits(f) : e[1] \notin S}
    BY <1>2 DEF Exits
  <1>5. \A e \in Exits(g) : To(g, e) = To(f, e)
    BY <1>2 DEF Exits, To
  <1> QED BY <1>1, <1>2, <1>3, <1>4, <1>5

LEMMA AddedShape ==
  ASSUME NEW f, Shape(f), NEW id, id \notin Ids(f), NEW node \in Node
  PROVE  LET g == Added(f, id, node)
         IN /\ Shape(g) /\ Ids(g) = Ids(f) \cup {id} /\ g.start = f.start
            /\ Exits(g) = Exits(f) \cup {e \in {id} \X ExitNo : e[2] \in DOMAIN node.exits}
            /\ \A e \in Exits(f) : To(g, e) = To(f, e) /\ e[1] # id
            /\ \A k \in DOMAIN node.exits : To(g, <<id, k>>) = node.exits[k]
  <1> DEFINE g == [start |-> f.start,
                   nodes |-> [n \in Ids(f) \cup {id} |-> IF n = id THEN node ELSE f.nodes[n]]]
  <1>1. Added(f, id, node) = g
    BY DEF Added, Shape
  <1>2. /\ Ids(g) = Ids(f) \cup {id} /\ g.start = f.start /\ g.nodes[id] = node
        /\ \A n \in Ids(f) : g.nodes[n] = f.nodes[n] /\ n # id
    BY DEF Ids
  <1>3. Shape(g)
    <2>1. \A n \in Ids(f) : Formed(f.nodes[n])
      BY DEF Shape, Formed
    <2>2. Formed(node)
      BY NodeShape DEF Formed
    <2>3. g = [start |-> g.start, nodes |-> g.nodes] /\ g.nodes = [n \in Ids(g) |-> g.nodes[n]]
      BY DEF Ids
    <2> HIDE DEF g
    <2>4. \A n \in Ids(g) : Formed(g.nodes[n])
      BY <1>2, <2>1, <2>2
    <2> QED BY <2>3, <2>4 DEF Shape, Formed
  <1>4. Exits(g) = Exits(f) \cup {e \in {id} \X ExitNo : e[2] \in DOMAIN node.exits}
    <2>1. Exits(g) = {e \in (Ids(f) \cup {id}) \X ExitNo : e[2] \in DOMAIN g.nodes[e[1]].exits}
      BY <1>2 DEF Exits
    <2>2. \A e \in Ids(f) \X ExitNo : e[1] \in Ids(f) /\ g.nodes[e[1]] = f.nodes[e[1]]
      BY <1>2
    <2>3. \A e \in {id} \X ExitNo : g.nodes[e[1]] = node
      BY <1>2
    <2> HIDE DEF g
    <2> QED BY <2>1, <2>2, <2>3 DEF Exits
  <1>5. \A e \in Exits(f) : To(g, e) = To(f, e) /\ e[1] # id
    BY <1>2 DEF Exits, To
  <1>6. \A k \in DOMAIN node.exits : To(g, <<id, k>>) = node.exits[k]
    BY <1>2 DEF To
  <1> QED BY <1>1, <1>2, <1>3, <1>4, <1>5, <1>6

-----------------------------------------------------------------------------
(* Reachability without paths: the least set that holds the start and is   *)
(* closed under the exits.                                                 *)

Follows(f, S) == /\ f.start \in Ids(f) => f.start \in S
                 /\ \A e \in Exits(f) : e[1] \in S /\ To(f, e) \in Ids(f) => To(f, e) \in S

LEMMA ClosedFollows ==
  ASSUME NEW f, Shape(f), NEW S \in SUBSET Ids(f)
  PROVE  Closed(f, S) <=> Follows(f, S)
  <1>1. \A m \in S : \A k \in DOMAIN f.nodes[m].exits :
          <<m, k>> \in Exits(f) /\ To(f, <<m, k>>) = f.nodes[m].exits[k]
    BY DEF Shape, Exits, To
  <1>2. \A e \in Exits(f) : e[2] \in DOMAIN f.nodes[e[1]].exits /\ To(f, e) = f.nodes[e[1]].exits[e[2]]
    BY DEF Exits, To
  <1>3. Closed(f, S) => Follows(f, S)
    BY <1>2 DEF Closed, Follows
  <1>4. ASSUME Follows(f, S) PROVE Closed(f, S)
    <2>1. ASSUME NEW m \in S, NEW k \in DOMAIN f.nodes[m].exits, f.nodes[m].exits[k] \in Ids(f)
          PROVE  f.nodes[m].exits[k] \in S
      <3>1. <<m, k>> \in Exits(f) /\ To(f, <<m, k>>) = f.nodes[m].exits[k] /\ <<m, k>>[1] = m
        BY <1>1
      <3> QED BY <1>4, <2>1, <3>1 DEF Follows
    <2> QED BY <1>4, <2>1 DEF Closed, Follows
  <1> QED BY <1>3, <1>4

LEMMA ReachableLeast ==
  ASSUME NEW f, Shape(f)
  PROVE  /\ Reachable(f) \subseteq Ids(f)
         /\ Follows(f, Reachable(f))
         /\ \A S \in SUBSET Ids(f) : Follows(f, S) => Reachable(f) \subseteq S
  <1>1. Reachable(f) = {n \in Ids(f) : \A S \in SUBSET Ids(f) : Follows(f, S) => n \in S}
    BY ClosedFollows DEF Reachable
  <1>2. Follows(f, Reachable(f))
    BY <1>1 DEF Follows
  <1> QED BY <1>1, <1>2

\* A step left out of every path is dropped with no path noticing.
LEMMA TidyKeepsConnected ==
  ASSUME NEW f, NEW g, Shape(g), Anchored(g)
  PROVE  \A S : Ids(g) \ S = Reachable(g) => WellConnected(Dropped(g, S))
  <1> SUFFICES ASSUME NEW S, Ids(g) \ S = Reachable(g)
               PROVE  WellConnected(Dropped(g, S))
    OBVIOUS
  <1>0. PICK h : h = Dropped(g, S)
    OBVIOUS
  <1>1. /\ Shape(h) /\ Ids(h) = Reachable(g) /\ h.start = g.start
        /\ Exits(h) = {e \in Exits(g) : e[1] \notin S}
        /\ \A e \in Exits(h) : To(h, e) = To(g, e)
    BY <1>0, DroppedShape
  <1>2. \A e \in Exits(h) : e[1] \in Reachable(g) /\ e \in Exits(g)
    <2>1. \A e \in Exits(g) : e[1] \in Ids(g)
      BY DEF Exits
    <2> QED BY <1>1, <2>1
  <1>3. Anchored(h)
    BY <1>1, <1>2, ReachableLeast DEF Anchored, Follows
  <1>4. Follows(g, Reachable(h))
    <2>1. Reachable(h) \subseteq Reachable(g) /\ Follows(h, Reachable(h))
      BY <1>1, ReachableLeast
    <2>2. g.start \in Ids(g) => g.start \in Reachable(h)
      BY <1>1, <2>1, ReachableLeast DEF Follows
    <2>3. ASSUME NEW e \in Exits(g), e[1] \in Reachable(h), To(g, e) \in Ids(g)
          PROVE  To(g, e) \in Reachable(h)
      <3>1. e[1] \in Reachable(g) /\ e[1] \notin S
        BY <2>1, <2>3
      <3>2. To(g, e) \in Reachable(g)
        BY <2>3, <3>1, ReachableLeast DEF Follows
      <3>3. e \in Exits(h) /\ To(h, e) = To(g, e)
        BY <1>1, <3>1
      <3> QED BY <1>1, <2>1, <2>3, <3>2, <3>3 DEF Follows
    <2> QED BY <2>2, <2>3 DEF Follows
  <1>5. Reachable(h) = Ids(h)
    BY <1>1, <1>4, ReachableLeast
  <1> QED BY <1>0, <1>3, <1>5 DEF WellConnected

-----------------------------------------------------------------------------
(* The edits.  *)

Kept(f, g) == Shape(g) /\ Anchored(g) /\ Ids(g) = Ids(f)

LEMMA RepointedKept ==
  ASSUME NEW f, Shape(f), Anchored(f), NEW E, NEW t \in Ids(f) \cup {Nil}
  PROVE  Kept(f, Repointed(f, E, t))
  BY RepointedShape DEF Kept, Anchored

LEMMA StartKept ==
  ASSUME NEW f, Shape(f), Anchored(f), NEW t \in Ids(f) \cup {Nil}
  PROVE  Kept(f, [f EXCEPT !.start = t])
  BY StartShape DEF Kept, Anchored

LEMMA WithTargetKept ==
  ASSUME NEW f, Shape(f), Anchored(f), NEW s, NEW t \in Ids(f) \cup {Nil}
  PROVE  Kept(f, WithTarget(f, s, t))
  BY RepointedKept, StartKept DEF WithTarget

\* Steps, their exits and where those lead after a repoint.
LEMMA RepointShape ==
  ASSUME NEW f, Shape(f), NEW from, NEW to, NEW except
  PROVE  LET g == Repoint(f, from, to, except)
         IN /\ Shape(g) /\ Ids(g) = Ids(f) /\ Exits(g) = Exits(f)
            /\ g.start = IF f.start = from THEN to ELSE f.start
            /\ \A e \in Exits(f) : To(g, e) = IF e[1] \notin except /\ To(f, e) = from THEN to ELSE To(f, e)
  <1>1. PICK E : E = {e \in Exits(f) : e[1] \notin except /\ To(f, e) = from}
    OBVIOUS
  <1>2. PICK h : h = Repointed(f, E, to)
    OBVIOUS
  <1>3. /\ Shape(h) /\ Ids(h) = Ids(f) /\ h.start = f.start /\ Exits(h) = Exits(f)
        /\ \A e \in Exits(f) : To(h, e) = IF e \in E THEN to ELSE To(f, e)
    BY <1>2, RepointedShape
  <1>4. PICK t : t = IF h.start = from THEN to ELSE h.start
    OBVIOUS
  <1>5. Repoint(f, from, to, except) = [h EXCEPT !.start = t]
    BY <1>1, <1>2, <1>4 DEF Repoint
  <1>6. LET g == [h EXCEPT !.start = t]
        IN /\ Shape(g) /\ Ids(g) = Ids(h) /\ g.start = t
           /\ Exits(g) = Exits(h) /\ \A e \in Exits(h) : To(g, e) = To(h, e)
    BY <1>3, StartShape
  <1> QED BY <1>1, <1>3, <1>4, <1>5, <1>6

LEMMA RepointKept ==
  ASSUME NEW f, Shape(f), Anchored(f), NEW from, NEW to \in Ids(f) \cup {Nil}, NEW except
  PROVE  Kept(f, Repoint(f, from, to, except))
  BY RepointShape DEF Kept, Anchored

\* Leading a path elsewhere (choosePath) drops what only it led to and leaves
\* everything else connected.
THEOREM ChoosePathConnects ==
  ASSUME NEW f, IsFlow(f), WellConnected(f), NEW s, NEW t \in Ids(f) \cup {Nil}
  PROVE  WellConnected(ChoosePath(f, s, t))
  <1>1. Shape(f) /\ Anchored(f) /\ Reachable(f) = Ids(f)
    BY FlowShape DEF WellConnected
  <1>2. PICK g : g = WithTarget(f, s, t)
    OBVIOUS
  <1>3. Shape(g) /\ Anchored(g) /\ Ids(g) = Ids(f)
    BY <1>1, <1>2, WithTargetKept DEF Kept
  <1>4. Ids(g) \ Stranded(f, g) = Reachable(g)
    BY <1>1, <1>3, ReachableLeast DEF Stranded
  <1>5. ChoosePath(f, s, t) = Dropped(g, Stranded(f, g))
    BY <1>2 DEF ChoosePath, WithoutStranded
  <1> QED BY <1>3, <1>4, <1>5, TidyKeepsConnected

LEMMA ContinuationIsAnExit ==
  ASSUME NEW node \in Node
  PROVE  Continuation(node) = Nil \/ \E k \in DOMAIN node.exits : Continuation(node) = node.exits[k]
  <1> DEFINE targets == {node.exits[k] : k \in DOMAIN node.exits}
  <1>1. node.type = "booking" => 1 \in DOMAIN node.exits
    <2>1. PICK type \in Types : \E K \in ExitsOf(type) : node \in [type : {type}, exits : [K -> Target]]
      BY DEF Node
    <2>2. PICK K \in ExitsOf(type) : node \in [type : {type}, exits : [K -> Target]]
      BY <2>1
    <2>3. type = "booking" => K = {1, 2}
      BY DEF ExitsOf
    <2> QED BY <2>2, <2>3
  <1>2. Cardinality(targets) = 1 => targets # {}
    BY FS_EmptySet
  <1>3. CASE node.type = "booking"
    BY <1>1, <1>3 DEF Continuation
  <1>4. CASE node.type # "booking" /\ Cardinality(targets) = 1
    <2>1. Continuation(node) = CHOOSE t \in targets : TRUE
      BY <1>4 DEF Continuation
    <2>2. Continuation(node) \in targets
      BY <1>2, <1>4, <2>1
    <2> QED BY <2>2
  <1>5. CASE node.type # "booking" /\ Cardinality(targets) # 1
    BY <1>5 DEF Continuation
  <1> QED BY <1>3, <1>4, <1>5

\* Where a deleted step's neighbours are led: a step it led to, or nowhere.
LEMMA ContinuationFollows ==
  ASSUME NEW f, IsFlow(f), Anchored(f), NEW id \in Ids(f)
  PROVE  Continuation(f.nodes[id]) = Nil \/ Leads(f, id, Continuation(f.nodes[id]))
  <1>1. PICK S \in SUBSET StepId : f \in [start : Target, nodes : [S -> Node]]
    BY DEF IsFlow
  <1>2. PICK node \in Node : node = f.nodes[id]
    BY <1>1 DEF Ids
  <1>3. ASSUME NEW k \in DOMAIN node.exits, node.exits[k] # Nil
        PROVE  Leads(f, id, node.exits[k])
    <2>1. <<id, k>> \in Exits(f) /\ To(f, <<id, k>>) = node.exits[k]
      BY <1>2, NodeShape DEF Exits, To
    <2>2. node.exits[k] \in Ids(f)
      BY <1>3, <2>1 DEF Anchored
    <2> QED BY <1>2, <2>2 DEF Leads
  <1> QED BY <1>2, <1>3, ContinuationIsAnExit

\* Deleting a step (removeStep) that does not lead to itself joins up what is
\* around it: no exit is left pointing at it, and nothing else is cut off.
THEOREM RemovedConnects ==
  ASSUME NEW f, IsFlow(f), WellConnected(f), NEW id \in Ids(f), ~Leads(f, id, id)
  PROVE  WellConnected(Removed(f, id))
  <1>1. Shape(f) /\ Anchored(f) /\ Reachable(f) = Ids(f)
    BY FlowShape DEF WellConnected
  <1>2. PICK c : c = Continuation(f.nodes[id]) /\ c \in (Ids(f) \ {id}) \cup {Nil}
    BY <1>1, ContinuationFollows DEF Leads
  <1>3. PICK h : h = Repoint(f, id, c, {})
    OBVIOUS
  <1>4. /\ Shape(h) /\ Ids(h) = Ids(f) /\ Exits(h) = Exits(f)
        /\ h.start = IF f.start = id THEN c ELSE f.start
        /\ \A e \in Exits(f) : To(h, e) = IF To(f, e) = id THEN c ELSE To(f, e)
    BY <1>1, <1>3, RepointShape
  <1>5. PICK g : g = Dropped(h, {id})
    OBVIOUS
  <1>6. /\ Shape(g) /\ Ids(g) = Ids(f) \ {id} /\ g.start = h.start
        /\ Exits(g) = {e \in Exits(f) : e[1] # id}
        /\ \A e \in Exits(g) : To(g, e) = To(h, e)
    BY <1>4, <1>5, DroppedShape
  <1>7. Anchored(g)
    BY <1>1, <1>2, <1>4, <1>6 DEF Anchored
  <1>8. g = Joined(f, id)
    BY <1>2, <1>3, <1>5 DEF Joined
  <1>9. Ids(g) \ (Stranded(f, g) \ {id}) = Reachable(g)
    <2>1. Reachable(g) \subseteq Ids(g)
      BY <1>6, ReachableLeast
    <2> QED BY <1>1, <1>6, <2>1 DEF Stranded
  <1>10. Removed(f, id) = Dropped(g, Stranded(f, g) \ {id})
    BY <1>8 DEF Removed
  <1> QED BY <1>6, <1>7, <1>9, <1>10, TidyKeepsConnected

-----------------------------------------------------------------------------
(* Edits that put a step somewhere.  *)

LEMMA LeastExit ==
  ASSUME NEW f, NEW E \in SUBSET Exits(f), E # {}
  PROVE  \E e \in E : \A x \in E : e[2] <= x[2]
  <1>1. \A e \in E : e[2] \in 1..3
    BY DEF Exits, ExitNo
  <1>2. CASE \E e \in E : e[2] = 1
    BY <1>1, <1>2
  <1>3. CASE (\A e \in E : e[2] # 1) /\ \E e \in E : e[2] = 2
    BY <1>1, <1>3
  <1>4. CASE \A e \in E : e[2] # 1 /\ e[2] # 2
    BY <1>1, <1>4
  <1> QED BY <1>2, <1>3, <1>4

LEMMA SlotExitsAreExits ==
  ASSUME NEW f, NEW s \in Slot
  PROVE  SlotExits(f, s) \subseteq Exits(f)
  BY DEF SlotExits, Slot

LEMMA TargetKept ==
  ASSUME NEW f, Anchored(f), NEW s \in Slot, s.kind = "join" => s.target \in Ids(f) \cup {Nil}
  PROVE  TargetOf(f, s) \in Ids(f) \cup {Nil}
  <1>1. CASE s.kind = "start"
    BY <1>1 DEF TargetOf, Anchored
  <1>2. CASE s.kind = "join"
    BY <1>2 DEF TargetOf
  <1>3. CASE s.kind = "exits"
    <2>1. CASE SlotExits(f, s) = {}
      BY <1>3, <2>1 DEF TargetOf
    <2>2. CASE SlotExits(f, s) # {}
      <3>1. PICK e : e = CHOOSE d \in SlotExits(f, s) : \A x \in SlotExits(f, s) : d[2] <= x[2]
        OBVIOUS
      <3>2. e \in SlotExits(f, s)
        BY <2>2, <3>1, LeastExit, SlotExitsAreExits
      <3>3. TargetOf(f, s) = To(f, e)
        BY <1>3, <2>2, <3>1 DEF TargetOf
      <3> QED BY <3>2, <3>3, SlotExitsAreExits DEF Anchored
    <2> QED BY <2>1, <2>2
  <1> QED BY <1>1, <1>2, <1>3 DEF Slot

\* A place the tree draws leads to a step, or nowhere.
LEMMA PlaceTarget ==
  ASSUME NEW f, Anchored(f), NEW s \in Slot, PlaceIn(f, s)
  PROVE  /\ TargetOf(f, s) \in Ids(f) \cup {Nil}
         /\ s.kind = "join" => s.target \in Ids(f) \cup {Nil}
  <1>1. CASE s.kind = "start"
    BY <1>1 DEF TargetOf, Anchored
  <1>2. CASE s.kind # "start"
    <2>1. PICK e \in SlotExits(f, s) : To(f, e) = TargetOf(f, s)
      BY <1>2 DEF PlaceIn
    <2>2. TargetOf(f, s) \in Ids(f) \cup {Nil}
      BY <2>1, SlotExitsAreExits DEF Anchored
    <2> QED BY <2>2 DEF TargetOf
  <1> QED BY <1>1, <1>2

LEMMA NewNodeShape ==
  ASSUME NEW type \in Types, NEW t \in Target
  PROVE  /\ NewNode(type, t) \in Node
         /\ type # "end" => 1 \in DOMAIN NewNode(type, t).exits /\ NewNode(type, t).exits[1] = t
         /\ \A k \in DOMAIN NewNode(type, t).exits : NewNode(type, t).exits[k] \in {t, Nil}
  <1> DEFINE node == NewNode(type, t)
             K == CASE type = "end" -> {} [] type = "message" -> {1} [] OTHER -> {1, 2}
  <1>1. K \in ExitsOf(type)
    BY DEF ExitsOf, Types
  <1>2. /\ node = [type |-> node.type, exits |-> node.exits] /\ node.type = type
        /\ node.exits = [k \in DOMAIN node.exits |-> node.exits[k]]
        /\ DOMAIN node.exits = K
        /\ \A k \in K : node.exits[k] \in {t, Nil}
        /\ type # "end" => 1 \in K /\ node.exits[1] = t
    BY DEF NewNode, Types
  <1>3. node \in [type : {type}, exits : [K -> Target]]
    <2>1. node.exits \in [K -> Target]
      BY <1>2 DEF Target
    <2> QED BY <1>2, <2>1
  <1>4. node \in Node
    BY <1>1, <1>3 DEF Node
  <1> QED BY <1>2, <1>4

\* A new step in a place.
Put(f, s, id, node) == WithTarget(Added(f, id, node), s, id)

\* What there is after a step was put into a place.
Placed(f, s, id, node, h) ==
  /\ Shape(h) /\ Ids(h) = Ids(f) \cup {id}
  /\ Exits(h) = Exits(f) \cup {e \in {id} \X ExitNo : e[2] \in DOMAIN node.exits}
  /\ h.start = IF s.kind = "start" THEN id ELSE f.start
  /\ \A e \in Exits(f) :
       e[1] # id /\ To(h, e) = IF s.kind # "start" /\ e \in SlotExits(f, s) THEN id ELSE To(f, e)
  /\ \A k \in DOMAIN node.exits : To(h, <<id, k>>) = node.exits[k]

LEMMA PutShape ==
  ASSUME NEW f, Shape(f), NEW s, PlaceIn(f, s), NEW id, id \notin Ids(f), NEW node \in Node
  PROVE  Placed(f, s, id, node, Put(f, s, id, node))
  <1>1. PICK a : a = Added(f, id, node)
    OBVIOUS
  <1>2. /\ Shape(a) /\ Ids(a) = Ids(f) \cup {id} /\ a.start = f.start
        /\ Exits(a) = Exits(f) \cup {e \in {id} \X ExitNo : e[2] \in DOMAIN node.exits}
        /\ \A e \in Exits(f) : To(a, e) = To(f, e) /\ e[1] # id
        /\ \A k \in DOMAIN node.exits : To(a, <<id, k>>) = node.exits[k]
    BY <1>1, AddedShape
  <1>3. PICK h : h = WithTarget(a, s, id)
    OBVIOUS
  <1>4. CASE s.kind = "start"
    <2>1. h = [a EXCEPT !.start = id]
      BY <1>3, <1>4 DEF WithTarget
    <2>2. /\ Shape(h) /\ Ids(h) = Ids(a) /\ h.start = id /\ Exits(h) = Exits(a)
          /\ \A e \in Exits(a) : To(h, e) = To(a, e)
      BY <1>2, <2>1, StartShape
    <2>3. \A k \in DOMAIN node.exits : <<id, k>> \in Exits(a)
      BY <1>2, NodeShape
    <2> QED BY <1>1, <1>2, <1>3, <1>4, <2>2, <2>3 DEF Put, Placed
  <1>5. CASE s.kind # "start"
    <2>1. SlotExits(a, s) = SlotExits(f, s)
      <3>1. id \notin s.from
        BY <1>5 DEF PlaceIn
      <3>2. \A e \in Exits(a) : e[1] \in s.from => e \in Exits(f) /\ To(a, e) = To(f, e)
        BY <1>2, <3>1
      <3>3. SlotExits(a, s) \subseteq SlotExits(f, s)
        BY <1>5, <3>2 DEF SlotExits, Slot, PlaceIn
      <3>4. SlotExits(f, s) \subseteq SlotExits(a, s)
        BY <1>2, <1>5 DEF SlotExits, Slot, PlaceIn
      <3> QED BY <3>3, <3>4
    <2>2. /\ Shape(h) /\ Ids(h) = Ids(a) /\ h.start = a.start /\ Exits(h) = Exits(a)
          /\ \A e \in Exits(a) : To(h, e) = IF e \in SlotExits(a, s) THEN id ELSE To(a, e)
      BY <1>2, <1>3, <1>5, RepointedShape DEF WithTarget
    <2>3. SlotExits(f, s) \subseteq Exits(f)
      BY SlotExitsAreExits DEF PlaceIn
    <2>4. ASSUME NEW k \in DOMAIN node.exits
          PROVE  To(h, <<id, k>>) = node.exits[k]
      <3>1. <<id, k>> \in Exits(a) /\ <<id, k>> \notin Exits(f)
        <4>1. k \in ExitNo
          BY NodeShape
        <4>2. <<id, k>>[1] = id
          OBVIOUS
        <4> QED BY <1>2, <4>1, <4>2
      <3> QED BY <1>2, <2>1, <2>2, <2>3, <3>1
    <2> QED BY <1>1, <1>2, <1>3, <1>5, <2>1, <2>2, <2>4 DEF Put, Placed
  <1> QED BY <1>4, <1>5

\* The new step goes on where the place led to.
GoesOnFrom(f, s, node) ==
  /\ \A k \in DOMAIN node.exits : node.exits[k] \in Ids(f) \cup {Nil}
  /\ TargetOf(f, s) \in Ids(f) => \E k \in DOMAIN node.exits : node.exits[k] = TargetOf(f, s)

\* Then what was reached is still reached, if it is behind the new step
\* through it, and the new step is if its place is.
LEMMA PutReaches ==
  ASSUME NEW f, Shape(f), Anchored(f), NEW s, PlaceIn(f, s), NEW id, id \notin Ids(f), NEW node \in Node,
         GoesOnFrom(f, s, node), NEW h, h = Put(f, s, id, node)
  PROVE  /\ Shape(h) /\ Anchored(h) /\ Ids(h) = Ids(f) \cup {id}
         /\ Reachable(f) \subseteq Reachable(h)
         /\ s.kind = "start" \/ (\E e \in SlotExits(f, s) : e[1] \in Reachable(h)) => id \in Reachable(h)
  <1>1. /\ Shape(h) /\ Ids(h) = Ids(f) \cup {id}
        /\ Exits(h) = Exits(f) \cup {e \in {id} \X ExitNo : e[2] \in DOMAIN node.exits}
        /\ h.start = IF s.kind = "start" THEN id ELSE f.start
        /\ \A e \in Exits(f) :
             e[1] # id /\ To(h, e) = IF s.kind # "start" /\ e \in SlotExits(f, s) THEN id ELSE To(f, e)
        /\ \A k \in DOMAIN node.exits : To(h, <<id, k>>) = node.exits[k]
    BY PutShape DEF Placed
  <1>2. PICK t : t = TargetOf(f, s)
    OBVIOUS
  <1>3. Anchored(h)
    <2>1. ASSUME NEW e \in {id} \X ExitNo, e[2] \in DOMAIN node.exits
          PROVE  To(h, e) \in Ids(h) \cup {Nil}
      <3>1. e = <<id, e[2]>>
        OBVIOUS
      <3>2. To(h, e) = node.exits[e[2]]
        BY <1>1, <2>1, <3>1
      <3> QED BY <1>1, <2>1, <3>2 DEF GoesOnFrom
    <2>2. \A e \in Exits(f) : To(h, e) \in Ids(h) \cup {Nil}
      BY <1>1 DEF Anchored
    <2>3. h.start \in Ids(h) \cup {Nil}
      BY <1>1 DEF Anchored
    <2> QED BY <1>1, <2>1, <2>2, <2>3 DEF Anchored
  <1>4. PICK R : R = Reachable(h)
    OBVIOUS
  <1>5. R \subseteq Ids(h) /\ Follows(h, R)
    BY <1>1, <1>4, ReachableLeast
  <1>6. ASSUME id \in R, t \in Ids(f) PROVE t \in R
    <2>1. PICK k \in DOMAIN node.exits : node.exits[k] = t
      BY <1>2, <1>6 DEF GoesOnFrom
    <2>2. k \in ExitNo
      BY NodeShape
    <2>3. <<id, k>> \in Exits(h) /\ To(h, <<id, k>>) = t /\ <<id, k>>[1] = id
      BY <1>1, <2>1, <2>2
    <2> QED BY <1>1, <1>5, <1>6, <2>3 DEF Follows
  <1>7. SlotExits(f, s) \subseteq Exits(f) /\ Exits(f) \subseteq Exits(h)
    BY <1>1, SlotExitsAreExits DEF PlaceIn
  <1>8. Follows(f, R \ {id})
    <2>1. ASSUME f.start \in Ids(f) PROVE f.start \in R \ {id}
      <3>1. CASE s.kind = "start"
        <4>1. id \in R /\ t = f.start
          BY <1>1, <1>2, <1>5, <3>1 DEF Follows, TargetOf
        <4> QED BY <1>6, <2>1, <4>1
      <3>2. CASE s.kind # "start"
        BY <1>1, <1>5, <2>1, <3>2 DEF Follows
      <3> QED BY <3>1, <3>2
    <2>2. ASSUME NEW e \in Exits(f), e[1] \in R \ {id}, To(f, e) \in Ids(f)
          PROVE  To(f, e) \in R \ {id}
      <3>1. e \in Exits(h) /\ To(f, e) # id
        BY <1>7, <2>2
      <3>2. CASE To(h, e) = To(f, e)
        BY <1>1, <1>5, <2>2, <3>1, <3>2 DEF Follows
      <3>3. CASE To(h, e) # To(f, e)
        <4>1. s.kind # "start" /\ e \in SlotExits(f, s) /\ To(h, e) = id
          BY <1>1, <3>3
        <4>2. To(f, e) = t
          BY <1>2, <4>1 DEF PlaceIn
        <4>3. id \in R
          BY <1>1, <1>5, <2>2, <3>1, <4>1 DEF Follows
        <4> QED BY <1>6, <2>2, <3>1, <4>2, <4>3
      <3> QED BY <3>2, <3>3
    <2> QED BY <2>1, <2>2 DEF Follows
  <1>9. Reachable(f) \subseteq R
    <2>1. R \ {id} \in SUBSET Ids(f)
      BY <1>1, <1>5
    <2>2. \A S \in SUBSET Ids(f) : Follows(f, S) => Reachable(f) \subseteq S
      BY ReachableLeast
    <2> QED BY <1>8, <2>1, <2>2
  <1>10. s.kind = "start" \/ (\E e \in SlotExits(f, s) : e[1] \in R) => id \in R
    <2>1. CASE s.kind = "start"
      BY <1>1, <1>5, <2>1 DEF Follows
    <2>2. CASE s.kind # "start"
      <3> SUFFICES ASSUME NEW e \in SlotExits(f, s), e[1] \in R PROVE id \in R
        BY <2>2
      <3>1. e \in Exits(h) /\ To(h, e) = id
        BY <1>1, <1>7, <2>2
      <3> QED BY <1>1, <1>5, <3>1 DEF Follows
    <2> QED BY <2>1, <2>2
  <1> QED BY <1>1, <1>3, <1>4, <1>9, <1>10

LEMMA PutConnects ==
  ASSUME NEW f, Shape(f), WellConnected(f), NEW s, PlaceIn(f, s), NEW id, id \notin Ids(f), NEW node \in Node,
         GoesOnFrom(f, s, node)
  PROVE  WellConnected(Put(f, s, id, node))
  <1>1. PICK h : h = Put(f, s, id, node)
    OBVIOUS
  <1>2. /\ Shape(h) /\ Anchored(h) /\ Ids(h) = Ids(f) \cup {id} /\ Ids(f) \subseteq Reachable(h)
        /\ s.kind = "start" \/ (\E e \in SlotExits(f, s) : e[1] \in Reachable(h)) => id \in Reachable(h)
    BY <1>1, PutReaches DEF WellConnected
  <1>3. s.kind # "start" => \E e \in SlotExits(f, s) : e[1] \in Reachable(h)
    <2>1. \A e \in Exits(f) : e[1] \in Ids(f)
      BY DEF Exits
    <2> QED BY <1>2, <2>1, SlotExitsAreExits DEF PlaceIn
  <1> QED BY <1>1, <1>2, <1>3, ReachableLeast DEF WellConnected

\* What insertStep adds goes on where the place led to.
LEMMA InsertPuts ==
  ASSUME NEW f, Anchored(f), Ids(f) \subseteq StepId, NEW s, PlaceIn(f, s), NEW type \in Types, CanInsert(f, s, type)
  PROVE  LET node == NewNode(type, TargetOf(f, s))
         IN /\ node \in Node /\ GoesOnFrom(f, s, node) /\ TargetOf(f, s) \in Ids(f) \cup {Nil}
            /\ \A id : Insert(f, s, id, type) = Put(f, s, id, node)
            /\ \A k \in DOMAIN node.exits : node.exits[k] \in {TargetOf(f, s), Nil}
  <1>1. PICK t : t = TargetOf(f, s) /\ t \in Ids(f) \cup {Nil}
    BY PlaceTarget DEF PlaceIn
  <1>2. PICK node : /\ node = NewNode(type, t) /\ node \in Node
                    /\ type # "end" => 1 \in DOMAIN node.exits /\ node.exits[1] = t
                    /\ \A k \in DOMAIN node.exits : node.exits[k] \in {t, Nil}
    BY <1>1, NewNodeShape DEF Target
  <1>3. GoesOnFrom(f, s, node)
    <2>1. t \in Ids(f) => type # "end"
      BY <1>1, IdAssumption DEF CanInsert
    <2> QED BY <1>1, <1>2, <2>1 DEF GoesOnFrom
  <1>4. \A id : Insert(f, s, id, type) = Put(f, s, id, node)
    BY <1>1, <1>2 DEF Insert, Put
  <1> QED BY <1>1, <1>2, <1>3, <1>4

LEMMA FlowIds == \A f : IsFlow(f) => Ids(f) \subseteq StepId
  BY DEF IsFlow, Ids

\* A step put into a place the tree draws (insertStep) is reached, and what
\* the place led to is reached through it: nothing is cut off.
THEOREM InsertConnects ==
  ASSUME NEW f, IsFlow(f), WellConnected(f), NEW s, PlaceIn(f, s),
         NEW id, id \notin Ids(f), NEW type \in Types, CanInsert(f, s, type)
  PROVE  WellConnected(Insert(f, s, id, type))
  <1>1. Shape(f) /\ Anchored(f) /\ Ids(f) \subseteq StepId
    BY FlowShape, FlowIds DEF WellConnected
  <1> QED BY <1>1, InsertPuts, PutConnects

\* Moving a block (moveStep) into a place cuts nothing off and leaves no exit
\* pointing at a step that is gone.
THEOREM MoveConnects ==
  ASSUME NEW f, IsFlow(f), WellConnected(f), NEW id \in Ids(f), NEW block,
         block.exit \in Ids(f) \cup {Nil}, NEW slot, PlaceIn(f, slot)
  PROVE  WellConnected(Move(f, id, block, slot))
  <1>1. Shape(f) /\ Anchored(f) /\ Reachable(f) = Ids(f)
    BY FlowShape DEF WellConnected
  <1>2. PICK lifted : lifted = Repoint(f, id, block.exit, block.ids)
    OBVIOUS
  <1>3. Kept(f, lifted)
    BY <1>1, <1>2, RepointKept
  <1>4. PICK place : place = IF slot.kind = "join" THEN [slot EXCEPT !.from = @ \ block.ids] ELSE slot
    OBVIOUS
  <1>5. place \in Slot /\ (place.kind = "join" => place.target \in Ids(f) \cup {Nil})
    BY <1>1, <1>4, PlaceTarget DEF Slot, PlaceIn
  <1>6. PICK next : next = TargetOf(lifted, place)
    OBVIOUS
  <1>7. next \in Ids(f) \cup {Nil}
    BY <1>3, <1>5, <1>6, TargetKept DEF Kept
  <1>8. PICK rewired :
          rewired = IF block.closed THEN lifted
                    ELSE Repointed(lifted, LeadsOn(lifted, block.ids, block.exit), next)
    OBVIOUS
  <1>9. Kept(f, rewired)
    BY <1>3, <1>7, <1>8, RepointedKept DEF Kept
  <1>10. PICK moved : moved = WithTarget(rewired, place, id)
    OBVIOUS
  <1>11. Kept(f, moved)
    BY <1>9, <1>10, WithTargetKept DEF Kept
  <1>12. Reachable(f) \subseteq Reachable(moved) => WellConnected(moved)
    BY <1>1, <1>11, ReachableLeast DEF Kept, WellConnected
  <1>13. Move(f, id, block, slot) \in {f, moved} /\ (Move(f, id, block, slot) # f => Reachable(f) \subseteq Reachable(moved))
    BY <1>2, <1>4, <1>6, <1>8, <1>10 DEF Move
  <1> QED BY <1>12, <1>13
-----------------------------------------------------------------------------
(* Edits keep a conversation well formed.  *)

\* A step of its type; a question has an answer.
Whole == {x \in Node : x.type = "choice" => DOMAIN x.exits # {}}
Typed(f) == \E S \in SUBSET StepId : f \in [start : Target, nodes : [S -> Whole]]

LEMMA TypedFlow ==
  ASSUME NEW f, Typed(f)
  PROVE  /\ IsFlow(f) /\ Shape(f) /\ Ids(f) \subseteq StepId /\ f.start \in Target
         /\ f.nodes \in [Ids(f) -> Whole]
  <1>1. PICK S \in SUBSET StepId : f \in [start : Target, nodes : [S -> Whole]]
    BY DEF Typed
  <1>2. Whole \subseteq Node
    BY DEF Whole
  <1>3. f \in [start : Target, nodes : [S -> Node]]
    BY <1>1, <1>2
  <1>4. IsFlow(f)
    BY <1>3 DEF IsFlow
  <1>5. Ids(f) = S
    BY <1>1 DEF Ids
  <1> QED BY <1>1, <1>4, <1>5, FlowShape

\* Other targets do not change what a step is.
LEMMA WholeKept ==
  ASSUME NEW x \in Whole, NEW ex \in [DOMAIN x.exits -> Target]
  PROVE  [type |-> x.type, exits |-> ex] \in Whole
  <1>1. PICK type \in Types : \E K \in ExitsOf(type) : x \in [type : {type}, exits : [K -> Target]]
    BY DEF Whole, Node
  <1>2. PICK K \in ExitsOf(type) : x \in [type : {type}, exits : [K -> Target]]
    BY <1>1
  <1>3. [type |-> x.type, exits |-> ex] \in [type : {type}, exits : [K -> Target]]
    BY <1>2
  <1>4. [type |-> x.type, exits |-> ex] \in Node
    BY <1>2, <1>3 DEF Node
  <1>5. /\ [type |-> x.type, exits |-> ex].type = x.type
        /\ DOMAIN [type |-> x.type, exits |-> ex].exits = DOMAIN x.exits
    OBVIOUS
  <1> QED BY <1>4, <1>5 DEF Whole

\* What a step of each type may lead on by.
LEMMA WholeOf ==
  ASSUME NEW type \in Types, NEW K \in ExitsOf(type), type = "choice" => K # {}, NEW ex \in [K -> Target]
  PROVE  [type |-> type, exits |-> ex] \in Whole
  <1>1. [type |-> type, exits |-> ex] \in [type : {type}, exits : [K -> Target]]
    OBVIOUS
  <1>2. [type |-> type, exits |-> ex] \in Node
    BY <1>1 DEF Node
  <1>3. [type |-> type, exits |-> ex].type = type /\ DOMAIN [type |-> type, exits |-> ex].exits = K
    OBVIOUS
  <1> QED BY <1>2, <1>3 DEF Whole

LEMMA RepointedTyped ==
  ASSUME NEW f, Typed(f), NEW E, NEW t \in Target
  PROVE  Typed(Repointed(f, E, t))
  <1>1. Shape(f) /\ Ids(f) \subseteq StepId /\ f.start \in Target /\ f.nodes \in [Ids(f) -> Whole]
    BY TypedFlow
  <1> DEFINE ex(n) == [k \in DOMAIN f.nodes[n].exits |-> IF <<n, k>> \in E THEN t ELSE f.nodes[n].exits[k]]
  <1>2. ASSUME NEW n \in Ids(f)
        PROVE  [f.nodes[n] EXCEPT !.exits = ex(n)] \in Whole
    <2>1. PICK x : x = f.nodes[n] /\ x \in Whole
      BY <1>1
    <2>2. PICK K, ty : x \in [type : {ty}, exits : [K -> Target]]
      BY <2>1 DEF Whole, Node
    <2>3. ex(n) \in [DOMAIN x.exits -> Target]
      BY <2>1, <2>2
    <2> HIDE DEF ex
    <2>4. [x EXCEPT !.exits = ex(n)] = [type |-> x.type, exits |-> ex(n)]
      BY <2>2
    <2> QED BY <2>1, <2>3, <2>4, WholeKept
  <1> DEFINE nodes == [n \in Ids(f) |-> [f.nodes[n] EXCEPT !.exits = ex(n)]]
  <1>3. nodes \in [Ids(f) -> Whole]
    BY <1>2
  <1>4. Repointed(f, E, t) = [f EXCEPT !.nodes = nodes]
    BY DEF Repointed
  <1> HIDE DEF nodes
  <1>5. [f EXCEPT !.nodes = nodes] = [start |-> f.start, nodes |-> nodes]
    BY <1>1 DEF Shape
  <1>6. [start |-> f.start, nodes |-> nodes] \in [start : Target, nodes : [Ids(f) -> Whole]]
    BY <1>1, <1>3
  <1> QED BY <1>1, <1>4, <1>5, <1>6 DEF Typed

LEMMA StartTyped ==
  ASSUME NEW f, Typed(f), NEW t \in Target
  PROVE  Typed([f EXCEPT !.start = t])
  <1>1. PICK S \in SUBSET StepId : f \in [start : Target, nodes : [S -> Whole]]
    BY DEF Typed
  <1>2. [f EXCEPT !.start = t] \in [start : Target, nodes : [S -> Whole]]
    BY <1>1
  <1> QED BY <1>2 DEF Typed

LEMMA WithTargetTyped ==
  ASSUME NEW f, Typed(f), NEW s, NEW t \in Target
  PROVE  Typed(WithTarget(f, s, t))
  BY RepointedTyped, StartTyped DEF WithTarget

LEMMA RepointTyped ==
  ASSUME NEW f, Typed(f), NEW from, NEW to \in Target, NEW except
  PROVE  Typed(Repoint(f, from, to, except))
  <1>1. PICK g : g = Repointed(f, {e \in Exits(f) : e[1] \notin except /\ To(f, e) = from}, to)
    OBVIOUS
  <1>2. Typed(g)
    BY <1>1, RepointedTyped
  <1>3. PICK t : t = IF g.start = from THEN to ELSE g.start
    OBVIOUS
  <1>4. t \in Target
    BY <1>2, <1>3, TypedFlow
  <1>5. Repoint(f, from, to, except) = [g EXCEPT !.start = t]
    BY <1>1, <1>3 DEF Repoint
  <1> QED BY <1>2, <1>4, <1>5, StartTyped

LEMMA DroppedTyped ==
  ASSUME NEW f, Typed(f), NEW X
  PROVE  Typed(Dropped(f, X))
  <1>1. PICK S \in SUBSET StepId : f \in [start : Target, nodes : [S -> Whole]]
    BY DEF Typed
  <1>2. Dropped(f, X) \in [start : Target, nodes : [S \ X -> Whole]]
    BY <1>1 DEF Dropped, Ids
  <1> QED BY <1>2 DEF Typed

LEMMA PutTyped ==
  ASSUME NEW f, Typed(f), NEW s, NEW id \in StepId, NEW node \in Whole
  PROVE  Typed(Put(f, s, id, node))
  <1>1. PICK S \in SUBSET StepId : f \in [start : Target, nodes : [S -> Whole]]
    BY DEF Typed
  <1>2. Added(f, id, node) \in [start : Target, nodes : [S \cup {id} -> Whole]]
    BY <1>1 DEF Added, Ids
  <1>3. Typed(Added(f, id, node))
    BY <1>2 DEF Typed
  <1> QED BY <1>3, WithTargetTyped DEF Put, Target

\* One step made another.
Renoded(f, id, x) == [f EXCEPT !.nodes[id] = x]

LEMMA RenodedTyped ==
  ASSUME NEW f, Typed(f), NEW id \in Ids(f), NEW x \in Whole
  PROVE  Typed(Renoded(f, id, x))
  <1>1. PICK S \in SUBSET StepId : f \in [start : Target, nodes : [S -> Whole]]
    BY DEF Typed
  <1>2. Renoded(f, id, x) \in [start : Target, nodes : [S -> Whole]]
    BY <1>1 DEF Renoded, Ids
  <1> QED BY <1>2 DEF Typed

LEMMA RenodedShape ==
  ASSUME NEW f, Shape(f), NEW id \in Ids(f), NEW x \in Node
  PROVE  LET g == Renoded(f, id, x)
         IN /\ Shape(g) /\ Ids(g) = Ids(f) /\ g.start = f.start
            /\ Exits(g) = {e \in Exits(f) : e[1] # id} \cup {e \in {id} \X ExitNo : e[2] \in DOMAIN x.exits}
            /\ \A e \in Exits(f) : e[1] # id => To(g, e) = To(f, e)
            /\ \A k \in DOMAIN x.exits : To(g, <<id, k>>) = x.exits[k]
  <1> DEFINE g == [start |-> f.start, nodes |-> [n \in Ids(f) |-> IF n = id THEN x ELSE f.nodes[n]]]
  <1>1. Renoded(f, id, x) = g
    <2>1. PICK st, ns : st = f.start /\ ns = f.nodes
      OBVIOUS
    <2>2. f = [start |-> st, nodes |-> ns] /\ ns = [n \in Ids(f) |-> ns[n]]
      BY <2>1 DEF Shape
    <2>3. [f EXCEPT !.nodes[id] = x] = [start |-> st, nodes |-> [ns EXCEPT ![id] = x]]
      BY <2>2
    <2>4. [ns EXCEPT ![id] = x] = [n \in Ids(f) |-> IF n = id THEN x ELSE ns[n]]
      BY <2>2
    <2> QED BY <2>1, <2>3, <2>4 DEF Renoded
  <1>2. Ids(g) = Ids(f) /\ g.start = f.start /\ g.nodes[id] = x /\ \A n \in Ids(f) : n # id => g.nodes[n] = f.nodes[n]
    BY DEF Ids
  <1>3. Shape(g)
    <2>1. \A n \in Ids(f) : Formed(f.nodes[n])
      BY DEF Shape, Formed
    <2>2. Formed(x)
      BY NodeShape DEF Formed
    <2>3. g = [start |-> g.start, nodes |-> g.nodes] /\ g.nodes = [n \in Ids(g) |-> g.nodes[n]]
      BY DEF Ids
    <2> HIDE DEF g
    <2>4. \A n \in Ids(g) : Formed(g.nodes[n])
      BY <1>2, <2>1, <2>2
    <2> QED BY <2>3, <2>4 DEF Shape, Formed
  <1>4. Exits(g) = {e \in Exits(f) : e[1] # id} \cup {e \in {id} \X ExitNo : e[2] \in DOMAIN x.exits}
    <2>1. Exits(g) = {e \in Ids(f) \X ExitNo : e[2] \in DOMAIN g.nodes[e[1]].exits}
      BY <1>2 DEF Exits
    <2>2. \A e \in Ids(f) \X ExitNo : e[1] \in Ids(f) /\ (e[1] # id => g.nodes[e[1]] = f.nodes[e[1]])
      BY <1>2
    <2>3. \A e \in {id} \X ExitNo : e[1] = id /\ e \in Ids(f) \X ExitNo /\ g.nodes[e[1]] = x
      BY <1>2
    <2>4. \A e \in Ids(f) \X ExitNo : e[1] = id => e \in {id} \X ExitNo
      OBVIOUS
    <2> HIDE DEF g
    <2> QED BY <2>1, <2>2, <2>3, <2>4 DEF Exits
  <1>5. \A e \in Exits(f) : e[1] # id => To(g, e) = To(f, e)
    BY <1>2 DEF Exits, To
  <1>6. \A k \in DOMAIN x.exits : To(g, <<id, k>>) = x.exits[k]
    BY <1>2 DEF To
  <1> QED BY <1>1, <1>2, <1>3, <1>4, <1>5, <1>6

-----------------------------------------------------------------------------
(* Deleting a step that was just put in.  *)

\* What type each step of X has is as it was.
SameTypes(f, g, X) == \A n \in X : g.nodes[n].type = f.nodes[n].type

LEMMA RepointTypes ==
  ASSUME NEW f, Shape(f), NEW from, NEW to, NEW except
  PROVE  SameTypes(f, Repoint(f, from, to, except), Ids(f))
  <1>1. PICK g : g = Repointed(f, {e \in Exits(f) : e[1] \notin except /\ To(f, e) = from}, to)
    OBVIOUS
  <1>2. Shape(g) /\ Ids(g) = Ids(f) /\ SameTypes(f, g, Ids(f))
    BY <1>1, RepointedShape DEF SameTypes
  <1>3. PICK t : t = IF g.start = from THEN to ELSE g.start
    OBVIOUS
  <1>4. Repoint(f, from, to, except) = [g EXCEPT !.start = t]
    BY <1>1, <1>3 DEF Repoint
  <1>5. SameTypes(g, [g EXCEPT !.start = t], Ids(g))
    BY <1>2, StartShape DEF SameTypes
  <1> QED BY <1>2, <1>4, <1>5 DEF SameTypes

LEMMA DroppedTypes ==
  ASSUME NEW f, Shape(f), NEW S
  PROVE  SameTypes(f, Dropped(f, S), Ids(f) \ S)
  <1>1. Dropped(f, S) = [start |-> f.start, nodes |-> [n \in Ids(f) \ S |-> f.nodes[n]]]
    BY DEF Dropped, Shape
  <1> QED BY <1>1 DEF SameTypes

LEMMA PutTypes ==
  ASSUME NEW f, Shape(f), NEW s, NEW id, id \notin Ids(f), NEW node \in Node
  PROVE  SameTypes(f, Put(f, s, id, node), Ids(f)) /\ Put(f, s, id, node).nodes[id].type = node.type
  <1>1. PICK a : a = Added(f, id, node)
    OBVIOUS
  <1>2. a = [start |-> f.start, nodes |-> [n \in Ids(f) \cup {id} |-> IF n = id THEN node ELSE f.nodes[n]]]
    BY <1>1 DEF Added, Shape
  <1>3. Shape(a) /\ Ids(a) = Ids(f) \cup {id}
    BY <1>1, AddedShape
  <1>4. SameTypes(f, a, Ids(f)) /\ a.nodes[id].type = node.type
    BY <1>2 DEF SameTypes
  <1>5. SameTypes(a, WithTarget(a, s, id), Ids(a))
    BY <1>3, RepointedShape, StartShape DEF SameTypes, WithTarget
  <1> QED BY <1>1, <1>3, <1>4, <1>5 DEF SameTypes, Put

\* Two conversations with the same steps and exits are the same.
LEMMA SameFlow ==
  ASSUME NEW f, NEW g, Shape(f), Shape(g), Ids(g) = Ids(f), g.start = f.start, SameTypes(f, g, Ids(f)),
         Exits(g) = Exits(f), \A e \in Exits(f) : To(g, e) = To(f, e)
  PROVE  g = f
  <1>1. ASSUME NEW n \in Ids(f) PROVE g.nodes[n] = f.nodes[n]
    <2>1. \A k \in ExitNo : <<n, k>> \in Exits(f) <=> k \in DOMAIN f.nodes[n].exits
      BY DEF Exits
    <2>2. \A k \in ExitNo : <<n, k>> \in Exits(g) <=> k \in DOMAIN g.nodes[n].exits
      BY DEF Exits
    <2>3. /\ f.nodes[n] = [type |-> f.nodes[n].type, exits |-> f.nodes[n].exits]
          /\ f.nodes[n].exits = [k \in DOMAIN f.nodes[n].exits |-> f.nodes[n].exits[k]]
          /\ DOMAIN f.nodes[n].exits \subseteq ExitNo
      BY DEF Shape
    <2>4. /\ g.nodes[n] = [type |-> g.nodes[n].type, exits |-> g.nodes[n].exits]
          /\ g.nodes[n].exits = [k \in DOMAIN g.nodes[n].exits |-> g.nodes[n].exits[k]]
          /\ DOMAIN g.nodes[n].exits \subseteq ExitNo
      BY DEF Shape
    <2>5. DOMAIN g.nodes[n].exits = DOMAIN f.nodes[n].exits
      BY <2>1, <2>2, <2>3, <2>4
    <2>6. ASSUME NEW k \in DOMAIN f.nodes[n].exits PROVE g.nodes[n].exits[k] = f.nodes[n].exits[k]
      <3>1. To(g, <<n, k>>) = To(f, <<n, k>>)
        BY <2>1, <2>3
      <3> QED BY <3>1 DEF To
    <2>7. g.nodes[n].exits = f.nodes[n].exits
      BY <2>3, <2>4, <2>5, <2>6
    <2>8. g.nodes[n].type = f.nodes[n].type
      BY DEF SameTypes
    <2> QED BY <2>3, <2>4, <2>7, <2>8
  <1>2. g.nodes = f.nodes
    <2>1. f.nodes = [n \in Ids(f) |-> f.nodes[n]] /\ g.nodes = [n \in Ids(f) |-> g.nodes[n]]
      BY DEF Shape
    <2> QED BY <1>1, <2>1
  <1> QED BY <1>2 DEF Shape

\* The step a new one leads to is its way on.
LEMMA NewContinuation ==
  ASSUME NEW type \in Types, NEW t, type = "end" => t = Nil
  PROVE  Continuation(NewNode(type, t)) = t
  <1> DEFINE node == NewNode(type, t)
             targets == {node.exits[k] : k \in DOMAIN node.exits}
  <1>1. CASE type = "booking"
    BY <1>1 DEF NewNode, Continuation
  <1>2. CASE type = "end"
    <2>1. node.type = "end" /\ targets = {}
      BY <1>2 DEF NewNode
    <2>2. Cardinality(targets) = 0
      BY <2>1, FS_EmptySet
    <2> QED BY <1>2, <2>1, <2>2 DEF Continuation
  <1>3. CASE type \notin {"booking", "end"}
    <2>1. node.type # "booking" /\ targets = {t}
      BY <1>3 DEF NewNode, Types
    <2>2. Cardinality({t}) = 1
      BY FS_Singleton
    <2>3. Continuation(node) = CHOOSE u \in {t} : TRUE
      BY <2>1, <2>2 DEF Continuation
    <2> QED BY <2>3
  <1> QED BY <1>1, <1>2, <1>3

\* Deleting a step that was just put in (removeStep after insertStep) gives
\* back the very conversation there was, in whatever place it was put.
THEOREM InsertUndone ==
  ASSUME NEW f, IsFlow(f), WellConnected(f), NEW s, PlaceIn(f, s),
         NEW id, id \notin Ids(f) \cup {Nil}, NEW type \in Types, CanInsert(f, s, type)
  PROVE  Removed(Insert(f, s, id, type), id) = f
  <1>1. Shape(f) /\ Anchored(f) /\ Ids(f) \subseteq StepId /\ Reachable(f) = Ids(f)
    BY FlowShape, FlowIds DEF WellConnected
  <1>2. PICK t : t = TargetOf(f, s)
    OBVIOUS
  <1>3. PICK node : node = NewNode(type, t)
    OBVIOUS
  <1>4. /\ node \in Node /\ t \in Ids(f) \cup {Nil} /\ GoesOnFrom(f, s, node)
        /\ Insert(f, s, id, type) = Put(f, s, id, node)
    BY <1>1, <1>2, <1>3, InsertPuts
  <1>5. PICK h : h = Put(f, s, id, node)
    OBVIOUS
  <1>6. /\ Shape(h) /\ Ids(h) = Ids(f) \cup {id}
        /\ Exits(h) = Exits(f) \cup {e \in {id} \X ExitNo : e[2] \in DOMAIN node.exits}
        /\ h.start = IF s.kind = "start" THEN id ELSE f.start
        /\ \A e \in Exits(f) :
             e[1] # id /\ To(h, e) = IF s.kind # "start" /\ e \in SlotExits(f, s) THEN id ELSE To(f, e)
        /\ \A k \in DOMAIN node.exits : To(h, <<id, k>>) = node.exits[k]
    BY <1>1, <1>4, <1>5, PutShape DEF Placed
  <1>7. SameTypes(f, h, Ids(f)) /\ h.nodes[id].type = node.type
    BY <1>1, <1>4, <1>5, PutTypes
  <1>8. Continuation(h.nodes[id]) = t
    <2>1. h.nodes[id] = node
      <3>1. /\ node = [type |-> node.type, exits |-> node.exits]
            /\ node.exits = [k \in DOMAIN node.exits |-> node.exits[k]] /\ DOMAIN node.exits \subseteq ExitNo
        BY <1>4, NodeShape
      <3>2. /\ h.nodes[id] = [type |-> h.nodes[id].type, exits |-> h.nodes[id].exits]
            /\ h.nodes[id].exits = [k \in DOMAIN h.nodes[id].exits |-> h.nodes[id].exits[k]]
            /\ DOMAIN h.nodes[id].exits \subseteq ExitNo
        BY <1>6 DEF Shape
      <3>3. \A k \in ExitNo : k \in DOMAIN h.nodes[id].exits <=> k \in DOMAIN node.exits
        <4>1. \A k \in ExitNo : <<id, k>> \in Exits(h) <=> k \in DOMAIN h.nodes[id].exits
          BY <1>6 DEF Exits
        <4>2. \A k \in ExitNo : <<id, k>> \in Exits(h) <=> k \in DOMAIN node.exits
          BY <1>6
        <4> QED BY <4>1, <4>2
      <3>4. \A k \in DOMAIN node.exits : h.nodes[id].exits[k] = node.exits[k]
        BY <1>6 DEF To
      <3>5. DOMAIN h.nodes[id].exits = DOMAIN node.exits
        BY <3>1, <3>2, <3>3
      <3>6. h.nodes[id].exits = node.exits
        BY <3>1, <3>2, <3>4, <3>5
      <3> QED BY <1>7, <3>1, <3>2, <3>6
    <2>2. type = "end" => t = Nil
      BY <1>2 DEF CanInsert
    <2> QED BY <1>3, <2>1, <2>2, NewContinuation
  <1>9. PICK r : r = Repoint(h, id, t, {})
    OBVIOUS
  <1>10. /\ Shape(r) /\ Ids(r) = Ids(h) /\ Exits(r) = Exits(h)
         /\ r.start = IF h.start = id THEN t ELSE h.start
         /\ \A e \in Exits(h) : To(r, e) = IF To(h, e) = id THEN t ELSE To(h, e)
         /\ SameTypes(h, r, Ids(h))
    <2>1. /\ Shape(r) /\ Ids(r) = Ids(h) /\ Exits(r) = Exits(h)
          /\ r.start = IF h.start = id THEN t ELSE h.start
          /\ \A e \in Exits(h) : To(r, e) = IF e[1] \notin {} /\ To(h, e) = id THEN t ELSE To(h, e)
      BY <1>6, <1>9, RepointShape
    <2>2. SameTypes(h, r, Ids(h))
      BY <1>6, <1>9, RepointTypes
    <2> QED BY <2>1, <2>2
  <1>11. PICK j : j = Dropped(r, {id})
    OBVIOUS
  <1>12. /\ Shape(j) /\ Ids(j) = Ids(f) /\ j.start = r.start
         /\ Exits(j) = Exits(f) /\ SameTypes(f, j, Ids(f))
         /\ \A e \in Exits(j) : To(j, e) = To(r, e)
    <2>1. /\ Shape(j) /\ Ids(j) = Ids(r) \ {id} /\ j.start = r.start
          /\ Exits(j) = {e \in Exits(r) : e[1] \notin {id}}
          /\ \A e \in Exits(j) : To(j, e) = To(r, e)
          /\ SameTypes(r, j, Ids(r) \ {id})
      BY <1>10, <1>11, DroppedShape, DroppedTypes
    <2>2. Ids(j) = Ids(f)
      BY <1>6, <1>10, <2>1
    <2>3. Exits(j) = Exits(f)
      BY <1>6, <1>10, <2>1
    <2>4. SameTypes(f, j, Ids(f))
      BY <1>6, <1>7, <1>10, <2>1 DEF SameTypes
    <2> QED BY <2>1, <2>2, <2>3, <2>4
  <1>13. j.start = f.start
    <2>1. f.start # id
      BY <1>1 DEF Anchored
    <2>2. s.kind = "start" => t = f.start
      BY <1>2 DEF TargetOf
    <2> QED BY <1>6, <1>10, <1>12, <2>1, <2>2
  <1>14. ASSUME NEW e \in Exits(f) PROVE To(j, e) = To(f, e)
    <2>1. To(f, e) # id
      BY <1>1 DEF Anchored
    <2>2. s.kind # "start" /\ e \in SlotExits(f, s) => To(f, e) = t
      BY <1>2 DEF PlaceIn
    <2> QED BY <1>6, <1>10, <1>12, <2>1, <2>2
  <1>15. j = f
    BY <1>1, <1>12, <1>13, <1>14, SameFlow
  <1>16. Joined(h, id) = f
    BY <1>8, <1>9, <1>11, <1>15 DEF Joined
  <1>17. Stranded(h, f) \ {id} = {}
    BY <1>1, <1>6, ReachableLeast DEF Stranded
  <1>18. Dropped(f, {}) = f
    <2>1. Dropped(f, {}) = [start |-> f.start, nodes |-> [n \in Ids(f) \ {} |-> f.nodes[n]]]
      BY <1>1 DEF Dropped, Shape
    <2>2. Ids(f) \ {} = Ids(f)
      OBVIOUS
    <2> QED BY <1>1, <2>1, <2>2 DEF Shape
  <1> QED BY <1>4, <1>5, <1>16, <1>17, <1>18 DEF Removed

-----------------------------------------------------------------------------
(* Conversations without a loop.  *)

LEMMA LeadsByExit ==
  ASSUME NEW f, Shape(f)
  PROVE  \A m, n : Leads(f, m, n) <=> /\ m \in Ids(f) /\ n \in Ids(f)
                                      /\ \E e \in Exits(f) : e[1] = m /\ To(f, e) = n
  <1> SUFFICES ASSUME NEW m \in Ids(f), NEW n \in Ids(f)
               PROVE  Leads(f, m, n) <=> \E e \in Exits(f) : e[1] = m /\ To(f, e) = n
    BY DEF Leads
  <1>1. ASSUME NEW k \in DOMAIN f.nodes[m].exits, f.nodes[m].exits[k] = n
        PROVE  \E e \in Exits(f) : e[1] = m /\ To(f, e) = n
    <2>1. <<m, k>> \in Exits(f) /\ To(f, <<m, k>>) = n /\ <<m, k>>[1] = m
      BY <1>1 DEF Shape, Exits, To
    <2> QED BY <2>1
  <1>2. ASSUME NEW e \in Exits(f), e[1] = m, To(f, e) = n
        PROVE  \E k \in DOMAIN f.nodes[m].exits : f.nodes[m].exits[k] = n
    BY <1>2 DEF Exits, To
  <1> QED BY <1>1, <1>2 DEF Leads

LEMMA FirstOf ==
  ASSUME NEW f, Acyclic(f), NEW S, S \subseteq Ids(f), NEW x \in S
  PROVE  \E n \in S : \A m \in S : ~Leads(f, m, n)
  BY DEF Acyclic

LEMMA AcyclicIf ==
  ASSUME NEW f, \A S : S \subseteq Ids(f) /\ S # {} => \E n \in S : \A m \in S : ~Leads(f, m, n)
  PROVE  Acyclic(f)
  BY DEF Acyclic

\* Fewer ways on close no loop.
LEMMA FewerWays ==
  ASSUME NEW f, NEW g, Acyclic(f), Ids(g) \subseteq Ids(f), \A m, n : Leads(g, m, n) => Leads(f, m, n)
  PROVE  Acyclic(g)
  BY DEF Acyclic

\* Fewer steps do not either.
LEMMA DroppedAcyclic ==
  ASSUME NEW g, Shape(g), Acyclic(g), NEW X
  PROVE  Acyclic(Dropped(g, X))
  <1>1. PICK d : d = Dropped(g, X)
    OBVIOUS
  <1>2. Shape(d) /\ Ids(d) = Ids(g) \ X /\ Exits(d) \subseteq Exits(g) /\ \A e \in Exits(d) : To(d, e) = To(g, e)
    BY <1>1, DroppedShape
  <1>3. ASSUME NEW m, NEW n, Leads(d, m, n) PROVE Leads(g, m, n)
    <2>1. PICK e \in Exits(d) : e[1] = m /\ To(d, e) = n /\ m \in Ids(d) /\ n \in Ids(d)
      BY <1>2, <1>3, LeadsByExit
    <2>2. e \in Exits(g) /\ To(g, e) = n /\ m \in Ids(g) /\ n \in Ids(g)
      BY <1>2, <2>1
    <2> QED BY <2>1, <2>2, LeadsByExit
  <1> QED BY <1>1, <1>2, <1>3, FewerWays

\* Nor do ways into a set of steps that nothing leaves, from outside it.
LEMMA WaysForward ==
  ASSUME NEW f, NEW g, Acyclic(f), Ids(g) \subseteq Ids(f), NEW T,
         \A m, n : m \in T /\ Leads(f, m, n) => n \in T,
         \A m, n : Leads(g, m, n) => Leads(f, m, n) \/ (m \notin T /\ n \in T)
  PROVE  Acyclic(g)
  <1> SUFFICES ASSUME NEW S \in SUBSET Ids(g), S # {}
               PROVE  \E n \in S : \A m \in S : ~Leads(g, m, n)
    BY DEF Acyclic
  <1>1. CASE S \subseteq T
    <2>1. PICK x \in S : S \subseteq Ids(f)
      OBVIOUS
    <2>2. PICK n \in S : \A m \in S : ~Leads(f, m, n)
      BY <2>1, FirstOf
    <2> QED BY <1>1, <2>2
  <1>2. CASE S \ T # {}
    <2>a. PICK Q : Q = S \ T
      OBVIOUS
    <2>0. PICK x \in Q : Q \subseteq Ids(f)
      BY <1>2, <2>a
    <2>1. PICK n \in Q : \A m \in Q : ~Leads(f, m, n)
      BY <2>0, FirstOf
    <2> QED BY <2>a, <2>1
  <1> QED BY <1>1, <1>2

\* What comes after a step, and what that leads to.
LEMMA AfterCloses ==
  ASSUME NEW f, NEW m \in Ids(f)
  PROVE  LET T == {n \in Ids(f) : After(f, m, n)}
         IN m \in T /\ \A a, b : a \in T /\ Leads(f, a, b) => b \in T
  BY DEF After, Leads

\* Of two steps only one comes after the other.
LEMMA NotMutual ==
  ASSUME NEW f, Acyclic(f), NEW m \in Ids(f), NEW n \in Ids(f), m # n, After(f, m, n)
  PROVE  ~After(f, n, m)
  <1> SUFFICES ASSUME After(f, n, m) PROVE FALSE
    OBVIOUS
  <1> DEFINE Behind(x) == {y \in Ids(f) : After(f, x, y)}
             C == {c \in Behind(m) : After(f, c, m)}
  <1>1. \A x \in Ids(f) : x \in Behind(x) /\ \A a, b : a \in Behind(x) /\ Leads(f, a, b) => b \in Behind(x)
    BY AfterCloses
  <1>2. \A x, a, y : x \in Ids(f) /\ Leads(f, x, a) /\ After(f, a, y) => After(f, x, y)
    <2> SUFFICES ASSUME NEW x \in Ids(f), NEW a, NEW y, Leads(f, x, a), After(f, a, y),
                        NEW S \in SUBSET Ids(f), x \in S, \A p \in S, q \in Ids(f) : Leads(f, p, q) => q \in S
                 PROVE  y \in S
      BY DEF After
    <2>1. a \in S
      BY DEF Leads
    <2> QED BY <2>1 DEF After
  <1>3. m \in C /\ n \in C /\ C \subseteq Ids(f)
    BY <1>1
  <1>4. PICK c \in C : \A d \in C : ~Leads(f, d, c)
    BY <1>3 DEF Acyclic
  <1>5. PICK x \in {m, n} : x # c
    OBVIOUS
  <1>6. x \in Ids(f) /\ After(f, x, m) /\ After(f, m, x)
    BY <1>1, <1>5
  <1>7. ASSUME NEW a \in Behind(x), Leads(f, a, c) PROVE FALSE
    <2>1. a \in Behind(m)
      <3>1. x \in Behind(m) /\ Behind(m) \subseteq Ids(f)
        BY <1>6
      <3>2. \A p, q : p \in Behind(m) /\ Leads(f, p, q) => q \in Behind(m)
        BY <1>1
      <3> QED BY <1>7, <3>1, <3>2 DEF After, Leads
    <2>2. After(f, a, m)
      BY <1>2, <1>3, <1>4, <1>7
    <2> QED BY <1>4, <1>7, <2>1, <2>2
  <1>8. c \in Behind(x)
    <2>1. \A p, q : p \in Behind(x) /\ Leads(f, p, q) => q \in Behind(x)
      BY <1>1, <1>6
    <2>2. m \in Behind(x) /\ c \in Behind(m) /\ Behind(x) \subseteq Ids(f)
      BY <1>4, <1>6
    <2> QED BY <2>1, <2>2 DEF After, Leads
  <1>9. /\ x \in Behind(x) \ {c} /\ Behind(x) \ {c} \subseteq Ids(f)
        /\ \A a \in Behind(x) \ {c}, b \in Ids(f) : Leads(f, a, b) => b \in Behind(x) \ {c}
    BY <1>1, <1>5, <1>6, <1>7
  <1> HIDE DEF Behind
  <1>10. After(f, x, c)
    BY <1>8 DEF Behind
  <1> QED BY <1>9, <1>10 DEF After

\* A step put in between two others.
LEMMA PutAcyclic ==
  ASSUME NEW f, Shape(f), Ids(f) \subseteq StepId, Anchored(f), Acyclic(f), NEW s, PlaceIn(f, s),
         NEW id, id \notin Ids(f) \cup {Nil}, NEW node \in Node,
         \A k \in DOMAIN node.exits : node.exits[k] \in {TargetOf(f, s), Nil}
  PROVE  Acyclic(Put(f, s, id, node))
  <1>1. PICK h, t : h = Put(f, s, id, node) /\ t = TargetOf(f, s)
    OBVIOUS
  <1>2. /\ Shape(h) /\ Ids(h) = Ids(f) \cup {id}
        /\ Exits(h) = Exits(f) \cup {e \in {id} \X ExitNo : e[2] \in DOMAIN node.exits}
        /\ \A e \in Exits(f) :
             e[1] # id /\ To(h, e) = IF s.kind # "start" /\ e \in SlotExits(f, s) THEN id ELSE To(f, e)
        /\ \A k \in DOMAIN node.exits : To(h, <<id, k>>) = node.exits[k]
    BY <1>1, PutShape DEF Placed
  <1>3. \A e \in Exits(f) : To(f, e) # id
    BY DEF Anchored
  <1>4. s.kind # "start" => \A e \in SlotExits(f, s) : e \in Exits(f) /\ To(f, e) = t
    BY <1>1, SlotExitsAreExits DEF PlaceIn
  <1>5. ASSUME NEW e \in Exits(h), e[1] = id PROVE To(h, e) \in {t, Nil}
    <2>1. e \in {id} \X ExitNo /\ e[2] \in DOMAIN node.exits
      BY <1>2, <1>5
    <2>2. e = <<id, e[2]>>
      BY <2>1
    <2> QED BY <1>1, <1>2, <2>1, <2>2
  <1>6. t \in Ids(f) \cup {Nil}
    BY <1>1, PlaceTarget DEF PlaceIn
  <1>7. ASSUME NEW m, NEW n, Leads(h, m, n)
        PROVE  /\ m \in Ids(f) /\ n \in Ids(f) => Leads(f, m, n)
               /\ n = id => m \in Ids(f) /\ (t \in Ids(f) => Leads(f, m, t))
               /\ m = id => n = t
    <2>1. PICK e \in Exits(h) : e[1] = m /\ To(h, e) = n /\ m \in Ids(h) /\ n \in Ids(h)
      BY <1>2, <1>7, LeadsByExit
    <2>2. CASE m = id
      <3>1. n \in {t, Nil} /\ n # Nil
        <4>1. n \in StepId \/ n = id
          BY <1>2, <2>1
        <4> QED BY <1>5, <2>1, <2>2, <4>1, IdAssumption
      <3>2. n # id
        BY <1>6, <3>1
      <3> QED BY <2>2, <3>1, <3>2
    <2>3. CASE m # id
      <3>1. e \in Exits(f) /\ m \in Ids(f)
        BY <1>2, <2>1, <2>3
      <3>2. To(f, e) \in Ids(f) => Leads(f, m, To(f, e))
        BY <2>1, <3>1, LeadsByExit
      <3> QED BY <1>2, <1>3, <1>4, <2>1, <2>3, <3>1, <3>2
    <2> QED BY <2>2, <2>3
  <1>8. ASSUME NEW S \in SUBSET Ids(h), S # {}
        PROVE  \E n \in S : \A m \in S : ~Leads(h, m, n)
    <2>1. CASE S = {id}
      BY <1>7, <2>1
    <2>2. CASE S # {id}
      <3>1. S \ {id} \subseteq Ids(f)
        BY <1>2
      <3>0. PICK x : x \in S \ {id}
        BY <1>8, <2>2
      <3>2. PICK n \in S \ {id} : \A m \in S \ {id} : ~Leads(f, m, n)
        BY <3>0, <3>1, FirstOf
      <3>3. CASE id \in S /\ Leads(h, id, n)
        <4>1. n = t /\ t \in Ids(f)
          BY <1>7, <3>1, <3>2, <3>3
        <4>2. \A m \in S : ~Leads(h, m, id)
          BY <1>7, <3>2, <4>1
        <4> QED BY <3>3, <4>2
      <3>4. CASE ~(id \in S /\ Leads(h, id, n))
        <4>1. \A m \in S \ {id} : ~Leads(h, m, n)
          BY <1>7, <3>1, <3>2
        <4> QED BY <3>2, <3>4, <4>1
      <3> QED BY <3>3, <3>4
    <2> QED BY <2>1, <2>2
  <1> QED BY <1>1, <1>8 DEF Acyclic

\* A step taken out, its neighbours joined up.
LEMMA RemovedAcyclic ==
  ASSUME NEW f, IsFlow(f), Anchored(f), Acyclic(f), NEW id \in Ids(f)
  PROVE  Acyclic(Removed(f, id)) /\ ~Leads(f, id, id)
  <1>1. Shape(f)
    BY FlowShape
  <1>2. ~Leads(f, id, id)
    <2>1. PICK S : S = {id}
      OBVIOUS
    <2>2. S \subseteq Ids(f) /\ id \in S
      BY <2>1
    <2>3. \E n \in S : \A m \in S : ~Leads(f, m, n)
      BY <2>2, FirstOf
    <2> QED BY <2>1, <2>3
  <1>3. PICK c : c = Continuation(f.nodes[id]) /\ (c = Nil \/ Leads(f, id, c))
    BY ContinuationFollows
  <1>4. PICK h : h = Repoint(f, id, c, {})
    OBVIOUS
  <1>5. /\ Shape(h) /\ Ids(h) = Ids(f) /\ Exits(h) = Exits(f)
        /\ \A e \in Exits(f) : To(h, e) = IF e[1] \notin {} /\ To(f, e) = id THEN c ELSE To(f, e)
    BY <1>1, <1>4, RepointShape
  <1>6. PICK g : g = Dropped(h, {id})
    OBVIOUS
  <1>7. /\ Shape(g) /\ Ids(g) = Ids(f) \ {id} /\ Exits(g) = {e \in Exits(f) : e[1] \notin {id}}
        /\ \A e \in Exits(g) : To(g, e) = To(h, e)
    BY <1>5, <1>6, DroppedShape
  <1>8. ASSUME NEW m, NEW n, Leads(g, m, n)
        PROVE  /\ m \in Ids(g) /\ n \in Ids(g)
               /\ Leads(f, m, n) \/ (Leads(f, m, id) /\ n = c)
    <2>1. PICK e \in Exits(g) : e[1] = m /\ To(g, e) = n /\ m \in Ids(g) /\ n \in Ids(g)
      BY <1>7, <1>8, LeadsByExit
    <2>2. e \in Exits(f) /\ n = (IF To(f, e) = id THEN c ELSE To(f, e))
      BY <1>5, <1>7, <2>1
    <2>3. m \in Ids(f) /\ n \in Ids(f)
      BY <1>7, <2>1
    <2>4. To(f, e) \in Ids(f) => Leads(f, m, To(f, e))
      BY <1>1, <2>1, <2>2, <2>3, LeadsByExit
    <2> QED BY <2>1, <2>2, <2>3, <2>4
  <1>9. ASSUME NEW S \in SUBSET Ids(g), S # {}
        PROVE  \E n \in S : \A m \in S : ~Leads(g, m, n)
    <2>1. CASE \E m \in S : Leads(f, m, id)
      <3>1. S \cup {id} \subseteq Ids(f) /\ id \in S \cup {id}
        BY <1>7
      <3>2. PICK n \in S \cup {id} : \A m \in S \cup {id} : ~Leads(f, m, n)
        BY <3>1, FirstOf
      <3>3. n # id /\ n # c
        <4>1. n = c => Leads(f, id, c)
          BY <1>3, <3>1, <3>2, IdAssumption, FlowIds
        <4> QED BY <2>1, <3>2, <4>1
      <3> QED BY <1>8, <3>2, <3>3
    <2>2. CASE ~\E m \in S : Leads(f, m, id)
      <3>1. S \subseteq Ids(f)
        BY <1>7
      <3>2. PICK n \in S : \A m \in S : ~Leads(f, m, n)
        BY <1>9, <3>1, FirstOf
      <3> QED BY <1>8, <2>2, <3>2
    <2> QED BY <2>1, <2>2
  <1>10. Acyclic(g)
    BY <1>9 DEF Acyclic
  <1>11. PICK X : Removed(f, id) = Dropped(g, X)
    BY <1>3, <1>4, <1>6 DEF Removed, Joined
  <1> QED BY <1>2, <1>7, <1>10, <1>11, DroppedAcyclic

-----------------------------------------------------------------------------
(* A block moved.  *)

\* Where some exits that lead one way lead.
LEMMA OneWay ==
  ASSUME NEW f, NEW s \in Slot, s.kind = "exits", SlotExits(f, s) # {}, NEW u,
         \A e \in SlotExits(f, s) : To(f, e) = u
  PROVE  TargetOf(f, s) = u
  <1>1. PICK e : e = CHOOSE d \in SlotExits(f, s) : \A x \in SlotExits(f, s) : d[2] <= x[2]
    OBVIOUS
  <1>2. e \in SlotExits(f, s)
    BY <1>1, LeastExit, SlotExitsAreExits
  <1> QED BY <1>1, <1>2 DEF TargetOf

\* A step other than the start has one that leads to it.
LEMMA LedTo ==
  ASSUME NEW f, Shape(f), WellConnected(f), NEW n \in Ids(f), n # f.start
  PROVE  \E m \in Ids(f) : Leads(f, m, n)
  <1> SUFFICES ASSUME \A m \in Ids(f) : ~Leads(f, m, n) PROVE FALSE
    OBVIOUS
  <1>1. \A e \in Exits(f) : e[1] \in Ids(f)
    BY DEF Exits
  <1>2. Follows(f, Ids(f) \ {n})
    BY <1>1, LeadsByExit DEF Follows
  <1>3. Ids(f) \ {n} \in SUBSET Ids(f)
    OBVIOUS
  <1>4. Reachable(f) \subseteq Ids(f) \ {n}
    BY <1>2, <1>3, ReachableLeast
  <1> QED BY <1>4 DEF WellConnected

\* The graph with the block lifted out of it: what led to its head leads to
\* its exit.
Lifted(f, l, id, block) ==
  /\ Shape(l) /\ Ids(l) = Ids(f) /\ Exits(l) = Exits(f)
  /\ l.start = IF f.start = id THEN block.exit ELSE f.start
  /\ \A e \in Exits(f) :
       To(l, e) = IF e[1] \notin block.ids /\ To(f, e) = id THEN block.exit ELSE To(f, e)

\* A block that may be moved, and the place it is moved to.
Moving(f, id, block, slot) ==
  /\ Shape(f) /\ Ids(f) \subseteq StepId /\ WellConnected(f) /\ Acyclic(f)
  /\ id \in Ids(f) /\ BlockHolds(f, id, block) /\ Sealed(f, block, id)
  /\ PlaceIn(f, slot) /\ TargetOf(f, slot) # id
  /\ slot.kind # "start" => ~(slot.from \subseteq block.ids)

\* Outside the block there is still no loop.
LEMMA LiftedAcyclic ==
  ASSUME NEW f, NEW id, NEW block, NEW slot, Moving(f, id, block, slot), NEW l, Lifted(f, l, id, block),
         NEW S, S \subseteq Ids(f) \ block.ids, NEW s0 \in S
  PROVE  \E n \in S : \A m \in S : ~Leads(l, m, n)
  <1> USE DEF Moving, BlockHolds, Sealed
  <1>1. PICK B, x : B = block.ids /\ x = block.exit
    OBVIOUS
  <1>2. ASSUME NEW m \in S, NEW n \in S, Leads(l, m, n)
        PROVE  Leads(f, m, n) \/ (Leads(f, m, id) /\ n = x)
    <2>1. PICK e \in Exits(l) : e[1] = m /\ To(l, e) = n
      BY <1>2, LeadsByExit DEF Lifted
    <2>2. e \in Exits(f) /\ n = (IF To(f, e) = id THEN x ELSE To(f, e))
      BY <1>1, <2>1 DEF Lifted
    <2>3. To(f, e) \in Ids(f) => Leads(f, m, To(f, e))
      BY <2>1, <2>2, LeadsByExit
    <2> QED BY <2>2, <2>3
  <1>3. CASE \E m \in S : Leads(f, m, id)
    <2>1. S \cup B \subseteq Ids(f) /\ s0 \in S \cup B
      BY <1>1
    <2>2. PICK n \in S \cup B : \A m \in S \cup B : ~Leads(f, m, n)
      BY <2>1, FirstOf
    <2>3. n \in S
      <3> SUFFICES ASSUME n \in B PROVE FALSE
        BY <2>2
      <3>1. n # id
        BY <1>3, <2>2
      <3>2. n # f.start
        BY <1>1, <3>1
      <3>3. PICK m \in Ids(f) : Leads(f, m, n)
        BY <2>1, <3>2, LedTo
      <3>4. m \in B
        BY <1>1, <3>1, <3>3
      <3> QED BY <2>2, <3>3, <3>4
    <2>4. n # x
      <3>1. n = x => x # Nil
        BY <2>1, <2>3, IdAssumption
      <3> QED BY <1>1, <2>2, <3>1
    <2> QED BY <1>2, <2>2, <2>3, <2>4
  <1>4. CASE ~\E m \in S : Leads(f, m, id)
    <2>1. PICK n \in S : \A m \in S : ~Leads(f, m, n)
      BY FirstOf
    <2> QED BY <1>2, <1>4, <2>1
  <1> QED BY <1>3, <1>4

\* The graph with the block put into its place.
Settled(f, l, h, id, block, t, P) ==
  /\ Shape(h) /\ Ids(h) = Ids(f) /\ Exits(h) = Exits(f)
  /\ h.start \in {id, l.start}
  /\ P \subseteq Exits(f) /\ \A e \in P : e[1] \notin block.ids /\ To(l, e) = t
  /\ \A e \in Exits(f) :
       To(h, e) = IF e \in P THEN id
                  ELSE IF ~block.closed /\ e \in LeadsOn(l, block.ids, block.exit) THEN t
                  ELSE To(l, e)

\* What leads where once the block is in a place that is not inside it.
LEMMA SettledLeads ==
  ASSUME NEW f, NEW id, NEW block, NEW slot, Moving(f, id, block, slot), NEW l, Lifted(f, l, id, block),
         NEW h, NEW t, t \notin block.ids, NEW P, Settled(f, l, h, id, block, t, P),
         NEW m, NEW n, Leads(h, m, n)
  PROVE  /\ m \in Ids(f) /\ n \in Ids(f)
         /\ m \notin block.ids /\ n \notin block.ids => Leads(l, m, n)
         /\ m \notin block.ids /\ n \in block.ids => n = id /\ (t \in Ids(f) => Leads(l, m, t))
         /\ m \in block.ids /\ n \in block.ids => Leads(f, m, n)
         /\ m \in block.ids /\ n \notin block.ids => n = t
  <1> USE DEF Moving, BlockHolds, Sealed
  <1>1. PICK B, x : B = block.ids /\ x = block.exit
    OBVIOUS
  <1>2. PICK e \in Exits(f) : e[1] = m /\ To(h, e) = n /\ m \in Ids(f) /\ n \in Ids(f)
    BY LeadsByExit DEF Settled
  <1>3. /\ To(l, e) \in Ids(f) => Leads(l, m, To(l, e))
        /\ To(f, e) \in Ids(f) => Leads(f, m, To(f, e))
    BY <1>2, LeadsByExit DEF Lifted
  <1>4. To(l, e) = IF m \notin B /\ To(f, e) = id THEN x ELSE To(f, e)
    BY <1>1, <1>2 DEF Lifted
  <1>5. id \in B /\ x \notin B
    <2>1. Nil \notin B
      BY <1>1, IdAssumption
    <2> QED BY <1>1, <2>1
  <1>6. CASE m \notin B
    <2>1. n = IF e \in P THEN id ELSE To(l, e)
      <3>1. e \notin LeadsOn(l, block.ids, block.exit)
        BY <1>1, <1>2, <1>6 DEF LeadsOn
      <3> QED BY <1>2, <3>1 DEF Settled
    <2>2. CASE e \in P
      <3>1. n = id /\ To(l, e) = t
        BY <2>1, <2>2 DEF Settled
      <3> QED BY <1>1, <1>2, <1>3, <1>5, <1>6, <3>1
    <2>3. CASE e \notin P
      <3>1. n = To(l, e)
        BY <2>1, <2>3
      <3>2. n \notin B
        BY <1>1, <1>2, <1>3, <1>4, <1>5, <1>6, <3>1
      <3> QED BY <1>1, <1>2, <1>3, <1>6, <3>1, <3>2
    <2> QED BY <2>2, <2>3
  <1>7. CASE m \in B
    <2>1. e \notin P
      BY <1>1, <1>2, <1>7 DEF Settled
    <2>2. To(l, e) = To(f, e)
      BY <1>4, <1>7
    <2>3. CASE n = t
      BY <1>1, <1>2, <1>7, <2>3
    <2>4. CASE n # t
      <3>1. n = To(f, e)
        BY <1>2, <2>1, <2>2, <2>4 DEF Settled
      <3>2. Leads(f, m, n)
        BY <1>2, <1>3, <3>1
      <3>3. n \in B
        <4> SUFFICES ASSUME n \notin B PROVE FALSE
          OBVIOUS
        <4>1. ~block.closed /\ n = x
          BY <1>1, <1>2, <1>7, <3>2
        <4>2. n # Nil
          BY <1>2, IdAssumption
        <4>3. e \in LeadsOn(l, block.ids, block.exit)
          BY <1>1, <1>2, <1>7, <2>2, <3>1, <4>1, <4>2 DEF LeadsOn, Lifted
        <4> QED BY <1>2, <2>1, <2>4, <4>1, <4>3 DEF Settled
      <3> QED BY <1>1, <1>2, <1>7, <3>2, <3>3
    <2> QED BY <2>3, <2>4
  <1> QED BY <1>6, <1>7

LEMMA SettledAcyclic ==
  ASSUME NEW f, NEW id, NEW block, NEW slot, Moving(f, id, block, slot), NEW l, Lifted(f, l, id, block),
         NEW h, NEW t, t \notin block.ids, NEW P, Settled(f, l, h, id, block, t, P)
  PROVE  Acyclic(h)
  <1> SUFFICES ASSUME NEW S, S \subseteq Ids(h), S # {}
               PROVE  \E n \in S : \A m \in S : ~Leads(h, m, n)
    BY AcyclicIf
  <1>0. S \subseteq Ids(f)
    BY DEF Settled
  <1>1. PICK B : B = block.ids
    OBVIOUS
  <1>2. \A m, n : Leads(h, m, n) =>
          /\ m \notin B /\ n \notin B => Leads(l, m, n)
          /\ m \notin B /\ n \in B => n = id /\ (t \in Ids(f) => Leads(l, m, t))
          /\ m \in B /\ n \in B => Leads(f, m, n)
          /\ m \in B /\ n \notin B => n = t
    BY <1>1, SettledLeads
  <1>3. ASSUME NEW b0 \in S \cap B
        PROVE  \E b \in S \cap B : \A m \in S \cap B : ~Leads(h, m, b)
    <2>1. S \cap B \subseteq Ids(f)
      BY <1>0
    <2>2. PICK b \in S \cap B : \A m \in S \cap B : ~Leads(f, m, b)
      BY <1>3, <2>1, FirstOf DEF Moving
    <2> QED BY <1>2, <2>2
  <1>4. CASE S \subseteq B
    <2>1. PICK b0 : b0 \in S \cap B
      BY <1>4
    <2>2. PICK b \in S \cap B : \A m \in S \cap B : ~Leads(h, m, b)
      BY <1>3, <2>1
    <2> QED BY <1>4, <2>2
  <1>5. CASE ~(S \subseteq B)
    <2>1. PICK s0 : s0 \in S \ B
      BY <1>5
    <2>2. S \ B \subseteq Ids(f) \ block.ids
      BY <1>0, <1>1
    <2>3. PICK n \in S \ B : \A m \in S \ B : ~Leads(l, m, n)
      BY <2>1, <2>2, LiftedAcyclic
    <2>4. CASE \E m \in S \cap B : Leads(h, m, n)
      <3>1. n = t /\ t \in Ids(f)
        BY <1>2, <2>2, <2>3, <2>4
      <3>2. PICK b \in S \cap B : \A m \in S \cap B : ~Leads(h, m, b)
        BY <1>3, <2>4
      <3>3. \A m \in S \ B : ~Leads(h, m, b)
        BY <1>2, <2>3, <3>1, <3>2
      <3> QED BY <3>2, <3>3
    <2>5. CASE ~\E m \in S \cap B : Leads(h, m, n)
      BY <1>2, <2>3, <2>5
    <2> QED BY <2>4, <2>5
  <1> QED BY <1>4, <1>5

\* The place a block is put into, less the block's own ways there.
Free(block, slot) == IF slot.kind = "join" THEN [slot EXCEPT !.from = @ \ block.ids] ELSE slot

LEMMA FreeShape ==
  ASSUME NEW block, NEW slot \in Slot
  PROVE  LET p == Free(block, slot)
         IN /\ p \in Slot /\ p.kind = slot.kind /\ p.exits = slot.exits /\ p.target = slot.target
            /\ p.from = IF slot.kind = "join" THEN slot.from \ block.ids ELSE slot.from
  BY DEF Free, Slot

\* It leads where it led before the block was lifted.
LEMMA FreeTarget ==
  ASSUME NEW f, NEW id, NEW block, NEW slot, Moving(f, id, block, slot), NEW l, Lifted(f, l, id, block)
  PROVE  TargetOf(l, Free(block, slot)) = TargetOf(f, slot)
  <1>0. slot \in Slot
    BY DEF Moving, PlaceIn
  <1>1. PICK p, u : p = Free(block, slot) /\ u = TargetOf(f, slot) /\ u # id
    BY DEF Moving
  <1>2. /\ p \in Slot /\ p.kind = slot.kind /\ p.exits = slot.exits /\ p.target = slot.target
        /\ p.from = IF slot.kind = "join" THEN slot.from \ block.ids ELSE slot.from
    BY <1>0, <1>1, FreeShape
  <1>3. CASE slot.kind = "start"
    BY <1>1, <1>2, <1>3 DEF TargetOf, Lifted
  <1>4. CASE slot.kind = "join"
    BY <1>1, <1>2, <1>4 DEF TargetOf
  <1>5. CASE slot.kind = "exits"
    <2>1. SlotExits(l, p) = SlotExits(f, slot)
      BY <1>2, <1>5 DEF SlotExits, Lifted
    <2>2. SlotExits(f, slot) # {} /\ \A e \in SlotExits(f, slot) : To(f, e) = u
      BY <1>1, <1>5 DEF Moving, PlaceIn
    <2>3. \A e \in SlotExits(f, slot) : e \in Exits(f)
      BY <1>0, SlotExitsAreExits
    <2>4. \A e \in SlotExits(l, p) : To(l, e) = u
      BY <1>1, <2>1, <2>2, <2>3 DEF Lifted
    <2>5. TargetOf(l, p) = u
      BY <1>2, <1>5, <2>1, <2>2, <2>4, OneWay
    <2> QED BY <1>1, <2>5
  <1> QED BY <1>0, <1>3, <1>4, <1>5 DEF Slot

\* The graph with the block's ways on led to where the place leads.
Rewired(f, l, w, block, t) ==
  /\ Shape(w) /\ Ids(w) = Ids(f) /\ Exits(w) = Exits(f) /\ w.start = l.start
  /\ \A e \in Exits(f) :
       To(w, e) = IF ~block.closed /\ e \in LeadsOn(l, block.ids, block.exit) THEN t ELSE To(l, e)

\* The exits of the place are outside the block, and the place leads outside
\* it, unless nothing outside leads there.
LEMMA FreeExits ==
  ASSUME NEW f, NEW id, NEW block, NEW slot, Moving(f, id, block, slot), NEW l, Lifted(f, l, id, block),
         slot.kind # "start", NEW t, t = TargetOf(f, slot), NEW w, Rewired(f, l, w, block, t)
  PROVE  LET P == SlotExits(w, Free(block, slot))
         IN /\ P \subseteq Exits(f)
            /\ \A e \in P : e[1] \notin block.ids /\ To(l, e) = t /\ t \notin block.ids
  <1>0. slot \in Slot
    BY DEF Moving, PlaceIn
  <1>1. PICK p, B, x : p = Free(block, slot) /\ B = block.ids /\ x = block.exit /\ t # id
    BY DEF Moving
  <1>2. /\ p \in Slot /\ p.kind = slot.kind /\ p.exits = slot.exits /\ p.target = slot.target
        /\ p.from = IF slot.kind = "join" THEN slot.from \ B ELSE slot.from
    BY <1>0, <1>1, FreeShape
  <1>3. x \notin B /\ B \subseteq Ids(f)
    <2>1. Nil \notin B
      BY <1>1, IdAssumption DEF Moving, BlockHolds
    <2> QED BY <1>1, <2>1 DEF Moving, BlockHolds
  <1>4. ASSUME NEW e \in SlotExits(w, p)
        PROVE  e \in Exits(f) /\ e[1] \notin B /\ To(l, e) = t
    <2>1. e \in Exits(f)
      BY <1>2, <1>4, SlotExitsAreExits DEF Rewired
    <2>2. CASE slot.kind = "exits"
      <3>1. e \in SlotExits(f, slot)
        BY <1>2, <1>4, <2>2 DEF SlotExits, Rewired
      <3>2. PICK n : slot.from = {n}
        BY <2>2 DEF Moving, PlaceIn
      <3>3. e[1] = n
        BY <2>2, <3>1, <3>2 DEF SlotExits
      <3>4. n \notin B
        BY <1>1, <2>2, <3>2 DEF Moving
      <3>5. To(f, e) = t
        BY <2>2, <3>1 DEF Moving, PlaceIn
      <3> QED BY <1>1, <2>1, <3>3, <3>4, <3>5 DEF Lifted
    <2>3. CASE slot.kind = "join"
      <3>1. e[1] \in slot.from \ B /\ To(w, e) = t
        BY <1>2, <1>4, <2>3 DEF SlotExits, TargetOf
      <3>2. e \notin LeadsOn(l, block.ids, block.exit)
        BY <1>1, <3>1 DEF LeadsOn
      <3> QED BY <2>1, <3>1, <3>2 DEF Rewired
    <2> QED BY <1>0, <2>2, <2>3 DEF Slot
  <1>5. ASSUME NEW e \in SlotExits(w, p) PROVE t \notin B
    <2> SUFFICES ASSUME t \in B PROVE FALSE
      OBVIOUS
    <2>1. e \in Exits(f) /\ e[1] \notin B /\ e[1] \in Ids(f) /\ To(l, e) = t
      BY <1>4 DEF Exits
    <2>2. To(f, e) = t
      BY <1>1, <1>3, <2>1 DEF Lifted
    <2>3. Leads(f, e[1], t)
      BY <1>3, <2>1, <2>2, LeadsByExit DEF Moving
    <2> QED BY <1>1, <1>3, <2>1, <2>3 DEF Moving, Sealed
  <1> QED BY <1>1, <1>4, <1>5

\* A place that only the block leads to, inside the block: the block would
\* be cut off.
LEMMA CutOff ==
  ASSUME NEW f, NEW id, NEW block, NEW slot, Moving(f, id, block, slot), NEW l, Lifted(f, l, id, block),
         NEW h, Shape(h), Ids(h) = Ids(f), Exits(h) = Exits(f), h.start = l.start,
         \A e \in Exits(f) : e[1] \notin block.ids => To(h, e) = To(l, e)
  PROVE  id \notin Reachable(h)
  <1> USE DEF Moving, BlockHolds, Sealed
  <1>1. PICK B, x : B = block.ids /\ x = block.exit
    OBVIOUS
  <1>2. id \in B /\ x \notin B
    <2>1. Nil \notin B
      BY <1>1, IdAssumption
    <2> QED BY <1>1, <2>1
  <1>3. PICK S : S = Ids(f) \ B
    OBVIOUS
  <1>4. h.start \in Ids(h) => h.start \in S
    BY <1>1, <1>2, <1>3 DEF Lifted
  <1>5. ASSUME NEW e \in Exits(h), e[1] \in S, To(h, e) \in Ids(h)
        PROVE  To(h, e) \in S
    <2>1. To(h, e) = IF To(f, e) = id THEN x ELSE To(f, e)
      BY <1>1, <1>3, <1>5 DEF Lifted
    <2>2. To(f, e) \in Ids(f) => Leads(f, e[1], To(f, e))
      BY <1>3, <1>5, LeadsByExit
    <2> QED BY <1>1, <1>2, <1>3, <1>5, <2>1, <2>2
  <1>6. Follows(h, S)
    BY <1>4, <1>5 DEF Follows
  <1>7. S \in SUBSET Ids(h)
    BY <1>3
  <1>8. Reachable(h) \subseteq S
    BY <1>6, <1>7, ReachableLeast
  <1> QED BY <1>2, <1>3, <1>8

\* A block moved (moveStep) that paths enter at its head and leave at its exit
\* closes no loop.
THEOREM MoveAcyclic ==
  ASSUME NEW f, IsFlow(f), WellConnected(f), Acyclic(f), NEW id \in Ids(f),
         NEW block, BlockHolds(f, id, block), Sealed(f, block, id), NEW slot, PlaceIn(f, slot)
  PROVE  Acyclic(Move(f, id, block, slot))
  <1>1. Shape(f) /\ Ids(f) \subseteq StepId
    BY FlowShape, FlowIds
  <1>2. PICK l : l = Repoint(f, id, block.exit, block.ids)
    OBVIOUS
  <1>3. Lifted(f, l, id, block)
    BY <1>1, <1>2, RepointShape DEF Lifted
  <1>4. PICK p : p = Free(block, slot)
    OBVIOUS
  <1>5. PICK t : t = TargetOf(l, p)
    OBVIOUS
  <1>6. PICK w : w = IF block.closed THEN l ELSE Repointed(l, LeadsOn(l, block.ids, block.exit), t)
    OBVIOUS
  <1>7. Rewired(f, l, w, block, t)
    BY <1>3, <1>6, RepointedShape DEF Lifted, Rewired
  <1>8. PICK h : h = WithTarget(w, p, id)
    OBVIOUS
  <1>9. /\ Move(f, id, block, slot) \in {f, h}
        /\ Move(f, id, block, slot) # f =>
             /\ TargetOf(f, slot) # id /\ (slot.kind # "start" => ~(slot.from \subseteq block.ids))
             /\ Reachable(f) \subseteq Reachable(h)
    BY <1>2, <1>4, <1>5, <1>6, <1>8 DEF Move, Free
  <1> SUFFICES ASSUME Move(f, id, block, slot) # f PROVE Acyclic(h)
    BY <1>9
  <1>10. Moving(f, id, block, slot)
    BY <1>1, <1>9 DEF Moving
  <1>11. t = TargetOf(f, slot)
    BY <1>3, <1>4, <1>5, <1>10, FreeTarget
  <1>12. p.kind = slot.kind /\ p \in Slot
    BY <1>4, FreeShape DEF PlaceIn
  <1>13. CASE slot.kind = "start"
    <2>1. h = [w EXCEPT !.start = id]
      BY <1>8, <1>12, <1>13 DEF WithTarget
    <2>2. /\ Shape(h) /\ Ids(h) = Ids(w) /\ h.start = id /\ Exits(h) = Exits(w)
          /\ \A e \in Exits(w) : To(h, e) = To(w, e)
      BY <1>7, <2>1, StartShape DEF Rewired
    <2>3. Settled(f, l, h, id, block, t, {})
      BY <1>7, <2>2 DEF Settled, Rewired
    <2>4. t \notin block.ids
      <3>1. t = f.start /\ t # id
        BY <1>9, <1>11, <1>13 DEF TargetOf
      <3> QED BY <3>1 DEF Sealed
    <2> QED BY <1>3, <1>10, <2>3, <2>4, SettledAcyclic
  <1>14. CASE slot.kind # "start"
    <2>1. PICK P : P = SlotExits(w, p)
      OBVIOUS
    <2>2. /\ P \subseteq Exits(f)
          /\ \A e \in P : e[1] \notin block.ids /\ To(l, e) = t /\ t \notin block.ids
      BY <1>3, <1>4, <1>7, <1>10, <1>11, <1>14, <2>1, FreeExits
    <2>3. h = Repointed(w, P, id)
      BY <1>8, <1>12, <1>14, <2>1 DEF WithTarget
    <2>4. /\ Shape(h) /\ Ids(h) = Ids(w) /\ h.start = w.start /\ Exits(h) = Exits(w)
          /\ \A e \in Exits(w) : To(h, e) = IF e \in P THEN id ELSE To(w, e)
      BY <1>7, <2>3, RepointedShape DEF Rewired
    <2>5. Settled(f, l, h, id, block, t, P)
      BY <1>7, <2>2, <2>4 DEF Settled, Rewired
    <2>6. CASE t \notin block.ids
      BY <1>3, <1>10, <2>5, <2>6, SettledAcyclic
    <2>7. CASE t \in block.ids
      <3>1. P = {}
        BY <2>2, <2>7
      <3>2. \A e \in Exits(f) : e[1] \notin block.ids => To(h, e) = To(l, e)
        BY <1>7, <2>4, <3>1 DEF Rewired, LeadsOn
      <3>3. Shape(h) /\ Ids(h) = Ids(f) /\ Exits(h) = Exits(f) /\ h.start = l.start
        BY <1>7, <2>4 DEF Rewired
      <3>4. id \notin Reachable(h)
        BY <1>3, <1>10, <3>2, <3>3, CutOff
      <3>5. id \in Reachable(f)
        BY DEF WellConnected
      <3> QED BY <1>9, <3>4, <3>5
    <2> QED BY <2>6, <2>7
  <1> QED BY <1>13, <1>14

-----------------------------------------------------------------------------
(* Every edit keeps the conversation well formed.  *)

\* There is an id left for a new step.
LEMMA FreshId ==
  ASSUME NEW f, Ids(f) \subseteq StepId, ~(Cardinality(Ids(f)) >= Cardinality(StepId))
  PROVE  NewId(f) \in StepId \ Ids(f)
  <1>1. IsFiniteSet(StepId)
    BY IdAssumption
  <1>2. Ids(f) # StepId
    <2>1. Cardinality(StepId) \in Nat
      BY <1>1, FS_CardinalityType
    <2> QED BY <2>1
  <1>3. \E n \in StepId \ Ids(f) : TRUE
    BY <1>2
  <1> QED BY <1>3 DEF NewId

LEMMA TypedTo ==
  ASSUME NEW f, Typed(f)
  PROVE  /\ \A n \in Ids(f) : f.nodes[n] \in Whole /\ \A k \in DOMAIN f.nodes[n].exits : f.nodes[n].exits[k] \in Target
         /\ \A e \in Exits(f) : To(f, e) \in Target
  <1>1. ASSUME NEW n \in Ids(f)
        PROVE  f.nodes[n] \in Whole /\ \A k \in DOMAIN f.nodes[n].exits : f.nodes[n].exits[k] \in Target
    <2>1. PICK x \in Whole : x = f.nodes[n]
      BY TypedFlow
    <2>2. PICK K, ty : x \in [type : {ty}, exits : [K -> Target]]
      BY <2>1 DEF Whole, Node
    <2> QED BY <2>1, <2>2
  <1>2. ASSUME NEW e \in Exits(f) PROVE To(f, e) \in Target
    BY <1>1, <1>2 DEF Exits, To
  <1> QED BY <1>1, <1>2

LEMMA TargetTyped ==
  ASSUME NEW f, Typed(f), NEW s \in Slot
  PROVE  TargetOf(f, s) \in Target
  <1>1. CASE s.kind = "start"
    BY <1>1, TypedFlow DEF TargetOf
  <1>2. CASE s.kind = "join"
    BY <1>2 DEF TargetOf, Slot
  <1>3. CASE s.kind = "exits"
    <2>1. CASE SlotExits(f, s) = {}
      BY <1>3, <2>1 DEF TargetOf, Target
    <2>2. CASE SlotExits(f, s) # {}
      <3>1. PICK e : e = CHOOSE d \in SlotExits(f, s) : \A x \in SlotExits(f, s) : d[2] <= x[2]
        OBVIOUS
      <3>2. e \in SlotExits(f, s)
        BY <2>2, <3>1, LeastExit, SlotExitsAreExits
      <3>3. TargetOf(f, s) = To(f, e)
        BY <1>3, <2>2, <3>1 DEF TargetOf
      <3> QED BY <3>2, <3>3, SlotExitsAreExits, TypedTo
    <2> QED BY <2>1, <2>2
  <1> QED BY <1>1, <1>2, <1>3 DEF Slot

LEMMA NewNodeWhole ==
  ASSUME NEW type \in Types, NEW t \in Target
  PROVE  NewNode(type, t) \in Whole
  <1>1. NewNode(type, t) \in Node
    BY NewNodeShape
  <1>2. NewNode(type, t).type = type
    BY DEF NewNode
  <1>3. type = "choice" => 1 \in DOMAIN NewNode(type, t).exits
    BY NewNodeShape
  <1> QED BY <1>1, <1>2, <1>3 DEF Whole

LEMMA InsertTyped ==
  ASSUME NEW f, Typed(f), NEW s \in Slot, NEW id \in StepId, NEW type \in Types
  PROVE  Typed(Insert(f, s, id, type))
  <1>1. PICK node \in Whole : node = NewNode(type, TargetOf(f, s))
    BY TargetTyped, NewNodeWhole
  <1>2. Insert(f, s, id, type) = Put(f, s, id, node)
    BY <1>1 DEF Insert, Put
  <1> QED BY <1>2, PutTyped

LEMMA RemovedTyped ==
  ASSUME NEW f, Typed(f), NEW id \in Ids(f)
  PROVE  Typed(Removed(f, id))
  <1>1. PICK node \in Node : node = f.nodes[id] /\ \A k \in DOMAIN node.exits : node.exits[k] \in Target
    BY TypedTo DEF Whole
  <1>2. Continuation(node) \in Target
    BY <1>1, ContinuationIsAnExit DEF Target
  <1>3. Typed(Repoint(f, id, Continuation(node), {}))
    BY <1>2, RepointTyped
  <1>4. Typed(Joined(f, id))
    BY <1>1, <1>3, DroppedTyped DEF Joined
  <1> QED BY <1>4, DroppedTyped DEF Removed

LEMMA MoveTyped ==
  ASSUME NEW f, Typed(f), NEW id \in StepId, NEW block, block.exit \in Target, NEW slot \in Slot
  PROVE  Typed(Move(f, id, block, slot))
  <1>1. PICK l : l = Repoint(f, id, block.exit, block.ids)
    OBVIOUS
  <1>2. PICK p \in Slot : p = Free(block, slot)
    BY FreeShape
  <1>3. PICK w : w = IF block.closed THEN l ELSE Repointed(l, LeadsOn(l, block.ids, block.exit), TargetOf(l, p))
    OBVIOUS
  <1>4. Typed(l) /\ TargetOf(l, p) \in Target
    BY <1>1, RepointTyped, TargetTyped
  <1>5. Typed(w)
    BY <1>3, <1>4, RepointedTyped
  <1>6. Typed(WithTarget(w, p, id))
    BY <1>5, WithTargetTyped DEF Target
  <1> QED BY <1>1, <1>2, <1>3, <1>6 DEF Move, Free

\* A question's answers.
LEMMA Answers ==
  ASSUME NEW x \in Whole, x.type = "choice"
  PROVE  \/ DOMAIN x.exits = {1} /\ Cardinality(DOMAIN x.exits) = 1
         \/ DOMAIN x.exits = {1, 2} /\ Cardinality(DOMAIN x.exits) = 2
         \/ DOMAIN x.exits = {1, 2, 3} /\ Cardinality(DOMAIN x.exits) = 3
  <1>1. PICK type \in Types : \E K \in ExitsOf(type) : x \in [type : {type}, exits : [K -> Target]]
    BY DEF Whole, Node
  <1>2. PICK K \in ExitsOf(type) : x \in [type : {type}, exits : [K -> Target]]
    BY <1>1
  <1>3. type = "choice" /\ DOMAIN x.exits = K /\ K # {}
    BY <1>2 DEF Whole
  <1>4. K \in {{1}, {1, 2}, {1, 2, 3}}
    BY <1>2, <1>3 DEF ExitsOf
  <1>5. Cardinality({1}) = 1
    BY FS_Singleton
  <1>6. Cardinality({1, 2}) = 2
    <2>1. IsFiniteSet({1}) /\ {1} \cup {2} = {1, 2}
      BY FS_Singleton
    <2>2. 2 \notin {1}
      OBVIOUS
    <2>3. Cardinality({1} \cup {2}) = Cardinality({1}) + 1
      BY <2>1, <2>2, FS_AddElement
    <2> QED BY <1>5, <2>1, <2>3
  <1>7. Cardinality({1, 2, 3}) = 3
    <2>1. IsFiniteSet({1, 2}) /\ {1, 2} \cup {3} = {1, 2, 3}
      <3>1. IsFiniteSet({1}) /\ {1} \cup {2} = {1, 2}
        BY FS_Singleton
      <3> QED BY <3>1, FS_AddElement
    <2>2. 3 \notin {1, 2}
      OBVIOUS
    <2>3. Cardinality({1, 2} \cup {3}) = Cardinality({1, 2}) + 1
      BY <2>1, <2>2, FS_AddElement
    <2> QED BY <1>6, <2>1, <2>3
  <1> QED BY <1>3, <1>4, <1>5, <1>6, <1>7

-----------------------------------------------------------------------------
(* Every edit leaves the conversation in one piece and without a loop.     *)

Sound(f) == Typed(f) /\ WellConnected(f) /\ Acyclic(f)

LEMMA SoundFlow ==
  ASSUME NEW f, Sound(f)
  PROVE  /\ IsFlow(f) /\ Shape(f) /\ Anchored(f) /\ Ids(f) \subseteq StepId
         /\ Typed(f) /\ WellConnected(f) /\ Acyclic(f)
  BY TypedFlow DEF Sound, WellConnected

\* More ways on reach no less.
LEMMA MoreWays ==
  ASSUME NEW f, NEW g, Shape(f), Shape(g), Ids(g) = Ids(f), g.start = f.start, WellConnected(f), Anchored(g),
         \A m, n : Leads(f, m, n) => Leads(g, m, n)
  PROVE  WellConnected(g)
  <1>1. PICK R : R = Reachable(g)
    OBVIOUS
  <1>2. R \subseteq Ids(g) /\ Follows(g, R)
    BY <1>1, ReachableLeast
  <1>3. ASSUME NEW e \in Exits(f), e[1] \in R, To(f, e) \in Ids(f)
        PROVE  To(f, e) \in R
    <2>1. Leads(f, e[1], To(f, e))
      BY <1>2, <1>3, LeadsByExit
    <2>2. PICK d \in Exits(g) : d[1] = e[1] /\ To(g, d) = To(f, e)
      BY <2>1, LeadsByExit
    <2> QED BY <1>2, <1>3, <2>2 DEF Follows
  <1>4. Follows(f, R)
    BY <1>2, <1>3 DEF Follows
  <1>5. Reachable(f) \subseteq R
    BY <1>2, <1>4, ReachableLeast
  <1> QED BY <1>1, <1>2, <1>5 DEF WellConnected

\* A way on to a step further down, or beside, closes no loop.
LEMMA NewWays ==
  ASSUME NEW f, NEW g, Acyclic(f), Ids(g) = Ids(f), NEW id \in Ids(f), NEW t,
         t \in Ids(f) => ~After(f, t, id),
         \A m, n : Leads(g, m, n) => Leads(f, m, n) \/ (m = id /\ n = t)
  PROVE  Acyclic(g)
  <1>1. CASE t \notin Ids(f)
    <2>1. \A m, n : Leads(g, m, n) => n \in Ids(f)
      BY DEF Leads
    <2> QED BY <1>1, <2>1, FewerWays
  <1>2. CASE t \in Ids(f)
    <2>1. PICK T : T = {n \in Ids(f) : After(f, t, n)}
      OBVIOUS
    <2>2. t \in T /\ id \notin T /\ \A a, b : a \in T /\ Leads(f, a, b) => b \in T
      BY <1>2, <2>1, AfterCloses
    <2>3. \A m, n : Leads(g, m, n) => Leads(f, m, n) \/ (m \notin T /\ n \in T)
      BY <2>2
    <2>4. \A m, n : m \in T /\ Leads(f, m, n) => n \in T
      BY <2>2
    <2> QED BY <2>3, <2>4, WaysForward
  <1> QED BY <1>1, <1>2

\* What leads where when a step is made another.
LEMMA RenodedLeads ==
  ASSUME NEW f, Shape(f), Anchored(f), NEW id \in Ids(f), NEW x \in Node,
         \A k \in DOMAIN x.exits : x.exits[k] \in Ids(f) \cup {Nil}
  PROVE  LET g == Renoded(f, id, x)
         IN /\ Shape(g) /\ Anchored(g) /\ Ids(g) = Ids(f) /\ g.start = f.start
            /\ \A m, n : m # id => (Leads(g, m, n) <=> Leads(f, m, n))
            /\ \A n \in Ids(f) : Leads(g, id, n) <=> \E k \in DOMAIN x.exits : x.exits[k] = n
  <1>1. PICK g : g = Renoded(f, id, x)
    OBVIOUS
  <1>2. /\ Shape(g) /\ Ids(g) = Ids(f) /\ g.start = f.start
        /\ Exits(g) = {e \in Exits(f) : e[1] # id} \cup {e \in {id} \X ExitNo : e[2] \in DOMAIN x.exits}
        /\ \A e \in Exits(f) : e[1] # id => To(g, e) = To(f, e)
        /\ \A k \in DOMAIN x.exits : To(g, <<id, k>>) = x.exits[k]
    BY <1>1, RenodedShape
  <1>3. ASSUME NEW e \in Exits(g), e[1] = id
        PROVE  e[2] \in DOMAIN x.exits /\ To(g, e) = x.exits[e[2]]
    <2>1. e \in {id} \X ExitNo /\ e[2] \in DOMAIN x.exits
      BY <1>2, <1>3
    <2>2. e = <<id, e[2]>>
      BY <2>1
    <2> QED BY <1>2, <2>1, <2>2
  <1>4. ASSUME NEW k \in DOMAIN x.exits
        PROVE  <<id, k>> \in Exits(g) /\ To(g, <<id, k>>) = x.exits[k] /\ <<id, k>>[1] = id
    <2>1. k \in ExitNo
      BY NodeShape
    <2> QED BY <1>2, <2>1
  <1>5. Anchored(g)
    <2>1. g.start \in Ids(g) \cup {Nil}
      BY <1>2 DEF Anchored
    <2>2. ASSUME NEW e \in Exits(g) PROVE To(g, e) \in Ids(g) \cup {Nil}
      <3>1. CASE e[1] = id
        BY <1>2, <1>3, <3>1
      <3>2. CASE e[1] # id
        BY <1>2, <3>2 DEF Anchored
      <3> QED BY <3>1, <3>2
    <2> QED BY <2>1, <2>2 DEF Anchored
  <1>6. ASSUME NEW m, NEW n, m # id
        PROVE  Leads(g, m, n) <=> Leads(f, m, n)
    <2>1. \A e \in Exits(f) : e[1] = m => e \in Exits(g) /\ To(g, e) = To(f, e)
      BY <1>2, <1>6
    <2>2. \A e \in Exits(g) : e[1] = m => e \in Exits(f) /\ To(g, e) = To(f, e)
      BY <1>2, <1>6
    <2>3. Leads(g, m, n) <=> m \in Ids(g) /\ n \in Ids(g) /\ \E e \in Exits(g) : e[1] = m /\ To(g, e) = n
      BY <1>2, LeadsByExit
    <2>4. Leads(f, m, n) <=> m \in Ids(f) /\ n \in Ids(f) /\ \E e \in Exits(f) : e[1] = m /\ To(f, e) = n
      BY LeadsByExit
    <2>5. ASSUME Leads(g, m, n) PROVE Leads(f, m, n)
      <3>1. PICK e \in Exits(g) : e[1] = m /\ To(g, e) = n
        BY <2>3, <2>5
      <3>2. e \in Exits(f) /\ To(f, e) = n
        BY <2>2, <3>1
      <3> QED BY <1>2, <2>3, <2>4, <2>5, <3>1, <3>2
    <2>6. ASSUME Leads(f, m, n) PROVE Leads(g, m, n)
      <3>1. PICK e \in Exits(f) : e[1] = m /\ To(f, e) = n
        BY <2>4, <2>6
      <3>2. e \in Exits(g) /\ To(g, e) = n
        BY <2>1, <3>1
      <3> QED BY <1>2, <2>3, <2>4, <2>6, <3>1, <3>2
    <2>7. Leads(g, m, n) \in BOOLEAN /\ Leads(f, m, n) \in BOOLEAN
      BY DEF Leads
    <2> QED BY <2>5, <2>6, <2>7
  <1>7. ASSUME NEW n \in Ids(f)
        PROVE  Leads(g, id, n) <=> \E k \in DOMAIN x.exits : x.exits[k] = n
    <2>1. Leads(g, id, n) <=> \E e \in Exits(g) : e[1] = id /\ To(g, e) = n
      BY <1>2, LeadsByExit
    <2>2. ASSUME Leads(g, id, n) PROVE \E k \in DOMAIN x.exits : x.exits[k] = n
      <3>1. PICK e \in Exits(g) : e[1] = id /\ To(g, e) = n
        BY <2>1, <2>2
      <3> QED BY <1>3, <3>1
    <2>3. ASSUME NEW k \in DOMAIN x.exits, x.exits[k] = n PROVE Leads(g, id, n)
      BY <1>4, <2>1, <2>3
    <2>4. Leads(g, id, n) \in BOOLEAN
      BY DEF Leads
    <2> QED BY <2>2, <2>3, <2>4
  <1> QED BY <1>1, <1>2, <1>5, <1>6, <1>7

LEMMA SomeExit ==
  ASSUME NEW f, NEW id \in Ids(f), NEW n \in Ids(f)
  PROVE  Leads(f, id, n) <=> \E k \in DOMAIN f.nodes[id].exits : f.nodes[id].exits[k] = n
  BY DEF Leads

\* A step that leads on as before, save that it may lead on to one more.
LEMMA RenodedSound ==
  ASSUME NEW f, Sound(f), NEW id \in Ids(f), NEW x \in Whole, NEW t \in Ids(f) \cup {Nil},
         t \in Ids(f) => ~After(f, t, id) \/ Leads(f, id, t),
         \A n \in Ids(f) : Leads(f, id, n) => \E k \in DOMAIN x.exits : x.exits[k] = n,
         \A k \in DOMAIN x.exits : x.exits[k] = t \/ x.exits[k] = Nil \/ Leads(f, id, x.exits[k])
  PROVE  Sound(Renoded(f, id, x))
  <1>1. x \in Node /\ \A k \in DOMAIN x.exits : x.exits[k] \in Ids(f) \cup {Nil}
    BY DEF Whole, Leads
  <1>2. PICK g : g = Renoded(f, id, x)
    OBVIOUS
  <1>3. /\ Shape(g) /\ Anchored(g) /\ Ids(g) = Ids(f) /\ g.start = f.start
        /\ \A m, n : m # id => (Leads(g, m, n) <=> Leads(f, m, n))
        /\ \A n \in Ids(f) : Leads(g, id, n) <=> \E k \in DOMAIN x.exits : x.exits[k] = n
    BY <1>1, <1>2, SoundFlow, RenodedLeads
  <1>4. \A m, n : Leads(g, m, n) => m \in Ids(f) /\ n \in Ids(f)
    BY <1>3 DEF Leads
  <1>5. \A m, n : Leads(f, m, n) => Leads(g, m, n)
    <2>1. \A m, n : Leads(f, m, n) => m \in Ids(f) /\ n \in Ids(f)
      BY DEF Leads
    <2> QED BY <1>3, <2>1
  <1>6. WellConnected(g)
    BY <1>3, <1>5, SoundFlow, MoreWays
  <1>7. \A m, n : Leads(g, m, n) => Leads(f, m, n) \/ (m = id /\ n = t)
    <2> SUFFICES ASSUME NEW n, Leads(g, id, n), n # t PROVE Leads(f, id, n)
      BY <1>3
    <2>1. PICK k \in DOMAIN x.exits : x.exits[k] = n
      BY <1>3, <1>4
    <2>2. n # Nil
      BY <1>4, SoundFlow, IdAssumption
    <2> QED BY <2>1, <2>2
  <1>8. Acyclic(g)
    <2>1. CASE t \in Ids(f) /\ Leads(f, id, t)
      BY <1>3, <1>7, <2>1, SoundFlow, FewerWays
    <2>2. CASE ~(t \in Ids(f) /\ Leads(f, id, t))
      BY <1>3, <1>7, <2>2, SoundFlow, NewWays
    <2> QED BY <2>1, <2>2
  <1>9. Typed(g)
    BY <1>2, SoundFlow, RenodedTyped
  <1> QED BY <1>2, <1>6, <1>8, <1>9 DEF Sound

\* An edit that may strand steps drops them.
LEMMA TidiedSound ==
  ASSUME NEW f, Sound(f), NEW g, Typed(g), Anchored(g), Acyclic(g), Ids(f) \subseteq Ids(g),
         Ids(g) \ Ids(f) \subseteq Reachable(g)
  PROVE  Sound(WithoutStranded(f, g))
  <1>1. Shape(g)
    BY TypedFlow
  <1>2. Ids(g) \ Stranded(f, g) = Reachable(g)
    BY <1>1, ReachableLeast DEF Stranded, Sound, WellConnected
  <1>3. PICK S : S = Stranded(f, g)
    OBVIOUS
  <1>4. WellConnected(Dropped(g, S))
    BY <1>1, <1>2, <1>3, TidyKeepsConnected
  <1>5. Typed(Dropped(g, S)) /\ Acyclic(Dropped(g, S))
    BY <1>1, DroppedTyped, DroppedAcyclic
  <1> QED BY <1>3, <1>4, <1>5 DEF Sound, WithoutStranded

LEMMA InsertSound ==
  ASSUME NEW f, Sound(f), NEW s, PlaceIn(f, s), NEW id \in StepId \ Ids(f), NEW type \in Types, CanInsert(f, s, type)
  PROVE  Sound(Insert(f, s, id, type))
  <1>1. Typed(Insert(f, s, id, type))
    BY SoundFlow, InsertTyped DEF PlaceIn
  <1>2. WellConnected(Insert(f, s, id, type))
    BY SoundFlow, InsertConnects
  <1>3. PICK node \in Node : /\ Insert(f, s, id, type) = Put(f, s, id, node)
                             /\ \A k \in DOMAIN node.exits : node.exits[k] \in {TargetOf(f, s), Nil}
    BY SoundFlow, InsertPuts
  <1>4. Acyclic(Put(f, s, id, node))
    BY <1>3, SoundFlow, PutAcyclic, IdAssumption
  <1> QED BY <1>1, <1>2, <1>3, <1>4 DEF Sound

LEMMA RemovedSound ==
  ASSUME NEW f, Sound(f), NEW id \in Ids(f)
  PROVE  Sound(Removed(f, id))
  BY SoundFlow, RemovedTyped, RemovedConnects, RemovedAcyclic DEF Sound

LEMMA MoveSound ==
  ASSUME NEW f, Sound(f), NEW id \in Ids(f), NEW block, BlockHolds(f, id, block), Sealed(f, block, id),
         NEW slot, PlaceIn(f, slot)
  PROVE  Sound(Move(f, id, block, slot))
  <1>1. block.exit \in Ids(f) \cup {Nil} /\ block.exit \in Target /\ id \in StepId
    BY SoundFlow DEF BlockHolds, Target
  <1> QED BY <1>1, SoundFlow, MoveTyped, MoveConnects, MoveAcyclic DEF Sound, PlaceIn

LEMMA WithExitsRenodes ==
  ASSUME NEW f, Shape(f), NEW id \in Ids(f), NEW ex
  PROVE  WithExits(f, id, ex) = Renoded(f, id, [type |-> f.nodes[id].type, exits |-> ex])
  <1>1. PICK st, ns, x : st = f.start /\ ns = f.nodes /\ x = f.nodes[id]
    OBVIOUS
  <1>2. f = [start |-> st, nodes |-> ns] /\ ns = [n \in Ids(f) |-> ns[n]] /\ x = [type |-> x.type, exits |-> x.exits]
    BY <1>1 DEF Shape
  <1>3. [f EXCEPT !.nodes[id].exits = ex] = [start |-> st, nodes |-> [ns EXCEPT ![id] = [ns[id] EXCEPT !.exits = ex]]]
    BY <1>2
  <1>4. [x EXCEPT !.exits = ex] = [type |-> x.type, exits |-> ex]
    BY <1>2
  <1>5. [f EXCEPT !.nodes[id] = [type |-> x.type, exits |-> ex]] =
          [start |-> st, nodes |-> [ns EXCEPT ![id] = [type |-> x.type, exits |-> ex]]]
    BY <1>2
  <1>6. ns[id] = x
    BY <1>1
  <1> QED BY <1>1, <1>3, <1>4, <1>5, <1>6 DEF WithExits, Renoded

\* A step that leads on by less than before, save for one more step.
LEMMA RenodedTidied ==
  ASSUME NEW f, Sound(f), NEW id \in Ids(f), NEW x \in Whole, NEW t \in Ids(f) \cup {Nil},
         t \in Ids(f) => ~After(f, t, id),
         \A k \in DOMAIN x.exits : x.exits[k] = t \/ x.exits[k] = Nil \/ Leads(f, id, x.exits[k])
  PROVE  Sound(WithoutStranded(f, Renoded(f, id, x)))
  <1>1. x \in Node /\ \A k \in DOMAIN x.exits : x.exits[k] \in Ids(f) \cup {Nil}
    BY DEF Whole, Leads
  <1>2. PICK g : g = Renoded(f, id, x)
    OBVIOUS
  <1>3. /\ Shape(g) /\ Anchored(g) /\ Ids(g) = Ids(f) /\ g.start = f.start
        /\ \A m, n : m # id => (Leads(g, m, n) <=> Leads(f, m, n))
        /\ \A n \in Ids(f) : Leads(g, id, n) <=> \E k \in DOMAIN x.exits : x.exits[k] = n
    BY <1>1, <1>2, SoundFlow, RenodedLeads
  <1>4. \A m, n : Leads(g, m, n) => m \in Ids(f) /\ n \in Ids(f)
    BY <1>3 DEF Leads
  <1>5. \A m, n : Leads(g, m, n) => Leads(f, m, n) \/ (m = id /\ n = t)
    <2> SUFFICES ASSUME NEW n, Leads(g, id, n), n # t PROVE Leads(f, id, n)
      BY <1>3
    <2>1. PICK k \in DOMAIN x.exits : x.exits[k] = n
      BY <1>3, <1>4
    <2>2. n # Nil
      BY <1>4, SoundFlow, IdAssumption
    <2> QED BY <2>1, <2>2
  <1>6. Acyclic(g)
    BY <1>3, <1>5, SoundFlow, NewWays
  <1>7. Typed(g)
    BY <1>2, SoundFlow, RenodedTyped
  <1> QED BY <1>2, <1>3, <1>6, <1>7, TidiedSound

\* Where a question's answers carry on is behind it.
LEMMA MainAhead ==
  ASSUME NEW f, Sound(f), NEW id \in Ids(f), NEW main \in (Ids(f) \ {id}) \cup {Nil}, main # Nil => After(f, id, main)
  PROVE  main \in Ids(f) => ~After(f, main, id)
  <1>1. main \in Ids(f) => main # id /\ main # Nil
    BY SoundFlow, IdAssumption
  <1> QED BY <1>1, SoundFlow, NotMutual

LEMMA ExitsOfStep ==
  ASSUME NEW f, Sound(f), NEW id \in Ids(f), NEW k \in DOMAIN f.nodes[id].exits
  PROVE  f.nodes[id].exits[k] \in Target /\ (f.nodes[id].exits[k] = Nil \/ Leads(f, id, f.nodes[id].exits[k]))
  <1>1. f.nodes[id].exits[k] \in Target
    BY SoundFlow, TypedTo
  <1>2. <<id, k>> \in Exits(f) /\ To(f, <<id, k>>) = f.nodes[id].exits[k]
    BY SoundFlow DEF Shape, Exits, To
  <1>3. f.nodes[id].exits[k] \in Ids(f) \cup {Nil}
    BY <1>2, SoundFlow DEF Anchored
  <1> QED BY <1>1, <1>3 DEF Leads

LEMMA AddOptionSound ==
  ASSUME NEW f, Sound(f), NEW id \in Ids(f), f.nodes[id].type = "choice", Cardinality(DOMAIN f.nodes[id].exits) < 2,
         NEW main \in (Ids(f) \ {id}) \cup {Nil}, main # Nil => After(f, id, main)
  PROVE  Sound(AddOption(f, id, main))
  <1>1. PICK ex : ex = f.nodes[id].exits
    OBVIOUS
  <1>2. DOMAIN ex = {1} /\ Cardinality(DOMAIN ex) = 1
    BY <1>1, SoundFlow, TypedTo, Answers
  <1>3. PICK new : new = [j \in 1..2 |-> IF j = 2 THEN main ELSE ex[j]]
    OBVIOUS
  <1>4. AddOption(f, id, main) = WithExits(f, id, new)
    BY <1>1, <1>2, <1>3 DEF AddOption
  <1>5. ex[1] \in Target /\ (ex[1] = Nil \/ Leads(f, id, ex[1]))
    BY <1>1, <1>2, ExitsOfStep
  <1>6. main \in Target
    BY SoundFlow DEF Target
  <1>7. DOMAIN new = {1, 2} /\ new[1] = ex[1] /\ new[2] = main /\ new \in [{1, 2} -> Target]
    BY <1>3, <1>5, <1>6
  <1>8. PICK x : x = [type |-> "choice", exits |-> new]
    OBVIOUS
  <1>9. x \in Whole
    <2>1. {1, 2} \in ExitsOf("choice") /\ "choice" \in Types
      BY DEF ExitsOf, Types
    <2> QED BY <1>7, <1>8, <2>1, WholeOf
  <1>10. x.exits = new
    BY <1>8
  <1>11. \A n \in Ids(f) : Leads(f, id, n) => \E k \in DOMAIN x.exits : x.exits[k] = n
    BY <1>1, <1>2, <1>7, <1>10 DEF Leads
  <1>12. \A k \in DOMAIN x.exits : x.exits[k] = main \/ x.exits[k] = Nil \/ Leads(f, id, x.exits[k])
    BY <1>5, <1>7, <1>10
  <1>13. Sound(Renoded(f, id, x))
    BY <1>9, <1>11, <1>12, MainAhead, RenodedSound
  <1> QED BY <1>4, <1>8, <1>13, SoundFlow, WithExitsRenodes

LEMMA RemoveOptionSound ==
  ASSUME NEW f, Sound(f), NEW id \in Ids(f), f.nodes[id].type = "choice", Cardinality(DOMAIN f.nodes[id].exits) > 1,
         NEW k \in DOMAIN f.nodes[id].exits
  PROVE  Sound(RemoveOption(f, id, k))
  <1>1. PICK ex : ex = f.nodes[id].exits
    OBVIOUS
  <1>2. PICK n \in {2, 3} : DOMAIN ex = 1..n /\ Cardinality(DOMAIN ex) = n
    <2>1. \/ DOMAIN ex = {1, 2} /\ Cardinality(DOMAIN ex) = 2
          \/ DOMAIN ex = {1, 2, 3} /\ Cardinality(DOMAIN ex) = 3
      BY <1>1, SoundFlow, TypedTo, Answers
    <2>2. 1..2 = {1, 2} /\ 1..3 = {1, 2, 3}
      OBVIOUS
    <2> QED BY <2>1, <2>2
  <1>3. PICK new : new = [j \in 1..(n - 1) |-> ex[IF j < k THEN j ELSE j + 1]]
    OBVIOUS
  <1>4. RemoveOption(f, id, k) = WithoutStranded(f, WithExits(f, id, new))
    BY <1>1, <1>2, <1>3 DEF RemoveOption
  <1>5. \A j \in 1..n : ex[j] \in Target /\ (ex[j] = Nil \/ Leads(f, id, ex[j]))
    BY <1>1, <1>2, ExitsOfStep
  <1>6. DOMAIN new = 1..(n - 1) /\ \A j \in DOMAIN new : \E i \in 1..n : new[j] = ex[i]
    <2>1. k \in 1..n
      BY <1>1, <1>2
    <2>2. \A j \in 1..(n - 1) : (IF j < k THEN j ELSE j + 1) \in 1..n
      BY <2>1
    <2> QED BY <1>3, <2>2
  <1>7. new \in [1..(n - 1) -> Target]
    BY <1>3, <1>5, <1>6
  <1>8. PICK x : x = [type |-> "choice", exits |-> new]
    OBVIOUS
  <1>9. x \in Whole
    <2>1. 1..(n - 1) \in ExitsOf("choice") /\ "choice" \in Types /\ 1..(n - 1) # {}
      <3>1. 1..(n - 1) \in {{1}, {1, 2}}
        BY <1>2
      <3> QED BY <3>1 DEF ExitsOf, Types
    <2> QED BY <1>7, <1>8, <2>1, WholeOf
  <1>10. x.exits = new
    BY <1>8
  <1>11. \A j \in DOMAIN x.exits : x.exits[j] = Nil \/ Leads(f, id, x.exits[j])
    BY <1>5, <1>6, <1>10
  <1>12. Nil \notin Ids(f)
    BY SoundFlow, IdAssumption
  <1>13. Sound(WithoutStranded(f, Renoded(f, id, x)))
    BY <1>9, <1>11, <1>12, RenodedTidied
  <1> QED BY <1>4, <1>8, <1>13, SoundFlow, WithExitsRenodes

LEMMA QuickRepliesOnSound ==
  ASSUME NEW f, Sound(f), NEW id \in Ids(f), f.nodes[id].type = "message"
  PROVE  Sound(QuickRepliesOn(f, id))
  <1>1. PICK ex : ex = f.nodes[id].exits
    OBVIOUS
  <1>2. DOMAIN ex = {1}
    <2>1. PICK y \in Node : y = f.nodes[id]
      BY SoundFlow, TypedTo DEF Whole
    <2>2. PICK type \in Types : \E K \in ExitsOf(type) : y \in [type : {type}, exits : [K -> Target]]
      BY DEF Node
    <2>3. PICK K \in ExitsOf(type) : y \in [type : {type}, exits : [K -> Target]]
      BY <2>2
    <2>4. type = "message" /\ DOMAIN y.exits = K
      BY <2>1, <2>3
    <2> QED BY <1>1, <2>1, <2>3, <2>4 DEF ExitsOf
  <1>3. PICK new : new = [k \in {1, 2} |-> ex[1]]
    OBVIOUS
  <1>4. PICK x : x = [type |-> "choice", exits |-> new]
    OBVIOUS
  <1>5. QuickRepliesOn(f, id) = Renoded(f, id, x)
    BY <1>1, <1>3, <1>4, SoundFlow DEF QuickRepliesOn, Renoded, Shape
  <1>6. ex[1] \in Target /\ (ex[1] = Nil \/ Leads(f, id, ex[1]))
    BY <1>1, <1>2, ExitsOfStep
  <1>7. DOMAIN new = {1, 2} /\ new[1] = ex[1] /\ new[2] = ex[1] /\ new \in [{1, 2} -> Target]
    BY <1>3, <1>6
  <1>8. x \in Whole
    <2>1. {1, 2} \in ExitsOf("choice") /\ "choice" \in Types
      BY DEF ExitsOf, Types
    <2> QED BY <1>4, <1>7, <2>1, WholeOf
  <1>9. x.exits = new
    BY <1>4
  <1>10. \A n \in Ids(f) : Leads(f, id, n) => \E k \in DOMAIN x.exits : x.exits[k] = n
    BY <1>1, <1>2, <1>7, <1>9 DEF Leads
  <1>11. \A k \in DOMAIN x.exits : x.exits[k] = Nil \/ Leads(f, id, x.exits[k])
    BY <1>6, <1>7, <1>9
  <1>12. Nil \notin Ids(f)
    BY SoundFlow, IdAssumption
  <1> QED BY <1>5, <1>8, <1>10, <1>11, <1>12, RenodedSound

LEMMA QuickRepliesOffSound ==
  ASSUME NEW f, Sound(f), NEW id \in Ids(f),
         NEW main \in (Ids(f) \ {id}) \cup {Nil}, main # Nil => After(f, id, main)
  PROVE  Sound(QuickRepliesOff(f, id, main))
  <1>1. PICK new : new = [k \in {1} |-> main]
    OBVIOUS
  <1>2. PICK x : x = [type |-> "message", exits |-> new]
    OBVIOUS
  <1>3. QuickRepliesOff(f, id, main) = WithoutStranded(f, Renoded(f, id, x))
    BY <1>1, <1>2 DEF QuickRepliesOff, Renoded
  <1>4. DOMAIN new = {1} /\ new[1] = main /\ new \in [{1} -> Target]
    <2>1. main \in Target
      BY SoundFlow DEF Target
    <2> QED BY <1>1, <2>1
  <1>5. x \in Whole
    <2>1. {1} \in ExitsOf("message") /\ "message" \in Types
      BY DEF ExitsOf, Types
    <2> QED BY <1>2, <1>4, <2>1, WholeOf
  <1>6. x.exits = new
    BY <1>2
  <1>7. \A k \in DOMAIN x.exits : x.exits[k] = main
    BY <1>4, <1>6
  <1> QED BY <1>3, <1>5, <1>7, MainAhead, RenodedTidied

\* One exit of a step led elsewhere, and nothing dropped yet.
Path(id, k) == ExitSlot(id, {k})

Led(f, g, s, id, k, t) ==
  /\ Typed(g) /\ Shape(g) /\ Anchored(g) /\ Acyclic(g)
  /\ Ids(g) = Ids(f) /\ Exits(g) = Exits(f) /\ g.start = f.start
  /\ \A e \in Exits(f) : To(g, e) = IF e = <<id, k>> THEN t ELSE To(f, e)
  /\ <<id, k>> \in Exits(f)
  /\ s \in Slot /\ s.kind = "exits" /\ s.from = {id}
  /\ SlotExits(g, s) = {<<id, k>>}

LEMMA PathLed ==
  ASSUME NEW f, Sound(f), NEW id \in Ids(f), NEW k \in DOMAIN f.nodes[id].exits, NEW t \in Ids(f) \cup {Nil},
         t \in Ids(f) => ~After(f, t, id) \/ Leads(f, id, t)
  PROVE  Led(f, WithTarget(f, Path(id, k), t), Path(id, k), id, k, t)
  <1>1. PICK s, g : s = Path(id, k) /\ g = WithTarget(f, s, t)
    OBVIOUS
  <1>2. k \in ExitNo /\ id \in StepId /\ <<id, k>> \in Exits(f)
    BY SoundFlow DEF Shape, Exits
  <1>3. s \in Slot /\ s.kind = "exits" /\ s.from = {id} /\ s.exits = {k}
    BY <1>1, <1>2 DEF Path, ExitSlot, Slot, Target
  <1>4. \A h : Exits(h) = Exits(f) => SlotExits(h, s) = {<<id, k>>}
    <2> SUFFICES ASSUME NEW h, Exits(h) = Exits(f) PROVE SlotExits(h, s) = {<<id, k>>}
      OBVIOUS
    <2>1. SlotExits(h, s) = {e \in Exits(f) : e[1] \in {id} /\ e[2] \in {k}}
      BY <1>3 DEF SlotExits
    <2>2. \A e \in Exits(f) : e = <<e[1], e[2]>>
      BY DEF Exits
    <2> QED BY <1>2, <2>1, <2>2
  <1>5. g = Repointed(f, {<<id, k>>}, t)
    BY <1>1, <1>3, <1>4 DEF WithTarget
  <1>6. /\ Shape(g) /\ Ids(g) = Ids(f) /\ g.start = f.start /\ Exits(g) = Exits(f)
        /\ \A e \in Exits(f) : To(g, e) = IF e = <<id, k>> THEN t ELSE To(f, e)
    <2>1. /\ Shape(g) /\ Ids(g) = Ids(f) /\ g.start = f.start /\ Exits(g) = Exits(f)
          /\ \A e \in Exits(f) : To(g, e) = IF e \in {<<id, k>>} THEN t ELSE To(f, e)
      BY <1>5, SoundFlow, RepointedShape
    <2> QED BY <2>1
  <1>7. Anchored(g)
    BY <1>6, SoundFlow DEF Anchored
  <1>8. Typed(g)
    <2>1. t \in Target
      BY SoundFlow DEF Target
    <2> QED BY <1>1, <2>1, SoundFlow, WithTargetTyped
  <1>9. ASSUME NEW m, NEW n, Leads(g, m, n)
        PROVE  Leads(f, m, n) \/ (m = id /\ n = t)
    <2>1. PICK e \in Exits(g) : e[1] = m /\ To(g, e) = n /\ m \in Ids(f) /\ n \in Ids(f)
      BY <1>6, <1>9, LeadsByExit
    <2>2. CASE e = <<id, k>>
      BY <1>6, <2>1, <2>2
    <2>3. CASE e # <<id, k>>
      BY <1>6, <2>1, <2>3, SoundFlow, LeadsByExit
    <2> QED BY <2>2, <2>3
  <1>10. Acyclic(g)
    <2>1. CASE t \in Ids(f) /\ Leads(f, id, t)
      <3>1. \A m, n : Leads(g, m, n) => Leads(f, m, n)
        BY <1>9, <2>1
      <3> QED BY <1>6, <3>1, SoundFlow, FewerWays
    <2>2. CASE ~(t \in Ids(f) /\ Leads(f, id, t))
      BY <1>6, <1>9, <2>2, SoundFlow, NewWays
    <2> QED BY <2>1, <2>2
  <1>11. SlotExits(g, s) = {<<id, k>>}
    BY <1>4, <1>6
  <1>12. Led(f, g, s, id, k, t)
    BY <1>2, <1>3, <1>6, <1>7, <1>8, <1>10, <1>11 DEF Led
  <1> QED BY <1>1, <1>12

LEMMA ChoosePathSound ==
  ASSUME NEW f, Sound(f), NEW id \in Ids(f), NEW k \in DOMAIN f.nodes[id].exits, NEW t \in Ids(f) \cup {Nil},
         t \in Ids(f) => ~After(f, t, id) \/ Leads(f, id, t)
  PROVE  Sound(ChoosePath(f, Path(id, k), t))
  <1>1. PICK g : g = WithTarget(f, Path(id, k), t)
    OBVIOUS
  <1>2. Typed(g) /\ Anchored(g) /\ Acyclic(g) /\ Ids(g) = Ids(f)
    <2>1. Led(f, g, Path(id, k), id, k, t)
      BY <1>1, PathLed
    <2> QED BY <2>1 DEF Led
  <1>3. Sound(WithoutStranded(f, g))
    BY <1>2, TidiedSound
  <1> QED BY <1>1, <1>3 DEF ChoosePath

\* A step is reached whatever becomes of its exits.
LEMMA OwnerReached ==
  ASSUME NEW f, NEW g, Sound(f), Shape(g), NEW id \in Ids(f), Ids(g) = Ids(f), Exits(g) = Exits(f), g.start = f.start,
         \A e \in Exits(f) : e[1] # id => To(g, e) = To(f, e)
  PROVE  id \in Reachable(g)
  <1> SUFFICES ASSUME id \notin Reachable(g) PROVE FALSE
    OBVIOUS
  <1>1. PICK R : R = Reachable(g)
    OBVIOUS
  <1>2. R \subseteq Ids(f) /\ Follows(g, R)
    BY <1>1, ReachableLeast
  <1>3. ASSUME NEW e \in Exits(f), e[1] \in R, To(f, e) \in Ids(f)
        PROVE  To(f, e) \in R
    <2>1. To(g, e) = To(f, e)
      BY <1>1, <1>3
    <2> QED BY <1>2, <1>3, <2>1 DEF Follows
  <1>4. Follows(f, R)
    BY <1>2, <1>3 DEF Follows
  <1>5. Reachable(f) \subseteq R
    BY <1>2, <1>4, SoundFlow, ReachableLeast
  <1> QED BY <1>1, <1>5, SoundFlow DEF WellConnected

LEMMA OwnPathSound ==
  ASSUME NEW f, Sound(f), NEW id \in Ids(f), NEW k \in DOMAIN f.nodes[id].exits, NEW main \in Ids(f) \cup {Nil},
         main \in Ids(f) => ~After(f, main, id) \/ Leads(f, id, main), NEW new \in StepId \ Ids(f)
  PROVE  Sound(OwnPath(f, Path(id, k), main, new))
  <1>1. PICK s, g : s = Path(id, k) /\ g = WithTarget(f, s, main)
    OBVIOUS
  <1>2. /\ Typed(g) /\ Shape(g) /\ Anchored(g) /\ Acyclic(g)
        /\ Ids(g) = Ids(f) /\ Exits(g) = Exits(f) /\ g.start = f.start
        /\ \A e \in Exits(f) : To(g, e) = IF e = <<id, k>> THEN main ELSE To(f, e)
        /\ <<id, k>> \in Exits(f)
        /\ s \in Slot /\ s.kind = "exits" /\ s.from = {id}
        /\ SlotExits(g, s) = {<<id, k>>}
    <2>1. Led(f, g, s, id, k, main)
      BY <1>1, PathLed
    <2> QED BY <2>1 DEF Led
  <1>3. TargetOf(g, s) = main
    BY <1>2, OneWay
  <1>4. PlaceIn(g, s)
    BY <1>2, <1>3 DEF PlaceIn
  <1>5. id \in Reachable(g)
    <2>1. \A e \in Exits(f) : e[1] # id => To(g, e) = To(f, e)
      BY <1>2
    <2> QED BY <1>2, <2>1, OwnerReached
  <1>6. Ids(g) \subseteq StepId /\ "message" \in Types /\ CanInsert(g, s, "message")
    BY <1>2, SoundFlow DEF Types, CanInsert
  <1>7. PICK node \in Node : /\ Insert(g, s, new, "message") = Put(g, s, new, node) /\ GoesOnFrom(g, s, node)
                             /\ \A j \in DOMAIN node.exits : node.exits[j] \in {TargetOf(g, s), Nil}
    BY <1>2, <1>4, <1>6, InsertPuts
  <1>8. PICK h : h = Insert(g, s, new, "message")
    OBVIOUS
  <1>9. new \notin Ids(g) \cup {Nil}
    BY <1>2, IdAssumption
  <1>10. Acyclic(h)
    BY <1>2, <1>4, <1>6, <1>7, <1>8, <1>9, PutAcyclic
  <1>11. /\ Shape(h) /\ Anchored(h) /\ Ids(h) = Ids(g) \cup {new}
         /\ Reachable(g) \subseteq Reachable(h)
         /\ (\E e \in SlotExits(g, s) : e[1] \in Reachable(h)) => new \in Reachable(h)
    BY <1>2, <1>4, <1>7, <1>8, <1>9, PutReaches
  <1>12. new \in Reachable(h)
    <2>1. <<id, k>>[1] \in Reachable(h)
      BY <1>5, <1>11
    <2> QED BY <1>2, <1>11, <2>1
  <1>13. Typed(h)
    BY <1>2, <1>6, <1>8, InsertTyped
  <1>14. Sound(WithoutStranded(f, h))
    BY <1>2, <1>10, <1>11, <1>12, <1>13, TidiedSound
  <1> QED BY <1>1, <1>8, <1>14 DEF OwnPath

\* A step put in, and then made one of the same type that leads nowhere new.
LEMMA PutLeads ==
  ASSUME NEW f, Sound(f), NEW s, PlaceIn(f, s), NEW id \in StepId \ Ids(f), NEW type \in Types,
         CanInsert(f, s, type), type # "end"
  PROVE  LET h == Insert(f, s, id, type)
         IN /\ Sound(h) /\ id \in Ids(h) /\ h.nodes[id].type = type
            /\ 1 \in DOMAIN h.nodes[id].exits /\ h.nodes[id].exits[1] = TargetOf(f, s)
            /\ \A k \in DOMAIN h.nodes[id].exits : h.nodes[id].exits[k] \in {TargetOf(f, s), Nil}
            /\ TargetOf(f, s) \in Ids(h) \cup {Nil}
  <1>1. PICK t : t = TargetOf(f, s) /\ t \in Ids(f) \cup {Nil}
    BY SoundFlow, PlaceTarget DEF PlaceIn
  <1>2. PICK node \in Node : node = NewNode(type, t)
    BY <1>1, SoundFlow, NewNodeShape DEF Target
  <1>3. /\ 1 \in DOMAIN node.exits /\ node.exits[1] = t
        /\ \A k \in DOMAIN node.exits : node.exits[k] \in {t, Nil}
    BY <1>1, <1>2, SoundFlow, NewNodeShape DEF Target
  <1>4. PICK h : h = Insert(f, s, id, type)
    OBVIOUS
  <1>5. h = Put(f, s, id, node)
    BY <1>1, <1>2, <1>4 DEF Insert, Put
  <1>6. /\ Ids(h) = Ids(f) \cup {id}
        /\ Exits(h) = Exits(f) \cup {e \in {id} \X ExitNo : e[2] \in DOMAIN node.exits}
        /\ \A k \in DOMAIN node.exits : To(h, <<id, k>>) = node.exits[k]
    BY <1>5, SoundFlow, PutShape DEF Placed
  <1>7. Sound(h)
    BY <1>4, InsertSound
  <1>8. DOMAIN h.nodes[id].exits = DOMAIN node.exits
    <2>1. DOMAIN h.nodes[id].exits \subseteq ExitNo /\ DOMAIN node.exits \subseteq ExitNo
      BY <1>6, <1>7, SoundFlow, NodeShape DEF Shape
    <2>2. \A k \in ExitNo : <<id, k>> \in Exits(h) <=> k \in DOMAIN h.nodes[id].exits
      BY <1>6 DEF Exits
    <2>3. \A k \in ExitNo : <<id, k>> \in Exits(h) <=> k \in DOMAIN node.exits
      <3>1. \A k \in ExitNo : <<id, k>> \notin Exits(f)
        BY DEF Exits
      <3> QED BY <1>6, <3>1
    <2> QED BY <2>1, <2>2, <2>3
  <1>9. \A k \in DOMAIN node.exits : h.nodes[id].exits[k] = node.exits[k]
    BY <1>6 DEF To
  <1>10. h.nodes[id].type = type
    <2>1. node.type = type
      BY <1>2 DEF NewNode
    <2> QED BY <1>5, <2>1, SoundFlow, PutTypes
  <1> QED BY <1>1, <1>3, <1>4, <1>6, <1>7, <1>8, <1>9, <1>10

\* A copy of a step: a question's answers all go on the copy's way.
LEMMA CopySound ==
  ASSUME NEW f, Sound(f), NEW s, PlaceIn(f, s), NEW id \in StepId \ Ids(f), NEW type \in Types, type # "end",
         NEW K, type = "choice" => K \in ExitsOf("choice") /\ K # {}
  PROVE  LET copy == Insert(f, s, id, type)
         IN /\ Sound(copy)
            /\ type = "choice" => Sound(WithExits(copy, id, [k \in K |-> copy.nodes[id].exits[1]]))
  <1>1. PICK h, t : h = Insert(f, s, id, type) /\ t = TargetOf(f, s)
    OBVIOUS
  <1>2. /\ Sound(h) /\ id \in Ids(h) /\ h.nodes[id].type = type
        /\ 1 \in DOMAIN h.nodes[id].exits /\ h.nodes[id].exits[1] = t
        /\ \A k \in DOMAIN h.nodes[id].exits : h.nodes[id].exits[k] \in {t, Nil}
        /\ t \in Ids(h) \cup {Nil}
    BY <1>1, PutLeads DEF CanInsert
  <1>3. CASE type = "choice"
    <2>1. PICK ex : ex = [k \in K |-> t]
      OBVIOUS
    <2>2. PICK x : x = [type |-> "choice", exits |-> ex]
      OBVIOUS
    <2>3. t \in Target
      BY <1>2, SoundFlow DEF Target
    <2>4. DOMAIN ex = K /\ (\A k \in K : ex[k] = t) /\ ex \in [K -> Target]
      BY <2>1, <2>3
    <2>5. x \in Whole
      BY <1>3, <2>2, <2>4, WholeOf DEF Types
    <2>6. x.exits = ex
      BY <2>2
    <2>7. Nil \notin Ids(h)
      BY <1>2, SoundFlow, IdAssumption
    <2>8. \A n \in Ids(h) : Leads(h, id, n) => n = t
      BY <1>2, <2>7 DEF Leads
    <2>9. PICK k0 : k0 \in K
      BY <1>3
    <2>10. \A n \in Ids(h) : Leads(h, id, n) => \E k \in DOMAIN x.exits : x.exits[k] = n
      BY <2>4, <2>6, <2>8, <2>9
    <2>11. t \in Ids(h) => Leads(h, id, t)
      BY <1>2 DEF Leads
    <2>12. \A k \in DOMAIN x.exits : x.exits[k] = Nil \/ Leads(h, id, x.exits[k])
      BY <1>2, <2>4, <2>6, <2>11
    <2>13. Sound(Renoded(h, id, x))
      BY <1>2, <2>5, <2>7, <2>10, <2>12, RenodedSound
    <2>14. WithExits(h, id, ex) = Renoded(h, id, x)
      BY <1>2, <1>3, <2>2, SoundFlow, WithExitsRenodes
    <2> QED BY <1>1, <1>2, <2>1, <2>13, <2>14
  <1>4. CASE type # "choice"
    BY <1>1, <1>2, <1>4
  <1> QED BY <1>3, <1>4

\* A place that an ending was put into leads to the ending.
LEMMA EndedPlace ==
  ASSUME NEW f, Sound(f), NEW s, PlaceIn(f, s), s.kind # "join", NEW id \in StepId \ Ids(f), CanInsert(f, s, "end")
  PROVE  LET h == Insert(f, s, id, "end")
         IN Sound(h) /\ Ids(h) = Ids(f) \cup {id} /\ PlaceIn(h, s) /\ TargetOf(h, s) = id
  <1>1. PICK h : h = Insert(f, s, id, "end")
    OBVIOUS
  <1>2. "end" \in Types
    BY DEF Types
  <1>3. PICK node \in Node : h = Put(f, s, id, node)
    BY <1>1, <1>2, SoundFlow, InsertPuts
  <1>4. /\ Ids(h) = Ids(f) \cup {id}
        /\ Exits(h) = Exits(f) \cup {e \in {id} \X ExitNo : e[2] \in DOMAIN node.exits}
        /\ h.start = IF s.kind = "start" THEN id ELSE f.start
        /\ \A e \in Exits(f) :
             e[1] # id /\ To(h, e) = IF s.kind # "start" /\ e \in SlotExits(f, s) THEN id ELSE To(f, e)
    BY <1>3, SoundFlow, PutShape DEF Placed
  <1>5. Sound(h)
    BY <1>1, <1>2, InsertSound
  <1>6. CASE s.kind = "start"
    <2>1. PlaceIn(h, s)
      BY <1>6 DEF PlaceIn
    <2>2. TargetOf(h, s) = id
      BY <1>4, <1>6 DEF TargetOf
    <2> QED BY <1>1, <1>4, <1>5, <2>1, <2>2
  <1>7. CASE s.kind = "exits"
    <2>1. s \in Slot /\ s.from \subseteq Ids(f) /\ SlotExits(f, s) # {} /\ \E n \in s.from : s.from = {n}
      BY <1>7 DEF PlaceIn
    <2>2. id \notin s.from
      BY <2>1
    <2>3. SlotExits(h, s) = SlotExits(f, s)
      BY <1>4, <1>7, <2>2 DEF SlotExits
    <2>4. \A e \in SlotExits(h, s) : To(h, e) = id
      BY <1>4, <1>7, <2>1, <2>3, SlotExitsAreExits
    <2>5. TargetOf(h, s) = id
      BY <1>7, <2>1, <2>3, <2>4, OneWay
    <2>6. PlaceIn(h, s)
      BY <1>4, <2>1, <2>3, <2>4, <2>5 DEF PlaceIn
    <2> QED BY <1>1, <1>4, <1>5, <2>5, <2>6
  <1> QED BY <1>6, <1>7 DEF PlaceIn, Slot

LEMMA BookingExits ==
  ASSUME NEW x \in Whole, x.type = "booking"
  PROVE  DOMAIN x.exits = {1, 2}
  <1>1. PICK type \in Types : \E K \in ExitsOf(type) : x \in [type : {type}, exits : [K -> Target]]
    BY DEF Whole, Node
  <1>2. PICK K \in ExitsOf(type) : x \in [type : {type}, exits : [K -> Target]]
    BY <1>1
  <1>3. type = "booking" /\ DOMAIN x.exits = K
    BY <1>2
  <1> QED BY <1>2, <1>3 DEF ExitsOf

\* The meeting ending and its time-picker.
LEMMA MeetingSound ==
  ASSUME NEW f, Sound(f), NEW s, PlaceIn(f, s), s.kind # "join", CanInsert(f, s, "end"),
         NEW ending \in StepId \ Ids(f), NEW with, with = Insert(f, s, ending, "end"),
         NEW picker \in StepId \ Ids(with)
  PROVE  Sound([Insert(with, s, picker, "booking") EXCEPT !.nodes[picker].exits[2] = ending])
  <1>1. Sound(with) /\ Ids(with) = Ids(f) \cup {ending} /\ PlaceIn(with, s) /\ TargetOf(with, s) = ending
    BY EndedPlace
  <1>2. PICK h : h = Insert(with, s, picker, "booking")
    OBVIOUS
  <1>3. /\ Sound(h) /\ picker \in Ids(h) /\ h.nodes[picker].type = "booking"
        /\ h.nodes[picker].exits[1] = ending
        /\ \A k \in DOMAIN h.nodes[picker].exits : h.nodes[picker].exits[k] \in {ending, Nil}
        /\ ending \in Ids(h) \cup {Nil}
    <2>1. "booking" \in Types /\ CanInsert(with, s, "booking")
      BY DEF Types, CanInsert
    <2> QED BY <1>1, <1>2, <2>1, PutLeads
  <1>4. ending \in Ids(h) /\ Nil \notin Ids(h)
    BY <1>3, SoundFlow, IdAssumption
  <1>5. DOMAIN h.nodes[picker].exits = {1, 2}
    BY <1>3, SoundFlow, TypedTo, BookingExits
  <1>6. PICK ex : ex = [h.nodes[picker].exits EXCEPT ![2] = ending]
    OBVIOUS
  <1>7. PICK y : y = h.nodes[picker].exits /\ y = [k \in {1, 2} |-> y[k]] /\ y[1] = ending
    <2>1. h.nodes[picker].exits = [k \in DOMAIN h.nodes[picker].exits |-> h.nodes[picker].exits[k]]
      <3>1. Shape(h) /\ picker \in Ids(h)
        BY <1>3, SoundFlow
      <3> QED BY <3>1 DEF Shape
    <2> QED BY <1>3, <1>5, <2>1
  <1>8. DOMAIN ex = {1, 2} /\ \A k \in {1, 2} : ex[k] = ending
    BY <1>6, <1>7
  <1>9. ex = [k \in {1, 2} |-> ex[k]]
    BY <1>6, <1>7
  <1>10. ex \in [{1, 2} -> Target]
    BY <1>4, <1>8, <1>9, <1>3, SoundFlow DEF Target
  <1>11. PICK x : x = [type |-> "booking", exits |-> ex]
    OBVIOUS
  <1>12. x \in Whole /\ x.exits = ex
    <2>1. {1, 2} \in ExitsOf("booking") /\ "booking" \in Types
      BY DEF ExitsOf, Types
    <2> QED BY <1>10, <1>11, <2>1, WholeOf
  <1>13. \A n \in Ids(h) : Leads(h, picker, n) => \E k \in DOMAIN x.exits : x.exits[k] = n
    <2>1. \A n \in Ids(h) : Leads(h, picker, n) => n = ending
      BY <1>3, <1>4 DEF Leads
    <2> QED BY <1>8, <1>12, <2>1
  <1>14. \A k \in DOMAIN x.exits : Leads(h, picker, x.exits[k])
    <2>1. Leads(h, picker, ending)
      BY <1>3, <1>4, <1>5 DEF Leads
    <2> QED BY <1>8, <1>12, <2>1
  <1>15. Sound(Renoded(h, picker, x))
    BY <1>3, <1>4, <1>12, <1>13, <1>14, RenodedSound
  <1>16. [h EXCEPT !.nodes[picker].exits[2] = ending] = WithExits(h, picker, ex)
    BY <1>6 DEF WithExits
  <1> QED BY <1>2, <1>3, <1>11, <1>15, <1>16, SoundFlow, WithExitsRenodes

-----------------------------------------------------------------------------
(* Every step of the builder.  *)

\* "Go to" leads back nowhere, meetings are not put where paths meet, and a
\* block that a path enters or leaves half way stays where it is.
Tame == ~Loops /\ ~Orphans /\ ~Ragged

\* The drawing the edits work from.
Drawn(root) == root = Canvas(flow) /\ DrawingHolds

LEMMA DrawnSteps ==
  ASSUME NEW root, Drawn(root)
  PROVE  /\ \A s \in PlacesOn(root) : PlaceIn(flow, s)
         /\ \A id \in StepsOn(root) :
              /\ id \in Ids(flow) /\ BlockHolds(flow, id, BlockFrom(flow, root, id))
              /\ \A s \in PlaceAfter(flow, root, id) : PlaceIn(flow, s) /\ flow.nodes[id].type # "end"
              /\ CarriesOn(flow, root, id) \in (Ids(flow) \ {id}) \cup {Nil}
              /\ CarriesOn(flow, root, id) # Nil => After(flow, id, CarriesOn(flow, root, id))
  BY DEF Drawn, DrawingHolds

\* There is room for the steps an edit adds.
LEMMA Room ==
  ASSUME NEW f, Sound(f), Cardinality(Ids(f)) < MaxSteps
  PROVE  NewId(f) \in StepId \ Ids(f)
  <1>1. IsFiniteSet(Ids(f)) /\ IsFiniteSet(StepId) /\ Ids(f) \subseteq StepId
    BY SoundFlow, IdAssumption, FS_Subset
  <1>2. Cardinality(Ids(f)) \in Nat /\ Cardinality(StepId) \in Nat
    BY <1>1, FS_CardinalityType
  <1> QED BY <1>1, <1>2, StepsAssumption, FreshId

LEMMA NotFull ==
  ASSUME Sound(flow), ~Full
  PROVE  NewId(flow) \in StepId \ Ids(flow)
  <1>1. Cardinality(Ids(flow)) \in Nat
    BY SoundFlow, IdAssumption, FS_Subset, FS_CardinalityType
  <1> QED BY <1>1, Room, StepsAssumption DEF Full

LEMMA InsertBlockStep ==
  ASSUME Sound(flow), NEW root, Drawn(root), InsertBlock(root)
  PROVE  Sound(flow')
  <1>1. PICK s \in PlacesOn(root), type \in Blocks :
          CanInsert(flow, s, type) /\ flow' = Insert(flow, s, NewId(flow), type)
    BY DEF InsertBlock
  <1>2. NewId(flow) \in StepId \ Ids(flow)
    BY NotFull DEF InsertBlock
  <1>3. PlaceIn(flow, s) /\ type \in Types
    BY DrawnSteps, StepsAssumption
  <1> QED BY <1>1, <1>2, <1>3, InsertSound

LEMMA InsertMeetingStep ==
  ASSUME Tame, Sound(flow), NEW root, Drawn(root), InsertMeeting(root)
  PROVE  Sound(flow')
  <1>1. PICK s, ending, with, picker :
          /\ s \in PlacesOn(root) /\ CanInsert(flow, s, "end") /\ s.kind # "join"
          /\ ending = NewId(flow) /\ with = Insert(flow, s, ending, "end") /\ picker = NewId(with)
          /\ flow' = [Insert(with, s, picker, "booking") EXCEPT !.nodes[picker].exits[2] = ending]
    BY DEF InsertMeeting, Tame
  <1>2. IsFiniteSet(Ids(flow)) /\ Cardinality(Ids(flow)) \in Nat
    BY SoundFlow, IdAssumption, FS_Subset, FS_CardinalityType
  <1>3. Cardinality(Ids(flow)) + 2 <= MaxSteps /\ MaxSteps \in Nat
    BY StepsAssumption DEF InsertMeeting
  <1>4. ending \in StepId \ Ids(flow)
    BY <1>1, <1>2, <1>3, Room
  <1>5. PlaceIn(flow, s)
    BY <1>1, DrawnSteps
  <1>6. Sound(with) /\ Ids(with) = Ids(flow) \cup {ending}
    BY <1>1, <1>4, <1>5, EndedPlace
  <1>7. Cardinality(Ids(with)) = Cardinality(Ids(flow)) + 1
    BY <1>2, <1>4, <1>6, FS_AddElement
  <1>8. picker \in StepId \ Ids(with)
    BY <1>1, <1>2, <1>3, <1>6, <1>7, Room
  <1> QED BY <1>1, <1>4, <1>5, <1>8, MeetingSound

LEMMA MoveStep ==
  ASSUME Tame, Sound(flow), NEW root, Drawn(root), MoveStepTo(root)
  PROVE  Sound(flow')
  <1>1. PICK id, block, s :
          /\ id \in StepsOn(root) /\ s \in PlacesOn(root) /\ block = BlockFrom(flow, root, id) /\ Sealed(flow, block, id)
          /\ flow' = Move(flow, id, block, s)
    BY DEF MoveStepTo, Tame
  <1>2. id \in Ids(flow) /\ BlockHolds(flow, id, block) /\ PlaceIn(flow, s)
    BY <1>1, DrawnSteps
  <1> QED BY <1>1, <1>2, MoveSound

LEMMA DuplicateBranch ==
  ASSUME Sound(flow), NEW root, Drawn(root), DuplicateStep(root)
  PROVE  Sound(flow')
  <1> DEFINE new == NewId(flow)
             copy(id, s) == Insert(flow, s, new, flow.nodes[id].type)
             answers(id, s) == [k \in DOMAIN flow.nodes[id].exits |-> copy(id, s).nodes[new].exits[1]]
  <1>1. PICK id \in StepsOn(root) : \E s \in PlaceAfter(flow, root, id) :
          flow' = IF flow.nodes[id].type # "choice" THEN copy(id, s) ELSE WithExits(copy(id, s), new, answers(id, s))
    BY DEF DuplicateStep
  <1>2. PICK s \in PlaceAfter(flow, root, id) :
          flow' = IF flow.nodes[id].type # "choice" THEN copy(id, s) ELSE WithExits(copy(id, s), new, answers(id, s))
    BY <1>1
  <1>3. PICK type, K : type = flow.nodes[id].type /\ K = DOMAIN flow.nodes[id].exits
    OBVIOUS
  <1>4. id \in Ids(flow) /\ PlaceIn(flow, s) /\ type # "end"
    BY <1>3, DrawnSteps
  <1>5. new \in StepId \ Ids(flow)
    BY NotFull DEF DuplicateStep
  <1>6. PICK x \in Whole : x = flow.nodes[id]
    BY <1>4, SoundFlow, TypedTo
  <1>7. type \in Types
    BY <1>3, <1>6, NodeShape DEF Whole
  <1>8. type = "choice" => K \in ExitsOf("choice") /\ K # {}
    <2>1. type = "choice" => K \in {{1}, {1, 2}, {1, 2, 3}}
      BY <1>3, <1>6, Answers
    <2> QED BY <2>1 DEF ExitsOf
  <1> QED BY <1>2, <1>3, <1>4, <1>5, <1>7, <1>8, CopySound

LEMMA RepliesStep ==
  ASSUME Sound(flow), NEW root, Drawn(root), AddReply(root) \/ RemoveReply(root) \/ QuickReplies(root)
  PROVE  Sound(flow')
  <1>1. CASE AddReply(root)
    <2>1. PICK id \in StepsOn(root) :
            /\ flow.nodes[id].type = "choice" /\ Cardinality(DOMAIN flow.nodes[id].exits) < 2
            /\ flow' = AddOption(flow, id, CarriesOn(flow, root, id))
      BY <1>1 DEF AddReply
    <2> QED BY <2>1, DrawnSteps, AddOptionSound
  <1>2. CASE RemoveReply(root)
    <2>1. PICK id, k :
            /\ id \in StepsOn(root) /\ k \in DOMAIN flow.nodes[id].exits
            /\ flow.nodes[id].type = "choice" /\ Cardinality(DOMAIN flow.nodes[id].exits) > 1
            /\ flow' = RemoveOption(flow, id, k)
      BY <1>2 DEF RemoveReply
    <2> QED BY <2>1, DrawnSteps, RemoveOptionSound
  <1>3. CASE QuickReplies(root)
    <2>1. PICK id \in StepsOn(root) :
            \/ flow.nodes[id].type = "message" /\ flow' = QuickRepliesOn(flow, id)
            \/ flow' = QuickRepliesOff(flow, id, CarriesOn(flow, root, id))
      BY <1>3 DEF QuickReplies
    <2> QED BY <2>1, DrawnSteps, QuickRepliesOnSound, QuickRepliesOffSound
  <1> QED BY <1>1, <1>2, <1>3

\* What the paths tab leads elsewhere, and where the main way goes.
LEMMA PathsTab ==
  ASSUME Sound(flow), NEW root, Drawn(root), NEW id \in StepsOn(root), NEW k \in PathExits(id)
  PROVE  /\ id \in Ids(flow) /\ k \in DOMAIN flow.nodes[id].exits
         /\ Main(root, id) \in Ids(flow) \cup {Nil}
         /\ Main(root, id) \in Ids(flow) => ~After(flow, Main(root, id), id) \/ Leads(flow, id, Main(root, id))
  <1>1. PICK x \in Whole : x = flow.nodes[id] /\ id \in Ids(flow)
    BY DrawnSteps, SoundFlow, TypedTo
  <1>2. CASE x.type = "booking"
    <2>1. DOMAIN x.exits = {1, 2}
      BY <1>2, BookingExits
    <2>2. k \in DOMAIN x.exits
      BY <1>1, <1>2, <2>1 DEF PathExits
    <2>3. Main(root, id) = x.exits[1]
      BY <1>1, <1>2 DEF Main
    <2>4. x.exits[1] = Nil \/ Leads(flow, id, x.exits[1])
      BY <1>1, <2>1, ExitsOfStep
    <2>5. Nil \notin Ids(flow)
      BY SoundFlow, IdAssumption
    <2> QED BY <1>1, <2>2, <2>3, <2>4, <2>5 DEF Leads
  <1>3. CASE x.type # "booking"
    <2>1. k \in DOMAIN x.exits
      BY <1>1, <1>3 DEF PathExits
    <2>2. PICK main : main = Main(root, id) /\ main \in (Ids(flow) \ {id}) \cup {Nil} /\ (main # Nil => After(flow, id, main))
      BY <1>1, <1>3, DrawnSteps DEF Main
    <2>3. main \in Ids(flow) => ~After(flow, main, id)
      BY <1>1, <2>2, MainAhead
    <2> QED BY <1>1, <2>1, <2>2, <2>3
  <1> QED BY <1>2, <1>3

LEMMA PathsStep ==
  ASSUME Tame, Sound(flow), NEW root, Drawn(root), GoTo(root) \/ CarryOn(root) \/ PathOfItsOwn(root)
  PROVE  Sound(flow')
  <1>1. CASE GoTo(root)
    <2>1. PICK id, k, t :
            /\ id \in StepsOn(root) /\ k \in PathExits(id) /\ t \in StepsOn(root)
            /\ ~After(flow, t, id) /\ flow' = ChoosePath(flow, Path(id, k), t)
      BY <1>1 DEF GoTo, Tame, Path
    <2>2. id \in Ids(flow) /\ k \in DOMAIN flow.nodes[id].exits /\ t \in Ids(flow)
      BY <2>1, PathsTab, DrawnSteps
    <2> QED BY <2>1, <2>2, ChoosePathSound
  <1>2. CASE CarryOn(root)
    <2>1. PICK id, k, t :
            /\ id \in StepsOn(root) /\ k \in PathExits(id)
            /\ t \in {Nil, Main(root, id)} /\ flow' = ChoosePath(flow, Path(id, k), t)
      BY <1>2 DEF CarryOn, Path
    <2>2. /\ id \in Ids(flow) /\ k \in DOMAIN flow.nodes[id].exits
          /\ Main(root, id) \in Ids(flow) \cup {Nil}
          /\ Main(root, id) \in Ids(flow) => ~After(flow, Main(root, id), id) \/ Leads(flow, id, Main(root, id))
      BY <2>1, PathsTab
    <2>3. Nil \notin Ids(flow)
      BY SoundFlow, IdAssumption
    <2> QED BY <2>1, <2>2, <2>3, ChoosePathSound
  <1>3. CASE PathOfItsOwn(root)
    <2>1. PICK id, k :
            /\ id \in StepsOn(root) /\ k \in PathExits(id)
            /\ flow' = OwnPath(flow, Path(id, k), Main(root, id), NewId(flow))
      BY <1>3 DEF PathOfItsOwn, Path
    <2>2. /\ id \in Ids(flow) /\ k \in DOMAIN flow.nodes[id].exits
          /\ Main(root, id) \in Ids(flow) \cup {Nil}
          /\ Main(root, id) \in Ids(flow) => ~After(flow, Main(root, id), id) \/ Leads(flow, id, Main(root, id))
      BY <2>1, PathsTab
    <2>3. NewId(flow) \in StepId \ Ids(flow)
      BY <1>3, NotFull DEF PathOfItsOwn
    <2> QED BY <2>1, <2>2, <2>3, OwnPathSound
  <1> QED BY <1>1, <1>2, <1>3

LEMMA EmptySound == Sound(EmptyFlow)
  <1>1. Ids(EmptyFlow) = {} /\ EmptyFlow.start = Nil
    BY DEF EmptyFlow, Ids
  <1>2. Typed(EmptyFlow)
    <2>1. EmptyFlow \in [start : Target, nodes : [{} -> Whole]]
      BY DEF EmptyFlow, Target
    <2> QED BY <2>1 DEF Typed
  <1>3. Exits(EmptyFlow) = {} /\ Reachable(EmptyFlow) = {}
    BY <1>1 DEF Exits, Reachable
  <1> QED BY <1>1, <1>2, <1>3 DEF Sound, WellConnected, Anchored, Acyclic

LEMMA InitSound == Init => Sound(flow)
  BY EmptySound DEF Init

LEMMA EditSound ==
  ASSUME Tame, Sound(flow), DrawingHolds, Next
  PROVE  Sound(flow')
  <1>1. PICK root : root = Canvas(flow) /\
           (\/ InsertBlock(root) \/ InsertMeeting(root) \/ MoveStepTo(root) \/ DuplicateStep(root)
            \/ AddReply(root) \/ RemoveReply(root) \/ QuickReplies(root)
            \/ GoTo(root) \/ CarryOn(root) \/ PathOfItsOwn(root) \/ RemoveStep)
    BY DEF Next, Edit
  <1>2. Drawn(root)
    BY <1>1 DEF Drawn
  <1>3. CASE RemoveStep
    <2>1. PICK id \in Ids(flow) : flow' = Removed(flow, id)
      BY <1>3 DEF RemoveStep
    <2> QED BY <2>1, RemovedSound
  <1> QED BY <1>1, <1>2, <1>3, InsertBlockStep, InsertMeetingStep, MoveStep, DuplicateBranch, RepliesStep, PathsStep

Stays == Sound(flow)

LEMMA StaysSound == ASSUME Tame PROVE Spec /\ []DrawingHolds => []Stays
  <1>1. Init => Stays
    BY InitSound DEF Stays
  <1>2. Stays /\ DrawingHolds /\ [Next]_flow => Stays'
    <2> SUFFICES ASSUME Stays, DrawingHolds, [Next]_flow PROVE Stays'
      OBVIOUS
    <2>1. CASE Next
      BY <2>1, EditSound DEF Stays
    <2>2. CASE UNCHANGED flow
      BY <2>2 DEF Stays
    <2> QED BY <2>1, <2>2
  <1> QED BY <1>1, <1>2, PTL DEF Spec

\* Every conversation the builder makes is well formed: each step has the
\* exits of its type, whatever is put in, moved, copied or answered.
THEOREM ConversationsTyped == ASSUME Tame PROVE Spec /\ []DrawingHolds => []TypeOK
  <1>1. Stays => TypeOK
    BY SoundFlow DEF Stays, TypeOK
  <1> QED BY <1>1, StaysSound, PTL

\* No edit (lib/flow-tree.ts) leaves an exit that leads to a step that is
\* gone, or a step no visitor can reach.
THEOREM ConversationsConnected == ASSUME Tame PROVE Spec /\ []DrawingHolds => []Connected
  <1>1. Stays => Connected
    BY SoundFlow DEF Stays, Connected
  <1> QED BY <1>1, StaysSound, PTL

\* Where "Go to" leads back nowhere and blocks are moved whole, a conversation
\* never goes round, after any number of edits.
THEOREM ConversationsGoForward == ASSUME Tame PROVE Spec /\ []DrawingHolds => []NoLoops
  <1>1. Stays => NoLoops
    BY SoundFlow DEF Stays, NoLoops
  <1> QED BY <1>1, StaysSound, PTL

\* Whatever step is put into whatever place is drawn, deleting it gives the
\* conversation back.
THEOREM DeletingUndoesInserting == ASSUME Tame PROVE Spec /\ []DrawingHolds => []DeleteUndoesInsert
  <1>1. Stays /\ DrawingHolds => DeleteUndoesInsert
    <2> SUFFICES ASSUME Stays, DrawingHolds, ~Full,
                        NEW s \in PlacesOn(Canvas(flow)), NEW type \in Blocks, CanInsert(flow, s, type)
                 PROVE  Removed(Insert(flow, s, NewId(flow), type), NewId(flow)) = flow
      BY DEF DeleteUndoesInsert
    <2>1. Sound(flow) /\ NewId(flow) \in StepId \ Ids(flow)
      BY NotFull DEF Stays
    <2>2. PlaceIn(flow, s)
      BY DrawnSteps DEF Drawn
    <2>3. type \in Types /\ NewId(flow) \notin Ids(flow) \cup {Nil}
      BY <2>1, StepsAssumption, IdAssumption
    <2> QED BY <2>1, <2>2, <2>3, SoundFlow, InsertUndone
  <1> QED BY <1>1, StaysSound, PTL
=============================================================================
