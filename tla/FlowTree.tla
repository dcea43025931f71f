------------------------------ MODULE FlowTree ------------------------------
(***************************************************************************)
(* The tree the builder draws a conversation as (buildTree in              *)
(* lib/flow-tree.ts), and what it tells an edit: the places a step can be  *)
(* dropped, the block that travels with a step, where its answers carry    *)
(* on.  The walk keeps a set of steps already drawn, threaded here through *)
(* its results.                                                            *)
(***************************************************************************)
EXTENDS FlowGraph, SequencesExt

(* The ways a step can continue, in order: [slot, target].  *)
Way(slot, target) == [slot |-> slot, target |-> target]

FaultyChoiceWaysTogether(id, exits) ==
  LET firsts == SelectSeq([k \in 1..Cardinality(DOMAIN exits) |-> k],
                          LAMBDA k : \A j \in DOMAIN exits : exits[j] = exits[k] => k <= j)
  IN [i \in DOMAIN firsts |-> Way(ExitSlot(id, DOMAIN exits), exits[firsts[i]])]
ChoiceWays(id, exits) ==
  LET firsts == SelectSeq([k \in 1..Cardinality(DOMAIN exits) |-> k],
                          LAMBDA k : \A j \in DOMAIN exits : exits[j] = exits[k] => k <= j)
  IN [i \in DOMAIN firsts |->
        Way(ExitSlot(id, {j \in DOMAIN exits : exits[j] = exits[firsts[i]]}), exits[firsts[i]])]

(* Two exits that lead the same way are one path, and so is a booking step *)
(* without a fallback.                                                     *)
Ways(id, node) ==
  CASE node.type = "end"     -> <<>>
    [] node.type = "message" -> <<Way(ExitSlot(id, {1}), node.exits[1])>>
    [] node.type = "choice"  -> ChoiceWays(id, node.exits)
    [] node.type = "booking" /\ node.exits[2] = Nil -> <<Way(ExitSlot(id, {1}), node.exits[1])>>
    [] node.type \in {"condition", "booking"} /\ node.exits[1] = node.exits[2] ->
         <<Way(JoinSlot({id}, node.exits[1]), node.exits[1])>>
    [] OTHER -> [k \in {1, 2} |-> Way(ExitSlot(id, {k}), node.exits[k])]

(* Breadth first from a step, past no blocked one: <<id, distance>> in the *)
(* order they are met.                                                     *)
RECURSIVE Bfs(_, _, _, _)
Bfs(f, blocked, head, met) ==
  IF head > Len(met) THEN met
  ELSE LET at   == met[head]
           exits == f.nodes[at[1]].exits
           new  == SelectSeq([k \in 1..Cardinality(DOMAIN exits) |-> exits[k]],
                     LAMBDA t : t \in Ids(f) /\ t \notin blocked /\ \A i \in DOMAIN met : met[i][1] # t)
           once == SelectSeq([i \in DOMAIN new |-> IF \E j \in 1..(i - 1) : new[j] = new[i] THEN Nil ELSE new[i]],
                     LAMBDA t : t # Nil)
       IN Bfs(f, blocked, head + 1, met \o [i \in DOMAIN once |-> <<once[i], at[2] + 1>>])

Distances(f, start, blocked) ==
  IF start \notin Ids(f) \ blocked THEN <<>> ELSE Bfs(f, blocked, 1, <<<<start, 0>>>>)

(* Where branches meet again: the step most of them reach (at least two),  *)
(* nearest first, the first met of equals.                                 *)
Better(p, q) == \/ p.count > q.count
                \/ p.count = q.count /\ p.max < q.max
                \/ p.count = q.count /\ p.max = q.max /\ p.sum < q.sum
                \/ p.count = q.count /\ p.max = q.max /\ p.sum = q.sum /\ p.first < q.first

Tally(far, first) == [count |-> Cardinality(DOMAIN far), max |-> Max(Range(far)),
                      sum |-> MapThenSumSet(LAMBDA b : far[b], DOMAIN far), first |-> first]

Best(tally) == IF DOMAIN tally = {} THEN Nil
               ELSE CHOOSE n \in DOMAIN tally :
                      \A m \in DOMAIN tally \ {n} : Better(tally[n], tally[m])

Position(order, n) == CHOOSE i \in DOMAIN order : order[i][1] = n /\ \A j \in 1..(i - 1) : order[j][1] # n

Meeting(f, dist, order) ==
  LET met(n) == {b \in DOMAIN dist : \E i \in DOMAIN dist[b] : dist[b][i][1] = n}
      far(n) == [b \in met(n) |-> dist[b][Position(dist[b], n)][2]]
  IN Best([n \in {n \in Ids(f) : Cardinality(met(n)) >= 2} |-> Tally(far(n), Position(order, n))])

FindJoin(f, starts, blocked) ==
  \* one evaluation of the distances for all that is asked of them
  LET joins == {Meeting(f, dist, FlattenSeq(dist)) :
                  dist \in {[b \in DOMAIN starts |-> Distances(f, starts[b], blocked)]}}
  IN CHOOSE n \in joins : TRUE

(* One branch: the steps down it, how it ends, and the place at its end.   *)
Branch(steps, end, via) ==
  [steps |-> steps, end |-> end,
   endSlot |-> IF end.kind \in {"open", "joins", "jump"} THEN {via} ELSE {}]

Drawn(branch, placed) == [branch |-> branch, placed |-> placed]
Step(id, via, branches, join) == [id |-> id, via |-> via, branches |-> branches, join |-> join]

RECURSIVE Walk(_, _, _, _, _, _), Onward(_, _, _, _, _, _, _), Split(_, _, _, _, _, _, _, _), WalkAll(_, _, _, _)

(* Down a branch from a place: what it draws and what is drawn by then.    *)
Walk(f, via, target, stops, steps, placed) ==
  IF target \notin Ids(f) THEN Drawn(Branch(steps, [kind |-> "open"], via), placed)
  ELSE IF target \in stops THEN Drawn(Branch(steps, [kind |-> "joins", to |-> target], via), placed)
  ELSE IF target \in placed THEN Drawn(Branch(steps, [kind |-> "jump", to |-> target], via), placed)
  ELSE Onward(f, via, target, Ways(target, f.nodes[target]), stops, steps, placed \cup {target})

(* From a step: there are no ways on, one, or some that are drawn side by  *)
(* side and carry on where they meet.                                      *)
Onward(f, via, id, ways, stops, steps, placed) ==
  CASE ways = <<>> ->
         Drawn(Branch(Append(steps, Step(id, via, <<>>, Nil)),
                      [kind |-> IF f.nodes[id].type = "end" THEN "finished" ELSE "branched"], via), placed)
    [] Len(ways) = 1 ->
         Walk(f, ways[1].slot, ways[1].target, stops, Append(steps, Step(id, via, <<>>, Nil)), placed)
    [] OTHER ->
         Split(f, via, id, ways, stops, steps, placed,
               FindJoin(f, [i \in DOMAIN ways |-> ways[i].target], stops \cup placed))

Rejoin(f, via, id, stops, steps, before, join, under) ==
  IF join = Nil
  THEN Drawn(Branch(Append(steps, Step(id, via, under.branches, Nil)), [kind |-> "branched"], via), under.placed)
  ELSE Walk(f, JoinSlot({id} \cup (under.placed \ before), join), join, stops,
            Append(steps, Step(id, via, under.branches, join)), under.placed)

Split(f, via, id, ways, stops, steps, placed, join) ==
  Rejoin(f, via, id, stops, steps, placed, join,
         WalkAll(f, ways, IF join = Nil THEN stops ELSE stops \cup {join}, [branches |-> <<>>, placed |-> placed]))

RECURSIVE FaultyWalkApart(_, _, _, _)
FaultyWalkApart(f, ways, stops, acc) ==
  IF ways = <<>> THEN acc
  ELSE LET one == Walk(f, Head(ways).slot, Head(ways).target, stops, <<>>, acc.placed)
       IN FaultyWalkApart(f, Tail(ways), stops,
                    [branches |-> Append(acc.branches, one.branch), placed |-> acc.placed])

WalkAll(f, ways, stops, acc) ==
  IF ways = <<>> THEN acc
  ELSE LET one == Walk(f, Head(ways).slot, Head(ways).target, stops, <<>>, acc.placed)
       IN WalkAll(f, Tail(ways), stops,
                  [branches |-> Append(acc.branches, one.branch), placed |-> one.placed])

Tree(f) == Walk(f, StartSlot, f.start, {}, <<>>, {})
Root(f) == Tree(f).branch

(* Every branch of a tree, the branch itself among them, and its steps.    *)
RECURSIVE Branches(_)
Branches(b) ==
  {b} \cup UNION {UNION {Branches(under) : under \in Range(step.branches)} : step \in Range(b.steps)}

DrawnAt(root, id) ==
  UNION {{<<b, i>> : i \in {i \in DOMAIN b.steps : b.steps[i].id = id}} : b \in Branches(root)}

StepsOf(b) == Range(b.steps)
StepsIn(root) == UNION {StepsOf(b) : b \in Branches(root)}
DrawnIn(root) == {s.id : s \in StepsIn(root)}
StepOf(root, id) == CHOOSE s \in StepsIn(root) : s.id = id
Inside(step) == {s.id : s \in UNION {StepsIn(under) : under \in Range(step.branches)}}

(* Where a step may be dropped: just before any step, at any open end.     *)
Places(root) == {s.via : s \in StepsIn(root)} \cup UNION {b.endSlot : b \in Branches(root)}

(* blockOf: what travels with a step.  *)
BlockOf(f, root, id) ==
  LET s    == StepOf(root, id)
      ways == Ways(id, f.nodes[id])
  IN IF s.branches # <<>>
     THEN [ids |-> {id} \cup Inside(s), exit |-> s.join, closed |-> s.join = Nil]
     ELSE IF ways = <<>> THEN [ids |-> {id}, exit |-> Nil, closed |-> TRUE]
     ELSE [ids |-> {id}, exit |-> ways[1].target, closed |-> FALSE]

(* afterSlot: the place just after a step, if it has one.  *)
AfterSlot(f, root, id) ==
  LET at == CHOOSE p \in DrawnAt(root, id) : TRUE
      b  == at[1]
      s  == b.steps[at[2]]
  IN IF f.nodes[id].type = "end" \/ (s.branches # <<>> /\ s.join = Nil) THEN {}
     ELSE IF at[2] < Len(b.steps) THEN {b.steps[at[2] + 1].via} ELSE b.endSlot

(* mainExit: where a step's answers carry on when they have no way of      *)
(* their own.                                                              *)
MainExit(f, root, id) ==
  LET s == StepOf(root, id)
      exits == f.nodes[id].exits
  IN IF s.branches # <<>> THEN s.join
     ELSE IF 1 \in DOMAIN exits THEN exits[1] ELSE Nil
=============================================================================
