---------------------------- MODULE FlowEditing ----------------------------
(***************************************************************************)
(* Editing a conversation in the builder: every change the canvas and the  *)
(* step settings can make to the graph, each computed from the tree that   *)
(* is drawn at that moment.  How it is drawn is a parameter: FlowTree has  *)
(* the drawing of the code.                                                *)
(***************************************************************************)
EXTENDS FlowGraph

CONSTANTS
  Canvas(_),            \* a conversation as it is drawn, and what can be asked
  PlacesOn(_),          \*   of a drawing: where a step may be dropped,
  StepsOn(_),           \*   the steps on it,
  BlockFrom(_, _, _),   \*   the block that travels with a step,
  PlaceAfter(_, _, _),  \*   the place after it, if it has one,
  CarriesOn(_, _, _)    \*   where its answers carry on

CONSTANTS
  Blocks,     \* types of step in the library
  MaxSteps,   \* bound: steps a conversation may have
  MaxSplits,  \* bound: steps with more than one exit
  Loops,      \* "Go to" may lead back
  Orphans,    \* meetings are put where paths meet at an open end, too
  Ragged      \* blocks are moved that a path enters or leaves half way

ASSUME StepsAssumption == MaxSteps \in Nat /\ MaxSteps <= Cardinality(StepId) /\ Blocks \subseteq Types

VARIABLE flow

Full == Cardinality(Ids(flow)) >= MaxSteps
Splits(f) == Cardinality({n \in Ids(f) : f.nodes[n].type \in {"choice", "condition", "booking"}})
NewId(f) == CHOOSE n \in StepId \ Ids(f) : TRUE

Init == flow = EmptyFlow

InsertBlock(root) ==
  /\ ~Full
  /\ \E s \in PlacesOn(root), type \in Blocks :
       /\ CanInsert(flow, s, type)
       /\ flow' = Insert(flow, s, NewId(flow), type)

(* The meeting ending brings a time-picker, put into the place it was      *)
(* given, with the ending as what happens when nothing can be booked.      *)
InsertMeeting(root) ==
  /\ Cardinality(Ids(flow)) + 2 <= MaxSteps
  /\ \E s \in PlacesOn(root) :
       /\ CanInsert(flow, s, "end")
       /\ Orphans \/ s.kind # "join"
       /\ LET ending == NewId(flow)
              with   == Insert(flow, s, ending, "end")
              picker == NewId(with)
          IN flow' = [Insert(with, s, picker, "booking") EXCEPT !.nodes[picker].exits[2] = ending]

RemoveStep == \E id \in Ids(flow) : flow' = Removed(flow, id)

(* A block is entered at its head and left at its exit.  *)
Sealed(f, block, id) ==
  /\ f.start \in block.ids => f.start = id
  /\ \A m \in block.ids, n \in Ids(f) \ block.ids : Leads(f, m, n) => ~block.closed /\ n = block.exit
  /\ \A m \in Ids(f) \ block.ids, n \in block.ids : Leads(f, m, n) => n = id

MoveStepTo(root) ==
  \E id \in StepsOn(root) :
    /\ flow.nodes[id].type # "end"
    /\ \E block \in {BlockFrom(flow, root, id)} :
         /\ Ragged \/ Sealed(flow, block, id)
         /\ \E s \in PlacesOn(root) : flow' = Move(flow, id, block, s)

DuplicateStep(root) ==
  /\ ~Full
  /\ \E id \in StepsOn(root) : \E s \in PlaceAfter(flow, root, id) :
       LET copy  == Insert(flow, s, NewId(flow), flow.nodes[id].type)
           exits == copy.nodes[NewId(flow)].exits
       IN flow' = IF flow.nodes[id].type # "choice" THEN copy
                  ELSE WithExits(copy, NewId(flow), [k \in DOMAIN flow.nodes[id].exits |-> exits[1]])

AddReply(root) ==
  \E id \in StepsOn(root) :
    /\ flow.nodes[id].type = "choice" /\ Cardinality(DOMAIN flow.nodes[id].exits) < 2
    /\ flow' = AddOption(flow, id, CarriesOn(flow, root, id))

RemoveReply(root) ==
  \E id \in StepsOn(root) : \E k \in DOMAIN flow.nodes[id].exits :
    /\ flow.nodes[id].type = "choice" /\ Cardinality(DOMAIN flow.nodes[id].exits) > 1
    /\ flow' = RemoveOption(flow, id, k)

QuickReplies(root) ==
  \E id \in StepsOn(root) :
    \/ flow.nodes[id].type = "message" /\ flow' = QuickRepliesOn(flow, id)
    \/ flow.nodes[id].type = "choice" /\ flow' = QuickRepliesOff(flow, id, CarriesOn(flow, root, id))

(* The paths tab: one answer, one way of a condition, or what a booking    *)
(* step does when it cannot run.                                           *)
PathExits(id) == CASE flow.nodes[id].type \in {"choice", "condition"} -> DOMAIN flow.nodes[id].exits
                   [] flow.nodes[id].type = "booking" -> {2}
                   [] OTHER -> {}

Main(root, id) == IF flow.nodes[id].type = "booking" THEN flow.nodes[id].exits[1]
            ELSE CarriesOn(flow, root, id)

GoTo(root) ==
  \E id \in StepsOn(root) : \E k \in PathExits(id), t \in StepsOn(root) \ {id} :
    /\ Loops \/ ~After(flow, t, id)
    /\ flow' = ChoosePath(flow, ExitSlot(id, {k}), t)

CarryOn(root) ==
  \E id \in StepsOn(root) : \E k \in PathExits(id) :
    flow' = ChoosePath(flow, ExitSlot(id, {k}), IF flow.nodes[id].type = "booking" THEN Nil ELSE Main(root, id))

PathOfItsOwn(root) ==
  /\ ~Full
  /\ \E id \in StepsOn(root) : \E k \in PathExits(id) :
       flow' = OwnPath(flow, ExitSlot(id, {k}), Main(root, id), NewId(flow))

(* Every edit starts from the tree on the canvas.  *)
Edit ==
  \E root \in {Canvas(flow)} :
    \/ InsertBlock(root) \/ InsertMeeting(root) \/ MoveStepTo(root) \/ DuplicateStep(root)
    \/ AddReply(root) \/ RemoveReply(root) \/ QuickReplies(root)
    \/ GoTo(root) \/ CarryOn(root) \/ PathOfItsOwn(root) \/ RemoveStep

Next == Edit /\ Splits(flow') <= MaxSplits

Spec == Init /\ [][Next]_flow

-----------------------------------------------------------------------------
TypeOK == IsFlow(flow)

(* Every exit leads to a step that is there, or openly nowhere, and every  *)
(* step can be reached: an edit leaves the conversation connected.         *)
Connected == WellConnected(flow)

(* What the edits take from the drawing is true of the conversation: a     *)
(* place is somewhere and leads one way, a block holds the step it is      *)
(* lifted by and leads on to its exit, answers carry on further down.      *)
BlockHolds(f, id, block) ==
  /\ id \in block.ids /\ block.ids \subseteq Ids(f) /\ block.closed \in BOOLEAN
  /\ block.exit \in (Ids(f) \ block.ids) \cup {Nil}
  /\ block.closed => block.exit = Nil
  /\ block.exit # Nil => \E m \in block.ids : Leads(f, m, block.exit)

DrawingHolds ==
  \E root \in {Canvas(flow)} :
    /\ \A s \in PlacesOn(root) : PlaceIn(flow, s)
    /\ StepsOn(root) \subseteq Ids(flow)
    /\ \A id \in StepsOn(root) :
         /\ BlockHolds(flow, id, BlockFrom(flow, root, id))
         /\ PlaceAfter(flow, root, id) \subseteq PlacesOn(root)
         /\ flow.nodes[id].type = "end" => PlaceAfter(flow, root, id) = {}
         /\ CarriesOn(flow, root, id) \in (Ids(flow) \ {id}) \cup {Nil}
         /\ CarriesOn(flow, root, id) # Nil => After(flow, id, CarriesOn(flow, root, id))

(* Nothing but "Go to" makes a conversation go round: without it, every    *)
(* set of steps has one that nothing in the set leads to.                  *)
NoLoops == Acyclic(flow)

(* Deleting a step that was just put in gives back the conversation there  *)
(* was: whatever place it was put in, no path is left different.           *)
DeleteUndoesInsert ==
  ~Full => \A s \in PlacesOn(Canvas(flow)), type \in Blocks :
             CanInsert(flow, s, type) =>
               Removed(Insert(flow, s, NewId(flow), type), NewId(flow)) = flow

(* A conversation the server lets be published comes to a step that waits  *)
(* for the visitor, or ends: no round of messages and conditions goes on   *)
(* by itself.                                                              *)
Speaks(n) == flow.nodes[n].type \in {"message", "condition"}
ValidFlowsPause ==
  Valid(flow) => \A S \in SUBSET {n \in Ids(flow) : Speaks(n)} :
                   S # {} => \E n \in S : \A m \in S : ~Leads(flow, n, m)
=============================================================================
