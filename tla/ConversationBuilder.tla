------------------------ MODULE ConversationBuilder ------------------------
(***************************************************************************)
(* The conversation builder open in several tabs (conversation-builder.tsx)*)
(* against the widget row it edits (ChatFlowController, and the widget     *)
(* list's Publish and Pause in ChatWidgetController).  A tab keeps its own *)
(* copy of the conversation with an undo history, asks the server for a    *)
(* verdict on it once the editor pauses, and saves or publishes it whole.  *)
(* The server reads the widget and writes it in two steps.                 *)
(*                                                                         *)
(* A conversation is a value: what an edit makes of one is FlowEditing.    *)
(***************************************************************************)
EXTENDS Integers, Sequences

CONSTANTS
  Editors,      \* tabs with the builder open
  Flows,        \* conversations
  Empty,        \* the one without steps
  Valid,        \* those ChatFlowValidator passes
  MaxPast,      \* changes that can be undone (50)
  Keep,         \* versions kept (ChatFlowVersion::KEEP)
  Careless,     \* the widget list publishes what is not valid, too
  Interleaved,  \* a write of the widget may start before the last is answered
  Hasty,        \* a tab edits while its save is under way
  Overtaken,    \* a verdict may be overtaken by a later one, or by a save
  MaxEdits,     \* bound: changes and undos; a redo takes one back
  MaxSaves,     \* bound: saves and restores
  MaxLost       \* bound: requests or answers lost

ASSUME BuilderAssumption ==
  /\ Empty \in Flows \ Valid /\ Valid \subseteq Flows
  /\ MaxPast \in Nat \ {0} /\ Keep \in Nat \ {0}
  /\ {Careless, Interleaved, Hasty, Overtaken} \subseteq BOOLEAN

VARIABLES
  tab,       \* per editor, the state of the component
  calls,     \* requests under way
  widget,    \* the row: the saved conversation and whether it is live
  versions,  \* earlier conversations, oldest first
  count      \* what the bounds count

vars == <<tab, calls, widget, versions, count>>

Statuses == {"draft", "active", "paused"}
Widget == [flow : Flows, status : Statuses]

(* The page as it is loaded.  *)
Opened(row) ==
  [flow |-> row.flow, past |-> <<>>, future |-> <<>>, base |-> row.flow, verdict |-> row.flow \in Valid,
   dirty |-> FALSE, typing |-> FALSE, due |-> FALSE, saving |-> FALSE, live |-> row.status = "active"]

Init ==
  /\ widget \in [flow : Flows, status : {"draft"}]
  /\ tab = [e \in Editors |-> Opened(widget)]
  /\ calls = {} /\ versions = <<>>
  /\ count = [edits |-> 0, saves |-> 0, lost |-> 0]

-----------------------------------------------------------------------------
(* The tab.  *)

Writes(e) == {r \in calls : r.by = e /\ r.kind # "check"}
Checks(e) == {r \in calls : r.by = e /\ r.kind = "check"}
Calm(e) == Hasty \/ Writes(e) = {}

(* The effect that checks a draft: its timer starts again with every       *)
(* change of the draft, and stops when nothing is unsaved.                 *)
FaultyRescheduledOnce(old, new) == [new EXCEPT !.due = new.dirty /\ (@ \/ ~old.dirty)]
Rescheduled(old, new) ==
  [new EXCEPT !.due = new.dirty /\ (@ \/ new.flow # old.flow \/ ~old.dirty)]

Become(e, new) == tab' = [tab EXCEPT ![e] = Rescheduled(tab[e], new)]

Counted(field) == count' = [count EXCEPT ![field] = @ + 1]

LastOf(s, n) == IF Len(s) > n THEN SubSeq(s, Len(s) - n + 1, Len(s)) ELSE s

(* apply: a change that merges with the one before adds no undo step.      *)
FaultyAppliedUnbounded(b, next, keyed, merge) ==
  LET changed == IF next = b.flow THEN b
                 ELSE [b EXCEPT !.flow = next, !.future = <<>>,
                                !.past = IF merge THEN @ ELSE Append(@, b.flow)]
  IN [changed EXCEPT !.dirty = TRUE, !.typing = keyed]
Applied(b, next, keyed, merge) ==
  LET changed == IF next = b.flow THEN b
                 ELSE [b EXCEPT !.flow = next, !.future = <<>>,
                                !.past = IF merge THEN @ ELSE Append(LastOf(@, MaxPast - 1), b.flow)]
  IN [changed EXCEPT !.dirty = TRUE, !.typing = keyed]

Edit(e) ==
  /\ Calm(e) /\ count.edits < MaxEdits
  /\ \E next \in Flows, keyed, merge \in BOOLEAN :
       /\ merge => keyed /\ tab[e].typing
       /\ Become(e, Applied(tab[e], next, keyed, merge))
  /\ Counted("edits")
  /\ UNCHANGED <<calls, widget, versions>>

Undo(e) ==
  /\ Calm(e) /\ count.edits < MaxEdits /\ tab[e].past # <<>>
  /\ LET b == tab[e]
     IN Become(e, [b EXCEPT !.flow = b.past[Len(b.past)], !.past = SubSeq(@, 1, Len(@) - 1),
                            !.future = <<b.flow>> \o @, !.dirty = TRUE, !.typing = FALSE])
  /\ Counted("edits")
  /\ UNCHANGED <<calls, widget, versions>>

Redo(e) ==
  /\ Calm(e) /\ tab[e].future # <<>>
  /\ LET b == tab[e]
     IN Become(e, [b EXCEPT !.flow = Head(b.future), !.future = Tail(@), !.past = Append(@, b.flow),
                            !.dirty = TRUE, !.typing = FALSE])
  /\ UNCHANGED <<calls, widget, versions, count>>

Call(e, kind, flow, publish) ==
  [by |-> e, kind |-> kind, flow |-> flow, publish |-> publish, stage |-> "out",
   row |-> [flow |-> Empty, status |-> "draft"]]

(* The timer runs out.  *)
Check(e) ==
  /\ tab[e].due /\ (Overtaken \/ Checks(e) = {})
  /\ tab' = [tab EXCEPT ![e].due = FALSE]
  /\ calls' = calls \cup {Call(e, "check", tab[e].flow, FALSE)}
  /\ UNCHANGED <<widget, versions, count>>

(* The Save button is there while the widget is not live, Publish while    *)
(* the verdict shown is good.                                              *)
Save(e, publish) ==
  /\ ~tab[e].saving /\ count.saves < MaxSaves
  /\ IF publish THEN tab[e].verdict ELSE ~tab[e].live
  /\ tab' = [tab EXCEPT ![e].saving = TRUE]
  /\ calls' = calls \cup {Call(e, "save", tab[e].flow, publish)}
  /\ Counted("saves")
  /\ UNCHANGED <<widget, versions>>

Restore(e) ==
  /\ Calm(e) /\ count.saves < MaxSaves
  /\ \E i \in 1..Len(versions) : calls' = calls \cup {Call(e, "restore", versions[i], FALSE)}
  /\ Counted("saves")
  /\ UNCHANGED <<tab, widget, versions>>

-----------------------------------------------------------------------------
(* The server.  *)

Alone == Interleaved \/ \A r \in calls : r.stage = "out"

Replace(r, new) == calls' = (calls \ {r}) \cup {new}

(* update and restoreVersion up to their refusals.  *)
FaultyMayWriteDraft(r, row) == r.publish => r.flow \in Valid
MayWrite(r, row) == r.publish \/ row.status = "active" => r.flow \in Valid
LoadWidget(r) ==
  /\ r.kind # "check" /\ r.stage = "out" /\ Alone
  /\ Replace(r, [r EXCEPT !.row = widget, !.stage = IF MayWrite(r, widget) THEN "loaded" ELSE "refused"])
  /\ UNCHANGED <<tab, widget, versions, count>>

(* keepVersion: what is replaced, unless it is empty or the newest kept.   *)
FaultyWithVersionOnce(kept, flow) ==
  IF flow = Empty \/ kept # <<>> THEN kept ELSE LastOf(Append(kept, flow), Keep)
WithVersion(kept, flow) ==
  IF flow = Empty \/ (kept # <<>> /\ kept[Len(kept)] = flow) THEN kept
  ELSE LastOf(Append(kept, flow), Keep)

(* The rest of them, from the row as it was loaded: the model writes only  *)
(* the columns that differ from it.                                        *)
WriteFlow(r) ==
  /\ r.stage = "loaded"
  /\ versions' = WithVersion(versions, r.row.flow)
  /\ widget' = [flow   |-> IF r.flow # r.row.flow THEN r.flow ELSE widget.flow,
                status |-> IF r.publish /\ r.row.status # "active" THEN "active" ELSE widget.status]
  /\ Replace(r, [r EXCEPT !.stage = "back"])
  /\ UNCHANGED <<tab, count>>

(* The widget list's button; nothing looks at the conversation.            *)
PublishFromList ==
  /\ Alone /\ widget.status # "active" /\ (Careless \/ widget.flow \in Valid)
  /\ widget' = [widget EXCEPT !.status = "active"]
  /\ UNCHANGED <<tab, calls, versions, count>>

PauseFromList ==
  /\ Alone /\ widget.status = "active"
  /\ widget' = [widget EXCEPT !.status = "paused"]
  /\ UNCHANGED <<tab, calls, versions, count>>

-----------------------------------------------------------------------------
(* Back in the tab.  *)

CheckAnswered(r) ==
  /\ r.kind = "check"
  /\ tab' = [tab EXCEPT ![r.by].verdict = r.flow \in Valid]
  /\ calls' = calls \ {r}
  /\ UNCHANGED <<widget, versions, count>>

(* The page's props are read anew after a save, and after a refusal: a     *)
(* conversation other than the last one sent down replaces the draft and   *)
(* its history.                                                            *)
FaultyReceivedHalf(b, row) ==
  [b EXCEPT !.base = row.flow, !.verdict = row.flow \in Valid, !.dirty = FALSE,
            !.live = row.status = "active"]
Received(b, row) ==
  [(IF row.flow = b.base THEN b
    ELSE [b EXCEPT !.flow = row.flow, !.base = row.flow, !.past = <<>>, !.future = <<>>,
                   !.verdict = row.flow \in Valid, !.dirty = FALSE])
   EXCEPT !.live = row.status = "active"]

SaveAnswered(r) ==
  /\ r.kind = "save" /\ r.stage \in {"back", "refused"} /\ (Overtaken \/ Checks(r.by) = {})
  /\ LET got == Received(tab[r.by], widget)
     IN Become(r.by, [got EXCEPT !.saving = FALSE, !.dirty = @ /\ r.stage = "refused"])
  /\ calls' = calls \ {r}
  /\ UNCHANGED <<widget, versions, count>>

RestoreAnswered(r) ==
  /\ r.kind = "restore" /\ r.stage \in {"back", "refused"} /\ (Overtaken \/ Checks(r.by) = {})
  /\ Become(r.by, Received(tab[r.by], widget))
  /\ calls' = calls \ {r}
  /\ UNCHANGED <<widget, versions, count>>

(* A request that fails on its way there or back.  *)
Lost(r) ==
  /\ r.stage # "loaded" /\ count.lost < MaxLost
  /\ tab' = [tab EXCEPT ![r.by].saving = @ /\ r.kind # "save"]
  /\ calls' = calls \ {r}
  /\ Counted("lost")
  /\ UNCHANGED <<widget, versions>>

-----------------------------------------------------------------------------
Answered(r) == CheckAnswered(r) \/ SaveAnswered(r) \/ RestoreAnswered(r)
Served(r) == LoadWidget(r) \/ WriteFlow(r)

Next ==
  \/ \E e \in Editors : \/ Edit(e) \/ Undo(e) \/ Redo(e) \/ Check(e) \/ Restore(e)
                        \/ \E publish \in BOOLEAN : Save(e, publish)
  \/ \E r \in calls : Served(r) \/ Answered(r) \/ Lost(r)
  \/ PublishFromList \/ PauseFromList

(* Timers run out, requests are served and answers are acted on; people    *)
(* and the network owe nothing.                                            *)
Fairness ==
  /\ \A e \in Editors : WF_vars(Check(e))
  /\ WF_vars(\E r \in calls : Served(r))
  /\ WF_vars(\E r \in calls : Answered(r))

Spec == Init /\ [][Next]_vars /\ Fairness

-----------------------------------------------------------------------------
Tab == [flow : Flows, past : Seq(Flows), future : Seq(Flows), base : Flows, verdict : BOOLEAN,
        dirty : BOOLEAN, typing : BOOLEAN, due : BOOLEAN, saving : BOOLEAN, live : BOOLEAN]

Request == [by : Editors, kind : {"check", "save", "restore"}, flow : Flows, publish : BOOLEAN,
            stage : {"out", "loaded", "refused", "back"}, row : Widget]

(* Types, and the bounds on what is remembered: undo and redo together     *)
(* never outgrow the history, and old versions are let go.                 *)
TypeOK ==
  /\ tab \in [Editors -> Tab]
  /\ \A e \in Editors : Len(tab[e].past) + Len(tab[e].future) <= MaxPast
  /\ calls \subseteq Request
  /\ widget \in Widget
  /\ versions \in Seq(Flows) /\ Len(versions) <= Keep

(* What visitors are given passes the validator, whatever is saved,        *)
(* restored, published and paused from however many tabs.                  *)
LiveFlowValid == widget.status = "active" => widget.flow \in Valid

(* "Every save keeps the conversation as it was": whatever replaces the    *)
(* saved conversation leaves it as the newest version.                     *)
ReplacedIsKept ==
  [][widget'.flow # widget.flow /\ widget.flow # Empty =>
       versions' # <<>> /\ versions'[Len(versions')] = widget.flow]_vars

(* A tab that does not say "Unsaved changes" shows what the server last    *)
(* sent it: nothing the editor did is only on the screen.                  *)
CleanIsSaved == \A e \in Editors : ~tab[e].dirty => tab[e].flow = tab[e].base

(* Once the editor pauses, the verdict shown is about the draft shown.     *)
VerdictSettles ==
  <>[](\A e \in Editors : tab[e].dirty => count.lost > 0 \/ tab[e].verdict = (tab[e].flow \in Valid))
=============================================================================
