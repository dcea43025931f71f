--------------------- MODULE ConversationBuilderProofs ---------------------
EXTENDS ConversationBuilder, SequenceTheorems, TLAPS

LEMMA LastOfProperties ==
  ASSUME NEW s \in Seq(Flows), NEW n \in Nat
  PROVE  /\ LastOf(s, n) \in Seq(Flows)
         /\ Len(LastOf(s, n)) <= n
         /\ n > 0 /\ s # <<>> => /\ LastOf(s, n) # <<>>
                                 /\ LastOf(s, n)[Len(LastOf(s, n))] = s[Len(s)]
  <1>1. CASE Len(s) <= n
    BY <1>1, LenProperties DEF LastOf
  <1>2. CASE Len(s) > n
    <2> DEFINE from == Len(s) - n + 1
    <2>1. Len(s) \in Nat /\ from \in 1..(Len(s) + 1)
      BY <1>2, LenProperties
    <2>2. /\ SubSeq(s, from, Len(s)) \in Seq(Flows)
          /\ Len(SubSeq(s, from, Len(s))) = IF from <= Len(s) THEN Len(s) - from + 1 ELSE 0
          /\ \A i \in 1..(Len(s) - from + 1) : SubSeq(s, from, Len(s))[i] = s[from + i - 1]
      BY <2>1, SubSeqProperties
    <2>3. Len(SubSeq(s, from, Len(s))) = n
      BY <2>1, <2>2
    <2>4. n > 0 => SubSeq(s, from, Len(s))[n] = s[Len(s)]
      BY <2>1, <2>2
    <2>5. LastOf(s, n) = SubSeq(s, from, Len(s))
      BY <1>2 DEF LastOf
    <2>6. n > 0 => SubSeq(s, from, Len(s)) # <<>>
      <3> SUFFICES ASSUME n > 0, SubSeq(s, from, Len(s)) = <<>> PROVE FALSE
        OBVIOUS
      <3>1. Len(SubSeq(s, from, Len(s))) = 0
        BY EmptySeq
      <3> QED BY <2>3, <3>1
    <2> QED BY <2>2, <2>3, <2>4, <2>5, <2>6
  <1> QED BY <1>1, <1>2, LenProperties

-----------------------------------------------------------------------------
(* Type correctness: one lemma per way a tab changes.                      *)

Fits(b) == b \in Tab /\ Len(b.past) + Len(b.future) <= MaxPast

LEMMA FieldsFit ==
  ASSUME NEW b \in Tab, NEW flow \in Flows, NEW past \in Seq(Flows), NEW future \in Seq(Flows),
         Len(past) + Len(future) <= MaxPast, NEW dirty \in BOOLEAN, NEW typing \in BOOLEAN
  PROVE  Fits([b EXCEPT !.flow = flow, !.past = past, !.future = future,
                        !.dirty = dirty, !.typing = typing])
  BY DEF Fits, Tab

LEMMA OpenedFits == \A row \in Widget : Fits(Opened(row))
  <1> SUFFICES ASSUME NEW row \in Widget PROVE Fits(Opened(row))
    OBVIOUS
  <1>1. <<>> \in Seq(Flows) /\ Len(<<>>) = 0
    BY EmptySeq
  <1> QED BY <1>1, BuilderAssumption DEF Opened, Fits, Tab, Widget

LEMMA RescheduledFits ==
  ASSUME NEW old \in Tab, NEW new, Fits(new)
  PROVE  Fits(Rescheduled(old, new))
  BY DEF Rescheduled, Fits, Tab

LEMMA AppliedFits ==
  ASSUME NEW b, Fits(b), NEW next \in Flows, NEW keyed \in BOOLEAN, NEW merge \in BOOLEAN
  PROVE  Fits(Applied(b, next, keyed, merge))
  <1> DEFINE short == LastOf(b.past, MaxPast - 1)
  <1>1. b.past \in Seq(Flows) /\ b.future \in Seq(Flows) /\ b.flow \in Flows
    BY DEF Fits, Tab
  <1>2. short \in Seq(Flows) /\ Len(short) <= MaxPast - 1
    BY <1>1, LastOfProperties, BuilderAssumption
  <1>3. Append(short, b.flow) \in Seq(Flows) /\ Len(Append(short, b.flow)) = Len(short) + 1
    BY <1>1, <1>2, AppendProperties
  <1>4. <<>> \in Seq(Flows) /\ Len(<<>>) = 0
    BY EmptySeq
  <1>5. Len(b.past) \in Nat /\ Len(b.future) \in Nat /\ Len(short) \in Nat
    BY <1>1, <1>2, LenProperties
  <1>6. CASE next = b.flow
    BY <1>6 DEF Applied, Fits, Tab
  <1>7. CASE next # b.flow /\ merge
    <2>1. Applied(b, next, keyed, merge) =
            [b EXCEPT !.flow = next, !.past = b.past, !.future = <<>>,
                      !.dirty = TRUE, !.typing = keyed]
      BY <1>7 DEF Applied, Fits, Tab
    <2>2. Len(b.past) + 0 <= MaxPast
      BY <1>5, BuilderAssumption DEF Fits, Tab
    <2>3. Len(b.past) + Len(<<>>) <= MaxPast
      BY ONLY <1>4, <2>2
    <2>4. Applied(b, next, keyed, merge) \in Tab
      BY <1>4, <2>1 DEF Fits, Tab
    <2> QED BY <2>1, <2>3, <2>4 DEF Fits, Tab
  <1>8. CASE next # b.flow /\ ~merge
    <2>1. Applied(b, next, keyed, merge) =
            [b EXCEPT !.flow = next, !.past = Append(short, b.flow), !.future = <<>>,
                      !.dirty = TRUE, !.typing = keyed]
      BY <1>8 DEF Applied, Fits, Tab
    <2>2. Len(Append(short, b.flow)) + 0 <= MaxPast
      BY <1>2, <1>3, <1>5, BuilderAssumption
    <2>3. Len(Append(short, b.flow)) + Len(<<>>) <= MaxPast
      BY ONLY <1>4, <2>2
    <2>4. Applied(b, next, keyed, merge) \in Tab
      BY <1>3, <1>4, <2>1 DEF Fits, Tab
    <2> QED BY <2>1, <2>3, <2>4 DEF Fits, Tab
  <1> QED BY <1>6, <1>7, <1>8

LEMMA UndoneFits ==
  ASSUME NEW b, Fits(b), b.past # <<>>
  PROVE  Fits([b EXCEPT !.flow = b.past[Len(b.past)], !.past = SubSeq(@, 1, Len(@) - 1),
                        !.future = <<b.flow>> \o @, !.dirty = TRUE, !.typing = FALSE])
  <1> DEFINE past == SubSeq(b.past, 1, Len(b.past) - 1)
             future == <<b.flow>> \o b.future
  <1>1. b.past \in Seq(Flows) /\ b.future \in Seq(Flows) /\ b.flow \in Flows
    BY DEF Fits, Tab
  <1>2. Len(b.past) \in Nat \ {0} /\ Len(b.future) \in Nat
    BY <1>1, LenProperties, EmptySeq
  <1>3. b.past[Len(b.past)] \in Flows
    BY <1>1, <1>2, ElementOfSeq
  <1>4. past \in Seq(Flows) /\ Len(past) = Len(b.past) - 1
    BY <1>1, <1>2, SubSeqProperties
  <1>5. future \in Seq(Flows) /\ Len(future) = Len(b.future) + 1
    <2>1. <<b.flow>> \in Seq(Flows) /\ Len(<<b.flow>>) = 1
      BY <1>1
    <2> QED BY <1>1, <1>2, <2>1, ConcatProperties
  <1>6. Len(past) + Len(future) <= MaxPast
    <2> HIDE DEF past, future
    <2> QED BY <1>2, <1>4, <1>5, BuilderAssumption DEF Fits, Tab
  <1>7. Fits([b EXCEPT !.flow = b.past[Len(b.past)], !.past = past, !.future = future,
                       !.dirty = TRUE, !.typing = FALSE])
    BY <1>3, <1>4, <1>5, <1>6, FieldsFit DEF Fits
  <1> QED BY <1>7

LEMMA RedoneFits ==
  ASSUME NEW b, Fits(b), b.future # <<>>
  PROVE  Fits([b EXCEPT !.flow = Head(b.future), !.future = Tail(@), !.past = Append(@, b.flow),
                        !.dirty = TRUE, !.typing = FALSE])
  <1>1. b.past \in Seq(Flows) /\ b.future \in Seq(Flows) /\ b.flow \in Flows
    BY DEF Fits, Tab
  <1>2. Len(b.past) \in Nat /\ Len(b.future) \in Nat \ {0}
    BY <1>1, LenProperties, EmptySeq
  <1>3. /\ Head(b.future) \in Flows
        /\ Tail(b.future) \in Seq(Flows) /\ Len(Tail(b.future)) = Len(b.future) - 1
    BY <1>1, HeadTailProperties
  <1>4. Append(b.past, b.flow) \in Seq(Flows) /\ Len(Append(b.past, b.flow)) = Len(b.past) + 1
    BY <1>1, AppendProperties
  <1>5. Len(Append(b.past, b.flow)) + Len(Tail(b.future)) <= MaxPast
    BY <1>2, <1>3, <1>4, BuilderAssumption DEF Fits, Tab
  <1>6. Fits([b EXCEPT !.flow = Head(b.future), !.past = Append(b.past, b.flow),
                       !.future = Tail(b.future), !.dirty = TRUE, !.typing = FALSE])
    BY <1>3, <1>4, <1>5, FieldsFit DEF Fits
  <1>7. [b EXCEPT !.flow = Head(b.future), !.future = Tail(b.future), !.past = Append(b.past, b.flow),
                  !.dirty = TRUE, !.typing = FALSE]
        = [b EXCEPT !.flow = Head(b.future), !.past = Append(b.past, b.flow),
                    !.future = Tail(b.future), !.dirty = TRUE, !.typing = FALSE]
    BY DEF Fits, Tab
  <1> QED BY <1>6, <1>7

LEMMA ReceivedFits ==
  ASSUME NEW b, Fits(b), NEW row \in Widget
  PROVE  Fits(Received(b, row))
  <1>1. <<>> \in Seq(Flows) /\ Len(<<>>) = 0
    BY EmptySeq
  <1>2. row.flow \in Flows /\ (row.flow \in Valid) \in BOOLEAN /\ (row.status = "active") \in BOOLEAN
    BY DEF Widget
  <1>3. CASE row.flow = b.base
    BY <1>2, <1>3 DEF Received, Fits, Tab
  <1>4. CASE row.flow # b.base
    <2>1. Received(b, row) =
            [b EXCEPT !.flow = row.flow, !.base = row.flow, !.past = <<>>, !.future = <<>>,
                      !.verdict = row.flow \in Valid, !.dirty = FALSE, !.live = row.status = "active"]
      BY <1>4 DEF Received, Fits, Tab
    <2>2. Received(b, row) \in Tab
      BY <1>1, <1>2, <2>1 DEF Fits, Tab
    <2>3. Received(b, row).past = <<>> /\ Received(b, row).future = <<>>
      BY <2>1 DEF Fits, Tab
    <2> QED BY <1>1, <2>2, <2>3, BuilderAssumption DEF Fits, Tab
  <1> QED BY <1>3, <1>4

LEMMA WithVersionProperties ==
  ASSUME NEW kept \in Seq(Flows), Len(kept) <= Keep, NEW flow \in Flows
  PROVE  /\ WithVersion(kept, flow) \in Seq(Flows)
         /\ Len(WithVersion(kept, flow)) <= Keep
         /\ flow # Empty => /\ WithVersion(kept, flow) # <<>>
                            /\ WithVersion(kept, flow)[Len(WithVersion(kept, flow))] = flow
  <1>1. /\ Append(kept, flow) \in Seq(Flows)
        /\ Append(kept, flow) # <<>>
        /\ Append(kept, flow)[Len(Append(kept, flow))] = flow
    BY AppendProperties, LenProperties
  <1>2. /\ LastOf(Append(kept, flow), Keep) \in Seq(Flows)
        /\ Len(LastOf(Append(kept, flow), Keep)) <= Keep
        /\ LastOf(Append(kept, flow), Keep) # <<>>
        /\ LastOf(Append(kept, flow), Keep)[Len(LastOf(Append(kept, flow), Keep))] = flow
    <2>1. Keep \in Nat /\ Keep > 0
      BY BuilderAssumption
    <2> HIDE DEF LastOf
    <2> QED BY <1>1, <2>1, LastOfProperties
  <1> QED BY <1>2 DEF WithVersion

LEMMA TabsFit == TypeOK => \A e \in Editors : Fits(tab[e])
  BY DEF TypeOK, Fits

\* A tab that fits keeps the types of all of them.
LEMMA TabsTyped ==
  ASSUME TypeOK, NEW e \in Editors, NEW b, Fits(b), tab' = [tab EXCEPT ![e] = b],
         calls' \subseteq Request, UNCHANGED <<widget, versions>>
  PROVE  TypeOK'
  <1>1. tab' \in [Editors -> Tab]
    BY DEF TypeOK, Fits
  <1>2. \A d \in Editors : Fits(tab'[d])
    BY TabsFit DEF TypeOK
  <1> QED BY <1>1, <1>2 DEF TypeOK, Fits

LEMMA BecomeTyped ==
  ASSUME TypeOK, NEW e \in Editors, NEW b, Fits(b), Become(e, b),
         calls' \subseteq Request, UNCHANGED <<widget, versions>>
  PROVE  TypeOK'
  <1>1. Fits(Rescheduled(tab[e], b))
    BY RescheduledFits DEF TypeOK
  <1> QED BY <1>1, TabsTyped DEF Become

LEMMA CallTyped ==
  \A e \in Editors, kind \in {"check", "save", "restore"}, flow \in Flows, publish \in BOOLEAN :
    Call(e, kind, flow, publish) \in Request
  BY BuilderAssumption DEF Call, Request, Widget, Statuses

LEMMA EditorTyped ==
  ASSUME TypeOK, NEW e \in Editors,
         \/ Edit(e) \/ Undo(e) \/ Redo(e) \/ Check(e) \/ Restore(e)
         \/ \E publish \in BOOLEAN : Save(e, publish)
  PROVE  TypeOK'
  <1>b. Fits(tab[e]) /\ tab[e] \in Tab /\ calls \subseteq Request
    BY TabsFit DEF Fits, TypeOK
  <1>1. CASE Edit(e)
    <2>1. PICK next \in Flows, keyed \in BOOLEAN, merge \in BOOLEAN :
            Become(e, Applied(tab[e], next, keyed, merge))
      BY <1>1 DEF Edit
    <2>2. Fits(Applied(tab[e], next, keyed, merge))
      BY <1>b, AppliedFits
    <2> QED BY <1>1, <1>b, <2>1, <2>2, BecomeTyped DEF Edit
  <1>2. CASE Undo(e)
    BY <1>2, <1>b, UndoneFits, BecomeTyped DEF Undo
  <1>3. CASE Redo(e)
    BY <1>3, <1>b, RedoneFits, BecomeTyped DEF Redo
  <1>4. CASE Check(e)
    <2>1. Fits([tab[e] EXCEPT !.due = FALSE])
      BY <1>b DEF Fits, Tab
    <2>2. tab' = [tab EXCEPT ![e] = [tab[e] EXCEPT !.due = FALSE]]
      BY <1>4 DEF Check
    <2>3. calls' \subseteq Request
      BY <1>4, <1>b, CallTyped DEF Check, Tab
    <2> QED BY <1>4, <2>1, <2>2, <2>3, TabsTyped DEF Check
  <1>5. CASE Restore(e)
    <2>1. calls' \subseteq Request
      <3>1. PICK i \in 1..Len(versions) : calls' = calls \cup {Call(e, "restore", versions[i], FALSE)}
        BY <1>5 DEF Restore
      <3>2. versions[i] \in Flows
        BY <3>1, ElementOfSeq DEF TypeOK
      <3> QED BY <1>b, <3>1, <3>2, CallTyped
    <2> QED BY <1>5, <2>1 DEF Restore, TypeOK
  <1>6. CASE \E publish \in BOOLEAN : Save(e, publish)
    <2>1. PICK publish \in BOOLEAN : Save(e, publish)
      BY <1>6
    <2>2. Fits([tab[e] EXCEPT !.saving = TRUE])
      BY <1>b DEF Fits, Tab
    <2>3. tab' = [tab EXCEPT ![e] = [tab[e] EXCEPT !.saving = TRUE]]
      BY <2>1 DEF Save
    <2>4. calls' \subseteq Request
      BY <2>1, <1>b, CallTyped DEF Save, Tab
    <2> QED BY <2>1, <2>2, <2>3, <2>4, TabsTyped DEF Save
  <1> QED BY <1>1, <1>2, <1>3, <1>4, <1>5, <1>6

LEMMA ServerTyped ==
  ASSUME TypeOK, NEW r \in calls, Served(r)
  PROVE  TypeOK'
  <1>r. r \in Request /\ calls \subseteq Request /\ widget \in Widget
    BY DEF TypeOK
  <1>1. CASE LoadWidget(r)
    <2>1. [r EXCEPT !.row = widget, !.stage = IF MayWrite(r, widget) THEN "loaded" ELSE "refused"]
            \in Request
      BY <1>r DEF Request
    <2> QED BY <1>1, <1>r, <2>1 DEF LoadWidget, Replace, TypeOK
  <1>2. CASE WriteFlow(r)
    <2>1. [r EXCEPT !.stage = "back"] \in Request
      BY <1>r DEF Request
    <2>2. widget' \in Widget
      BY <1>2, <1>r DEF WriteFlow, Widget, Request, Statuses
    <2>3. r.row.flow \in Flows
      BY <1>r DEF Request, Widget
    <2>4. versions' \in Seq(Flows) /\ Len(versions') <= Keep
      BY <1>2, <2>3, WithVersionProperties DEF WriteFlow, TypeOK
    <2> QED BY <1>2, <1>r, <2>1, <2>2, <2>4 DEF WriteFlow, Replace, TypeOK
  <1> QED BY <1>1, <1>2 DEF Served

LEMMA AnswerTyped ==
  ASSUME TypeOK, NEW r \in calls, Answered(r) \/ Lost(r)
  PROVE  TypeOK'
  <1>r. /\ r \in Request /\ r.by \in Editors /\ r.flow \in Flows
        /\ calls \ {r} \subseteq Request /\ widget \in Widget
    BY DEF TypeOK, Request
  <1>b. Fits(tab[r.by]) /\ tab[r.by] \in Tab
    BY <1>r, TabsFit DEF Fits
  <1>g. Fits(Received(tab[r.by], widget)) /\ Received(tab[r.by], widget) \in Tab
    BY <1>r, <1>b, ReceivedFits DEF Fits
  <1>1. CASE CheckAnswered(r)
    <2>1. Fits([tab[r.by] EXCEPT !.verdict = r.flow \in Valid])
      <3>1. (r.flow \in Valid) \in BOOLEAN
        OBVIOUS
      <3> QED BY <1>b, <3>1 DEF Fits, Tab
    <2>2. tab' = [tab EXCEPT ![r.by] = [tab[r.by] EXCEPT !.verdict = r.flow \in Valid]]
      BY <1>1 DEF CheckAnswered
    <2> QED BY <1>1, <1>r, <2>1, <2>2, TabsTyped DEF CheckAnswered
  <1>2. CASE SaveAnswered(r)
    <2> DEFINE got == Received(tab[r.by], widget)
               new == [got EXCEPT !.saving = FALSE, !.dirty = @ /\ r.stage = "refused"]
    <2>1. Fits(new)
      <3> HIDE DEF got
      <3>1. got \in Tab /\ Fits(got)
        BY <1>g DEF got
      <3>2. (got.dirty /\ r.stage = "refused") \in BOOLEAN
        OBVIOUS
      <3> QED BY <3>1, <3>2 DEF Fits, Tab
    <2>2. Become(r.by, new) /\ calls' = calls \ {r} /\ UNCHANGED <<widget, versions>>
      BY <1>2 DEF SaveAnswered
    <2> QED BY <1>r, <2>1, <2>2, BecomeTyped
  <1>3. CASE RestoreAnswered(r)
    BY <1>3, <1>r, <1>g, BecomeTyped DEF RestoreAnswered
  <1>4. CASE Lost(r)
    <2> DEFINE new == [tab[r.by] EXCEPT !.saving = @ /\ r.kind # "save"]
    <2>1. Fits(new)
      <3>1. (tab[r.by].saving /\ r.kind # "save") \in BOOLEAN
        OBVIOUS
      <3> QED BY <1>b, <3>1 DEF Fits, Tab
    <2>2. tab' = [tab EXCEPT ![r.by] = new]
      BY <1>4 DEF Lost
    <2> QED BY <1>4, <1>r, <2>1, <2>2, TabsTyped DEF Lost
  <1> QED BY <1>1, <1>2, <1>3, <1>4 DEF Answered

LEMMA ListTyped == TypeOK /\ (PublishFromList \/ PauseFromList) => TypeOK'
  BY DEF PublishFromList, PauseFromList, TypeOK, Widget, Statuses

LEMMA InitTyped == Init => TypeOK
  <1> SUFFICES ASSUME Init PROVE TypeOK
    OBVIOUS
  <1>1. widget \in Widget
    BY DEF Init, Widget, Statuses
  <1>2. \A e \in Editors : Fits(tab[e])
    BY <1>1, OpenedFits DEF Init
  <1>3. tab \in [Editors -> Tab]
    BY <1>1, OpenedFits DEF Init, Fits
  <1>4. versions \in Seq(Flows) /\ Len(versions) <= Keep
    BY EmptySeq, BuilderAssumption DEF Init
  <1> QED BY <1>1, <1>2, <1>3, <1>4 DEF Init, TypeOK, Fits

LEMMA NextTyped == TypeOK /\ [Next]_vars => TypeOK'
  <1> SUFFICES ASSUME TypeOK, [Next]_vars PROVE TypeOK'
    OBVIOUS
  <1>1. CASE UNCHANGED vars
    BY <1>1 DEF vars, TypeOK
  <1>2. CASE Next
    BY <1>2, EditorTyped, ServerTyped, AnswerTyped, ListTyped DEF Next
  <1> QED BY <1>1, <1>2

\* Whatever is done in however many tabs, every part of the state keeps its
\* type, undo and redo together never hold more than the history may
\* (apply's slice) and no more versions are kept than KEEP (keepVersion).
THEOREM HistoryBounded == Spec => []TypeOK
  BY InitTyped, NextTyped, PTL DEF Spec

-----------------------------------------------------------------------------
(* One write of the widget at a time.  A request that is past its checks   *)
(* then still knows the row as it is, which is all the checks need; with   *)
(* two at once a conversation saved as a draft goes live unchecked, and a  *)
(* saved one is replaced without a trace.                                  *)

Sole == \A r, s \in calls : r.stage # "out" /\ s.stage # "out" => r = s
LoadedFresh == \A r \in calls : r.stage = "loaded" => r.row = widget /\ MayWrite(r, r.row)
JustWritten == \A r \in calls : r.stage = "back" => widget.flow = r.flow

SerialInv == Sole /\ LoadedFresh /\ JustWritten /\ LiveFlowValid

Serial == ~Interleaved /\ ~Careless

\* Requests may come and go as long as the widget stays as it is.
LEMMA SameWidget ==
  ASSUME SerialInv, widget' = widget, \A r \in calls' : r \in calls \/ r.stage = "out"
  PROVE  SerialInv'
  BY DEF SerialInv, Sole, LoadedFresh, JustWritten, MayWrite, LiveFlowValid

LEMMA EditorSerial ==
  ASSUME SerialInv, NEW e \in Editors,
         \/ Edit(e) \/ Undo(e) \/ Redo(e) \/ Check(e) \/ Restore(e)
         \/ \E publish \in BOOLEAN : Save(e, publish)
  PROVE  SerialInv'
  <1>1. widget' = widget
    BY DEF Edit, Undo, Redo, Check, Restore, Save
  <1>2. \A r \in calls' : r \in calls \/ r.stage = "out"
    BY DEF Edit, Undo, Redo, Check, Restore, Save, Call
  <1> QED BY <1>1, <1>2, SameWidget

LEMMA AnswerSerial ==
  ASSUME SerialInv, NEW r \in calls, Answered(r) \/ Lost(r)
  PROVE  SerialInv'
  <1>1. widget' = widget /\ calls' = calls \ {r}
    BY DEF Answered, CheckAnswered, SaveAnswered, RestoreAnswered, Lost
  <1> QED BY <1>1, SameWidget

LEMMA LoadSerial ==
  ASSUME Serial, TypeOK, SerialInv, NEW r \in calls, LoadWidget(r)
  PROVE  SerialInv'
  <1>0. PICK new : new = [r EXCEPT !.row = widget,
                            !.stage = IF MayWrite(r, widget) THEN "loaded" ELSE "refused"]
    OBVIOUS
  <1>1. calls' = (calls \ {r}) \cup {new} /\ widget' = widget
    BY <1>0 DEF LoadWidget, Replace
  <1>2. \A s \in calls : s.stage = "out"
    BY DEF LoadWidget, Alone, Serial
  <1>3. /\ new.row = widget /\ new.flow = r.flow /\ new.publish = r.publish
        /\ new.stage = IF MayWrite(r, widget) THEN "loaded" ELSE "refused"
    BY <1>0 DEF TypeOK, Request
  <1>4. Sole'
    BY <1>1, <1>2 DEF Sole
  <1>5. LoadedFresh' /\ JustWritten'
    <2>1. MayWrite(new, widget) <=> MayWrite(r, widget)
      BY <1>3 DEF MayWrite
    <2>2. new.stage = "loaded" => new.row = widget /\ MayWrite(new, new.row)
      BY <1>3, <2>1
    <2>3. new.stage # "back"
      BY <1>3
    <2>4. \A s \in calls' : s = new \/ s.stage = "out"
      BY <1>1, <1>2
    <2>5. LoadedFresh'
      BY <1>1, <2>2, <2>4 DEF LoadedFresh
    <2> QED BY <2>3, <2>4, <2>5 DEF JustWritten
  <1> QED BY <1>1, <1>4, <1>5 DEF SerialInv, LiveFlowValid

LEMMA WriteSerial ==
  ASSUME TypeOK, SerialInv, NEW r \in calls, WriteFlow(r)
  PROVE  SerialInv'
  <1> DEFINE new == [r EXCEPT !.stage = "back"]
  <1>1. calls' = (calls \ {r}) \cup {new} /\ r.stage = "loaded"
    BY DEF WriteFlow, Replace
  <1>2. \A s \in calls \ {r} : s.stage = "out"
    BY <1>1 DEF SerialInv, Sole
  <1>3. r.row = widget /\ MayWrite(r, widget)
    BY <1>1 DEF SerialInv, LoadedFresh
  <1>4. new.flow = r.flow /\ new.stage = "back"
    BY DEF TypeOK, Request
  <1>5. /\ widget'.flow = r.flow
        /\ widget'.status = "active" => r.publish \/ widget.status = "active"
    BY <1>3 DEF WriteFlow
  <1>6. Sole' /\ LoadedFresh' /\ JustWritten'
    BY <1>1, <1>2, <1>4, <1>5 DEF Sole, LoadedFresh, JustWritten
  <1>7. LiveFlowValid'
    BY <1>3, <1>5 DEF LiveFlowValid, MayWrite
  <1> QED BY <1>6, <1>7 DEF SerialInv

LEMMA ListSerial ==
  ASSUME Serial, TypeOK, SerialInv, PublishFromList \/ PauseFromList
  PROVE  SerialInv'
  <1>1. calls' = calls /\ \A r \in calls : r.stage = "out"
    BY DEF PublishFromList, PauseFromList, Alone, Serial
  <1>2. widget' \in Widget /\ LiveFlowValid'
    BY DEF PublishFromList, PauseFromList, Serial, SerialInv, LiveFlowValid, TypeOK, Widget, Statuses
  <1> QED BY <1>1, <1>2 DEF SerialInv, Sole, LoadedFresh, JustWritten

LEMMA NextSerial == Serial /\ TypeOK /\ SerialInv /\ [Next]_vars => SerialInv'
  <1> SUFFICES ASSUME Serial, TypeOK, SerialInv, [Next]_vars PROVE SerialInv'
    OBVIOUS
  <1>1. CASE UNCHANGED vars
    BY <1>1, SameWidget DEF vars
  <1>2. ASSUME NEW r \in calls, Served(r) PROVE SerialInv'
    BY <1>2, LoadSerial, WriteSerial DEF Served
  <1>3. CASE Next
    BY <1>2, <1>3, EditorSerial, AnswerSerial, ListSerial DEF Next
  <1> QED BY <1>1, <1>3

LEMMA InitSerial == Init => SerialInv
  <1> SUFFICES ASSUME Init PROVE SerialInv
    OBVIOUS
  <1>1. widget.status = "draft" /\ calls = {}
    BY DEF Init
  <1> QED BY <1>1 DEF SerialInv, Sole, LoadedFresh, JustWritten, LiveFlowValid

\* Where writes of the widget do not overlap and the widget list is not used
\* to publish what the validator would refuse, no order of saves, publishes,
\* restores and pauses from any tabs gives visitors a conversation it does
\* not pass (ChatFlowController::update, restoreVersion).
THEOREM LiveConversationsValid ==
  ASSUME Serial
  PROVE  Spec => []LiveFlowValid
  <1>1. Init => TypeOK /\ SerialInv
    BY InitTyped, InitSerial
  <1>2. TypeOK /\ SerialInv /\ [Next]_vars => (TypeOK /\ SerialInv)'
    BY NextTyped, NextSerial
  <1>3. SerialInv => LiveFlowValid
    BY DEF SerialInv
  <1> QED BY <1>1, <1>2, <1>3, PTL DEF Spec

\* There, too, the newest version is always what a save or a restore just
\* replaced, however often versions are skipped as unchanged or let go
\* (keepVersion).
THEOREM NothingReplacedUnkept ==
  ASSUME Serial
  PROVE  Spec => ReplacedIsKept
  <1> DEFINE Kept == widget'.flow # widget.flow /\ widget.flow # Empty =>
                       versions' # <<>> /\ versions'[Len(versions')] = widget.flow
  <1>1. Init => TypeOK /\ SerialInv
    BY InitTyped, InitSerial
  <1>2. TypeOK /\ SerialInv /\ [Next]_vars => (TypeOK /\ SerialInv)'
    BY NextTyped, NextSerial
  <1>3. TypeOK /\ SerialInv /\ [Next]_vars => [Kept]_vars
    <2> SUFFICES ASSUME TypeOK, SerialInv, Next, widget'.flow # widget.flow, widget.flow # Empty
                 PROVE  versions' # <<>> /\ versions'[Len(versions')] = widget.flow
      OBVIOUS
    <2>1. PICK r \in calls : WriteFlow(r)
      <3>1. ~(PublishFromList \/ PauseFromList)
        BY DEF PublishFromList, PauseFromList, TypeOK, Widget
      <3>2. \A e \in Editors : ~(\/ Edit(e) \/ Undo(e) \/ Redo(e) \/ Check(e) \/ Restore(e)
                                 \/ \E publish \in BOOLEAN : Save(e, publish))
        BY DEF Edit, Undo, Redo, Check, Restore, Save
      <3>3. \A r \in calls : ~(Answered(r) \/ Lost(r) \/ LoadWidget(r))
        BY DEF Answered, CheckAnswered, SaveAnswered, RestoreAnswered, Lost, LoadWidget
      <3> QED BY <3>1, <3>2, <3>3 DEF Next, Served
    <2>2. r.row.flow = widget.flow
      BY <2>1 DEF WriteFlow, SerialInv, LoadedFresh
    <2>3. versions' = WithVersion(versions, widget.flow)
      BY <2>1, <2>2 DEF WriteFlow
    <2>4. versions \in Seq(Flows) /\ Len(versions) <= Keep /\ widget.flow \in Flows
      BY DEF TypeOK, Widget
    <2> QED BY <2>3, <2>4, WithVersionProperties
  <1> QED BY <1>1, <1>2, <1>3, PTL DEF Spec, ReplacedIsKept

-----------------------------------------------------------------------------
(* What a tab does not mark as unsaved is what the server sent it.  While  *)
(* a save is out the draft is the one being saved, or the server has       *)
(* replaced it since: an answer that clears the mark finds nothing else.   *)

Sent == \A r \in calls : r.kind = "save" =>
          r.flow = tab[r.by].flow \/ tab[r.by].flow = tab[r.by].base

CleanInv == CleanIsSaved /\ Sent

Patient == Serial /\ ~Hasty

LEMMA RescheduledKeeps ==
  ASSUME NEW old, NEW new \in Tab
  PROVE  LET res == Rescheduled(old, new)
         IN res.flow = new.flow /\ res.base = new.base /\ res.dirty = new.dirty
  BY DEF Rescheduled, Tab

\* The saves that are out are of other tabs, or of this one as it was or is.
SavesOf(e, b) == \A r \in calls' : r.kind = "save" =>
                   \/ r \in calls /\ r.by # e
                   \/ r.by = e /\ (r.flow = b.flow \/ b.flow = b.base)

\* A tab changes, and no save that is out minds.
LEMMA TabClean ==
  ASSUME TypeOK, CleanInv, NEW e \in Editors, NEW b, tab' = [tab EXCEPT ![e] = b],
         ~b.dirty => b.flow = b.base, SavesOf(e, b)
  PROVE  CleanInv'
  <1>1. tab'[e] = b /\ \A d \in Editors \ {e} : tab'[d] = tab[d]
    BY DEF TypeOK
  <1>2. CleanIsSaved'
    BY <1>1 DEF CleanInv, CleanIsSaved
  <1>3. \A r \in calls : r.by \in Editors
    BY DEF TypeOK, Request
  <1>4. Sent'
    BY <1>1, <1>3 DEF CleanInv, Sent, SavesOf
  <1> QED BY <1>2, <1>4 DEF CleanInv

LEMMA EditClean ==
  ASSUME Patient, TypeOK, CleanInv, NEW e \in Editors, Edit(e) \/ Undo(e) \/ Redo(e)
  PROVE  CleanInv'
  <1>b. Fits(tab[e]) /\ tab[e] \in Tab
    BY TabsFit DEF Fits
  <1>1. PICK b : Fits(b) /\ b.dirty /\ Become(e, b)
    <2>1. CASE Edit(e)
      <3>1. PICK next \in Flows, keyed \in BOOLEAN, merge \in BOOLEAN :
              Become(e, Applied(tab[e], next, keyed, merge))
        BY <2>1 DEF Edit
      <3>2. Fits(Applied(tab[e], next, keyed, merge))
        BY <1>b, AppliedFits
      <3>3. Applied(tab[e], next, keyed, merge).dirty
        BY <1>b, <3>2 DEF Applied, Fits, Tab
      <3> QED BY <3>1, <3>2, <3>3
    <2>2. CASE Undo(e)
      BY <1>b, <2>2, UndoneFits DEF Undo, Fits, Tab
    <2>3. CASE Redo(e)
      BY <1>b, <2>3, RedoneFits DEF Redo, Fits, Tab
    <2> QED BY <2>1, <2>2, <2>3
  <1>2. tab' = [tab EXCEPT ![e] = Rescheduled(tab[e], b)] /\ Rescheduled(tab[e], b).dirty
    BY <1>1, RescheduledKeeps DEF Become, Fits
  <1>3. calls' = calls /\ Writes(e) = {}
    BY DEF Edit, Undo, Redo, Calm, Patient
  <1>4. SavesOf(e, Rescheduled(tab[e], b))
    BY <1>3 DEF Writes, SavesOf
  <1> QED BY <1>2, <1>4, TabClean

LEMMA RequestClean ==
  ASSUME TypeOK, CleanInv, NEW e \in Editors,
         Check(e) \/ Restore(e) \/ \E publish \in BOOLEAN : Save(e, publish)
  PROVE  CleanInv'
  <1>1. \A d \in Editors : /\ tab'[d].flow = tab[d].flow /\ tab'[d].base = tab[d].base
                           /\ tab'[d].dirty = tab[d].dirty
    <2>1. \A d \in Editors : tab[d] \in Tab
      BY DEF TypeOK
    <2>2. CASE Check(e)
      BY <2>1, <2>2 DEF Check, TypeOK, Tab
    <2>3. CASE Restore(e)
      BY <2>3 DEF Restore
    <2>4. CASE \E publish \in BOOLEAN : Save(e, publish)
      BY <2>1, <2>4 DEF Save, TypeOK, Tab
    <2> QED BY <2>2, <2>3, <2>4
  <1>2. \A r \in calls' : r \in calls \/ r.kind # "save" \/ (r.by = e /\ r.flow = tab[e].flow)
    BY DEF Check, Restore, Save, Call
  <1>3. \A r \in calls : r.by \in Editors
    BY DEF TypeOK, Request
  <1> QED BY <1>1, <1>2, <1>3 DEF CleanInv, CleanIsSaved, Sent

LEMMA ServerClean ==
  ASSUME TypeOK, CleanInv, NEW r \in calls, Served(r)
  PROVE  CleanInv'
  <1>1. tab' = tab
    BY DEF Served, LoadWidget, WriteFlow
  <1>2. \A s \in calls' : \/ s \in calls
                          \/ s.kind = r.kind /\ s.flow = r.flow /\ s.by = r.by
    <2>1. PICK new : /\ calls' = (calls \ {r}) \cup {new}
                     /\ new.kind = r.kind /\ new.flow = r.flow /\ new.by = r.by
      <3>r. r \in Request
        BY DEF TypeOK
      <3>1. CASE LoadWidget(r)
        <4> DEFINE n == [r EXCEPT !.row = widget,
                                  !.stage = IF MayWrite(r, widget) THEN "loaded" ELSE "refused"]
        <4>1. calls' = (calls \ {r}) \cup {n}
          BY <3>1 DEF LoadWidget, Replace
        <4>2. n.kind = r.kind /\ n.flow = r.flow /\ n.by = r.by
          BY <3>r DEF Request
        <4> HIDE DEF n
        <4> QED BY <4>1, <4>2
      <3>2. CASE WriteFlow(r)
        <4> DEFINE n == [r EXCEPT !.stage = "back"]
        <4>1. calls' = (calls \ {r}) \cup {n}
          BY <3>2 DEF WriteFlow, Replace
        <4>2. n.kind = r.kind /\ n.flow = r.flow /\ n.by = r.by
          BY <3>r DEF Request
        <4> HIDE DEF n
        <4> QED BY <4>1, <4>2
      <3> QED BY <3>1, <3>2 DEF Served
    <2> QED BY <2>1
  <1> QED BY <1>1, <1>2 DEF CleanInv, CleanIsSaved, Sent

LEMMA AnswerClean ==
  ASSUME TypeOK, SerialInv, CleanInv, NEW r \in calls, Answered(r) \/ Lost(r)
  PROVE  CleanInv'
  <1>r. r \in Request /\ r.by \in Editors /\ widget \in Widget /\ \A s \in calls : s.by \in Editors
    BY DEF TypeOK, Request
  <1>b. tab[r.by] \in Tab /\ Fits(tab[r.by])
    BY <1>r, TabsFit DEF Fits
  <1>c. calls' = calls \ {r}
    BY DEF Answered, CheckAnswered, SaveAnswered, RestoreAnswered, Lost
  <1>s. \A s \in calls : s.kind = "save" /\ s.by = r.by =>
          s.flow = tab[r.by].flow \/ tab[r.by].flow = tab[r.by].base
    BY DEF CleanInv, Sent
  <1>d. ~tab[r.by].dirty => tab[r.by].flow = tab[r.by].base
    BY <1>r DEF CleanInv, CleanIsSaved
  <1>1. CASE CheckAnswered(r) \/ Lost(r)
    <2>1. PICK b : /\ tab' = [tab EXCEPT ![r.by] = b]
                   /\ b.flow = tab[r.by].flow /\ b.base = tab[r.by].base /\ b.dirty = tab[r.by].dirty
      BY <1>1, <1>b DEF CheckAnswered, Lost, Tab
    <2>2. SavesOf(r.by, b)
      BY <1>c, <1>s, <2>1 DEF SavesOf
    <2>3. ~b.dirty => b.flow = b.base
      BY <1>d, <2>1
    <2> QED BY <1>r, <2>1, <2>2, <2>3, TabClean
  <1>2. CASE SaveAnswered(r) \/ RestoreAnswered(r)
    <2>1. PICK got : got = Received(tab[r.by], widget)
      OBVIOUS
    <2>2. got \in Tab
      BY <1>b, <1>r, <2>1, ReceivedFits DEF Fits
    <2>3. \/ got.flow = got.base
          \/ /\ widget.flow = tab[r.by].base
             /\ got.flow = tab[r.by].flow /\ got.base = tab[r.by].base /\ got.dirty = tab[r.by].dirty
      <3>1. CASE widget.flow = tab[r.by].base
        BY <1>b, <2>1, <3>1 DEF Received, Tab
      <3>2. CASE widget.flow # tab[r.by].base
        BY <1>b, <2>1, <3>2 DEF Received, Tab
      <3> QED BY <3>1, <3>2
    <2>4. PICK b \in Tab : /\ Become(r.by, b) /\ b.flow = got.flow /\ b.base = got.base
                           /\ b.dirty = got.dirty \/ (r.kind = "save" /\ r.stage = "back")
      <3>1. CASE RestoreAnswered(r)
        BY <2>1, <2>2, <3>1 DEF RestoreAnswered
      <3>2. CASE SaveAnswered(r)
        <4>1. PICK b : b = [got EXCEPT !.saving = FALSE, !.dirty = @ /\ r.stage = "refused"]
          OBVIOUS
        <4>2. Become(r.by, b) /\ r.kind = "save" /\ r.stage \in {"back", "refused"}
          BY <2>1, <3>2, <4>1 DEF SaveAnswered
        <4>3. /\ b \in Tab /\ b.flow = got.flow /\ b.base = got.base
              /\ b.dirty = (got.dirty /\ r.stage = "refused")
          <5>1. (got.dirty /\ r.stage = "refused") \in BOOLEAN
            OBVIOUS
          <5> QED BY <2>2, <4>1, <5>1 DEF Tab
        <4>4. r.stage = "refused" => b.dirty = got.dirty
          BY <2>2, <4>3 DEF Tab
        <4> QED BY <4>2, <4>3, <4>4
      <3> QED BY <1>2, <3>1, <3>2
    <2>5. ~b.dirty => b.flow = b.base
      <3>1. CASE got.flow = got.base
        BY <2>4, <3>1
      <3>2. CASE r.kind = "save" /\ r.stage = "back" /\ got.flow # got.base
        <4>1. widget.flow = r.flow
          BY <3>2 DEF SerialInv, JustWritten
        <4>2. r.flow = tab[r.by].flow \/ tab[r.by].flow = tab[r.by].base
          BY <1>s, <3>2
        <4> QED BY <2>3, <3>2, <4>1, <4>2
      <3>3. CASE got.flow # got.base /\ b.dirty = got.dirty
        BY <1>d, <2>3, <2>4, <3>3
      <3> QED BY <2>4, <3>1, <3>2, <3>3
    <2>6. \A s \in calls' : s.kind = "save" /\ s.by = r.by => s.flow = b.flow \/ b.flow = b.base
      BY <1>c, <1>s, <2>3, <2>4
    <2>7. PICK new : /\ tab' = [tab EXCEPT ![r.by] = new]
                     /\ new.flow = b.flow /\ new.base = b.base /\ new.dirty = b.dirty
      BY <2>4, RescheduledKeeps DEF Become
    <2>8. SavesOf(r.by, new)
      BY <1>c, <2>6, <2>7 DEF SavesOf
    <2>9. ~new.dirty => new.flow = new.base
      BY <2>5, <2>7
    <2> QED BY <1>r, <2>7, <2>8, <2>9, TabClean
  <1> QED BY <1>1, <1>2 DEF Answered

LEMMA NextClean == Patient /\ TypeOK /\ SerialInv /\ CleanInv /\ [Next]_vars => CleanInv'
  <1> SUFFICES ASSUME Patient, TypeOK, SerialInv, CleanInv, [Next]_vars PROVE CleanInv'
    OBVIOUS
  <1>1. CASE UNCHANGED vars
    BY <1>1 DEF vars, CleanInv, CleanIsSaved, Sent
  <1>2. CASE PublishFromList \/ PauseFromList
    BY <1>2 DEF PublishFromList, PauseFromList, CleanInv, CleanIsSaved, Sent
  <1>3. CASE Next
    BY <1>2, <1>3, EditClean, RequestClean, ServerClean, AnswerClean DEF Next
  <1> QED BY <1>1, <1>3

LEMMA InitClean == Init => CleanInv
  BY DEF Init, Opened, CleanInv, CleanIsSaved, Sent

\* A tab that leaves its draft alone while a save or a restore is out never
\* drops "Unsaved changes" (onSuccess of save, the effect that takes the
\* saved conversation from the page) with work only on its screen.
THEOREM UnsavedWorkIsMarked ==
  ASSUME Patient
  PROVE  Spec => []CleanIsSaved
  <1>1. Init => TypeOK /\ SerialInv /\ CleanInv
    BY InitTyped, InitSerial, InitClean
  <1>2. TypeOK /\ SerialInv /\ CleanInv /\ [Next]_vars => (TypeOK /\ SerialInv /\ CleanInv)'
    BY NextTyped, NextSerial, NextClean DEF Patient
  <1>3. CleanInv => CleanIsSaved
    BY DEF CleanInv
  <1> QED BY <1>1, <1>2, <1>3, PTL DEF Spec
=============================================================================
