------------------------------- MODULE UIPart -------------------------------
(***************************************************************************)
(* What a tool shows: the sections each tool of presentation_tools.go, and *)
(* each helper of ui_stream.go, streams for its parameters, in order.      *)
(*                                                                         *)
(* Parameters are a record of the fields that are present and of the       *)
(* right type; a list is a sequence.  A section's data is a single value,  *)
(* or the whole of a list.                                                 *)
(***************************************************************************)
EXTENDS Naturals, Sequences, SequencesExt, FiniteSets

CONSTANTS BatchSize      \* rows of a table that go into one section: 10

Datum(kind, items)     == [kind |-> kind, items |-> items]
Section(section, data) == [section |-> section, data |-> data]

Field(p, field, section) ==
  IF field \in DOMAIN p THEN <<Section(section, Datum("single", <<p[field]>>))>> ELSE <<>>
Each(p, field, section) ==
  IF field \in DOMAIN p THEN [i \in DOMAIN p[field] |-> Section(section, Datum("single", <<p[field][i]>>))] ELSE <<>>
Whole(p, field, section) ==
  IF field \in DOMAIN p THEN <<Section(section, Datum("list", p[field]))>> ELSE <<>>
(* A list that is empty is not shown. *)
Some(p, field, section) ==
  IF field \in DOMAIN p /\ p[field] # <<>> THEN Whole(p, field, section) ELSE <<>>

Batches(p, field, section) ==
  LET rows == IF field \in DOMAIN p THEN p[field] ELSE <<>>
      first(i) == (i - 1) * BatchSize + 1
      end(i)   == IF i * BatchSize > Len(rows) THEN Len(rows) ELSE i * BatchSize
  IN [i \in 1..((Len(rows) + BatchSize - 1) \div BatchSize) |->
        Section(section, Datum("list", SubSeq(rows, first(i), end(i))))]

(* The options that are present go out together. *)
Metadata(p, options) ==
  LET present == SelectSeq(options, LAMBDA o : o \in DOMAIN p)
  IN IF present = <<>> THEN <<>> ELSE <<Section("metadata", Datum("list", present))>>

renderTableUI(p) ==
  Field(p, "title", "title") \o Field(p, "headers", "header")
    \o Batches(p, "rows", "rows") \o Metadata(p, <<"options">>)

renderChartUI(p) ==
  Field(p, "title", "title") \o Field(p, "type", "chartType")
    \o <<Section("data", Datum("single", <<"chart">>))>> \o Metadata(p, <<"options">>)

renderMetricsUI(p) ==
  Field(p, "title", "title") \o Each(p, "metrics", "metrics") \o Metadata(p, <<"layout", "columns">>)

renderTimelineUI(p) ==
  Field(p, "title", "title") \o Each(p, "events", "events") \o Metadata(p, <<"orientation">>)

renderKanbanUI(p) ==
  Field(p, "title", "title") \o Each(p, "columns", "columns") \o Metadata(p, <<"draggable">>)

renderButtonsUI(p) ==
  Field(p, "title", "title") \o Whole(p, "buttons", "buttons") \o Metadata(p, <<"layout">>)

renderFormUI(p) ==
  Field(p, "id", "id") \o Field(p, "title", "title") \o Field(p, "description", "description")
    \o Each(p, "fields", "fields") \o <<Section("actions", Datum("list", <<"submit">>))>>

renderCardUI(p) ==
  Field(p, "title", "title") \o Field(p, "subtitle", "subtitle") \o Field(p, "content", "content")
    \o Field(p, "icon", "icon") \o Field(p, "image", "image") \o Field(p, "footer", "footer")
    \o Some(p, "actions", "actions")

renderStatsUI(p) ==
  Field(p, "title", "title") \o Whole(p, "stats", "stats") \o Metadata(p, <<"layout">>)

renderGalleryUI(p) ==
  Field(p, "title", "title") \o Whole(p, "items", "items") \o Metadata(p, <<"layout", "columns">>)

renderAlertUI(p) ==
  Field(p, "title", "title") \o Field(p, "message", "content") \o Field(p, "type", "alertType")
    \o Metadata(p, <<"dismissible">>) \o Some(p, "actions", "actions")

renderProgressUI(p) ==
  Field(p, "label", "label") \o <<Section("value", Datum("single", <<"value">>))>>
    \o Metadata(p, <<"max", "showPercentage", "variant">>)

(* PresentationTools: the part a tool prefers and what it streams. *)
Parts == {"table", "chart", "metric", "timeline", "kanban", "button_group", "form",
          "card", "stats", "gallery", "alert", "progress"}
Rendered(type, p) ==
  CASE type = "table"        -> renderTableUI(p)
    [] type = "chart"        -> renderChartUI(p)
    [] type = "metric"       -> renderMetricsUI(p)
    [] type = "timeline"     -> renderTimelineUI(p)
    [] type = "kanban"       -> renderKanbanUI(p)
    [] type = "button_group" -> renderButtonsUI(p)
    [] type = "form"         -> renderFormUI(p)
    [] type = "card"         -> renderCardUI(p)
    [] type = "stats"        -> renderStatsUI(p)
    [] type = "gallery"      -> renderGalleryUI(p)
    [] type = "alert"        -> renderAlertUI(p)
    [] type = "progress"     -> renderProgressUI(p)

-----------------------------------------------------------------------------
(* accumulateSection: what the streamer keeps of the sections. *)
Arrays == {"rows", "items", "columns", "cards", "events", "metrics", "buttons", "fields"}

accumulateSection(acc, s) ==
  [x \in DOMAIN acc \union {s.section} |->
     IF x # s.section THEN acc[x]
     ELSE IF x \in Arrays /\ x \in DOMAIN acc THEN Append(acc[x], s.data)
     ELSE <<s.data>>]

Accumulated(sections) ==
  FoldLeft(accumulateSection, [x \in {} |-> <<>>], sections)

(* The part that is built from it: the section that holds the part's list, *)
(* of which only the single values can be read, and the values it takes    *)
(* over; a part of any other type keeps everything.                        *)
ListOf(type) ==
  CASE type = "table"        -> "rows"
    [] type = "metric"       -> "metrics"
    [] type = "timeline"     -> "events"
    [] type = "kanban"       -> "columns"
    [] type = "button_group" -> "buttons"
    [] type = "form"         -> "fields"
    [] OTHER -> "nothing"

Taken(type) ==
  CASE type = "table" -> {"title", "header"}
    [] type = "chart" -> {"title", "chartType", "data"}
    [] type = "form"  -> {"id", "title", "description"}
    [] type = "card"  -> {"title", "subtitle", "description", "icon", "footer"}
    [] OTHER -> {"title"}

BuildFinalPart(type, acc) ==
  LET single == IF ListOf(type) \in DOMAIN acc
                THEN SelectSeq(acc[ListOf(type)], LAMBDA d : d.kind = "single") ELSE <<>>
  IN IF type \in {"stats", "gallery", "alert", "progress"}
     THEN [items |-> <<>>, values |-> acc]
     ELSE [items  |-> [i \in DOMAIN single |-> single[i].items[1]],
           values |-> [x \in DOMAIN acc \intersect Taken(type) |-> acc[x]]]
---------------------------------------------------------------------------
(***************************************************************************)
(* The UIPartStreamer of ui_stream.go: a part of the user interface that   *)
(* goroutines send section by section.  Its lock covers the flags and the  *)
(* accumulated data but no event: between unlock and send, the others may  *)
(* start, add and end.                                                     *)
(*                                                                         *)
(* A renderer streams what a tool shows (Rendered) and gives up at its     *)
(* first error; the other users are the application, which was given the   *)
(* same streamer, and the manager's EndAll.  The application's callback    *)
(* sees the events and, at the end, the part that was built.               *)
(***************************************************************************)

CONSTANTS
  Renderers,     \* goroutines in which a tool renders
  Users,         \* all goroutines
  Shown,         \* [part type -> parameters] of what may be rendered
  Programs       \* what a user of the application may do, a set of sequences of calls

VARIABLES
  type,          \* partType
  part,          \* started, completed, sections, and the next index
  task,          \* [user -> where it is in its calls]
  sent,          \* the events, in the order in which the callback saw them
  final,         \* the part handed over with the end event
  cancelled      \* the context is done

uiVars == <<type, part, task, sent, final, cancelled>>

Call(op, section) == [op |-> op, section |-> section]
Nothing == Section("nothing", Datum("single", <<"nothing">>))

(* The calls of a rendering tool: Start, the sections, End. *)
RenderUI(t) ==
  LET sections == Rendered(t, Shown[t])
  IN <<Call("start", Nothing)>> \o [i \in DOMAIN sections |-> Call("section", sections[i])]
       \o <<Call("end", Nothing)>>

Init ==
  /\ type \in DOMAIN Shown
  /\ part = [started |-> FALSE, completed |-> FALSE, sections |-> <<>>, index |-> 0]
  /\ \E program \in [Users \ Renderers -> Programs] :
       task = [u \in Users |-> [at |-> "idle", index |-> 0,
                                todo |-> IF u \in Renderers THEN RenderUI(type) ELSE program[u]]]
  /\ sent = <<>> /\ final = <<>> /\ cancelled = FALSE

-----------------------------------------------------------------------------
Doing(u) == Head(task[u].todo)
Goes(u, at) == task' = [task EXCEPT ![u].at = at]

Return(u) == task' = [task EXCEPT ![u].at = "idle", ![u].todo = Tail(@)]
Refuse(u) == task' = [task EXCEPT ![u].at = "idle",
                                  ![u].todo = IF u \in Renderers THEN <<>> ELSE Tail(@)]

Calls(u, op) == task[u].at = "idle" /\ task[u].todo # <<>> /\ Doing(u).op = op
Emit(e) == sent' = Append(sent, e)

Start_NotSet(u) ==
  /\ Calls(u, "start") \/ task[u].at = "autostart"
  /\ IF part.started THEN Refuse(u)
     ELSE Goes(u, IF task[u].at = "autostart" THEN "autostarting" ELSE "starting")
  /\ UNCHANGED <<type, part, sent, final, cancelled>>

(* Start, and the start that StreamSection makes when there was none. *)
Start(u) ==
  /\ Calls(u, "start") \/ task[u].at = "autostart"
  /\ IF part.started THEN Refuse(u) /\ UNCHANGED part
     ELSE /\ part' = [part EXCEPT !.started = TRUE]
          /\ Goes(u, IF task[u].at = "autostart" THEN "autostarting" ELSE "starting")
  /\ UNCHANGED <<type, sent, final, cancelled>>

SendStart(u) ==
  /\ task[u].at \in {"starting", "autostarting"}
  /\ IF cancelled THEN Refuse(u) /\ UNCHANGED sent
     ELSE /\ Emit([type |-> "ui_part_start"])
          /\ IF task[u].at = "starting" THEN Return(u) ELSE Goes(u, "adding")
  /\ UNCHANGED <<type, part, final, cancelled>>

(* StreamSection *)
StreamSection(u) ==
  /\ Calls(u, "section") \/ task[u].at = "adding"
  /\ IF task[u].at = "idle" /\ ~part.started THEN Goes(u, "autostart") /\ UNCHANGED part
     ELSE IF part.completed THEN Refuse(u) /\ UNCHANGED part
     ELSE /\ part' = [part EXCEPT !.sections = Append(@, Doing(u).section)]
          /\ Goes(u, "added")
  /\ UNCHANGED <<type, sent, final, cancelled>>

TakeIndex(u) ==
  /\ task[u].at = "added"
  /\ IF cancelled THEN Refuse(u) /\ UNCHANGED part
     ELSE /\ part' = [part EXCEPT !.index = @ + 1]
          /\ task' = [task EXCEPT ![u].at = "delivering", ![u].index = part.index]
  /\ UNCHANGED <<type, sent, final, cancelled>>

SendDelta(u) ==
  /\ task[u].at = "delivering"
  /\ Emit([type |-> "ui_part_delta", section |-> Doing(u).section, index |-> task[u].index])
  /\ Return(u)
  /\ UNCHANGED <<type, part, final, cancelled>>

End_StaysOpen(u) ==
  /\ Calls(u, "end") \/ task[u].at = "ending_all"
  /\ IF ~part.started \/ part.completed THEN Refuse(u) ELSE Goes(u, "ending")
  /\ UNCHANGED <<type, part, sent, final, cancelled>>

(* End; EndAll looks whether the part is complete before it calls End. *)
EndAll(u) ==
  /\ Calls(u, "end_all")
  /\ IF part.completed THEN Return(u) ELSE Goes(u, "ending_all")
  /\ UNCHANGED <<type, part, sent, final, cancelled>>

End(u) ==
  /\ Calls(u, "end") \/ task[u].at = "ending_all"
  /\ IF ~part.started \/ part.completed THEN Refuse(u) /\ UNCHANGED part
     ELSE part' = [part EXCEPT !.completed = TRUE] /\ Goes(u, "ending")
  /\ UNCHANGED <<type, sent, final, cancelled>>

(* The end event, at which the session's handler builds the part. *)
SendEnd(u) ==
  /\ task[u].at = "ending"
  /\ IF cancelled THEN Refuse(u) /\ UNCHANGED <<sent, final>>
     ELSE /\ Emit([type |-> "ui_part_end"])
          /\ final' = <<BuildFinalPart(type, Accumulated(part.sections))>>
          /\ Return(u)
  /\ UNCHANGED <<type, part, cancelled>>

(* EndWithError asks for nothing. *)
EndWithError(u) ==
  /\ Calls(u, "end_with_error")
  /\ part' = [part EXCEPT !.completed = TRUE]
  /\ Goes(u, "failing")
  /\ UNCHANGED <<type, sent, final, cancelled>>

SendError(u) ==
  /\ task[u].at = "failing"
  /\ Emit([type |-> "error"])
  /\ Return(u)
  /\ UNCHANGED <<type, part, final, cancelled>>

Cancel ==
  /\ ~cancelled /\ cancelled' = TRUE
  /\ UNCHANGED <<type, part, task, sent, final>>

Next ==
  \/ \E u \in Users : \/ Start(u) \/ SendStart(u)
                      \/ StreamSection(u) \/ TakeIndex(u) \/ SendDelta(u)
                      \/ EndAll(u) \/ End(u) \/ SendEnd(u)
                      \/ EndWithError(u) \/ SendError(u)
  \/ Cancel

-----------------------------------------------------------------------------
Sent(t) == SelectSeq(sent, LAMBDA e : e.type = t)
Quiet   == \A u \in Users : task[u].at = "idle"

(* However the calls overlap, a client sees one start and one end at most, *)
(* no index twice, and, once the calls have returned, every section the    *)
(* streamer accepted (unless the context ended), under the indices from 0  *)
(* on: the flags decide under the lock, the counter is atomic.             *)
SentOnce ==
  LET deltas == Sent("ui_part_delta")
  IN /\ Len(Sent("ui_part_start")) <= 1 /\ Len(Sent("ui_part_end")) <= 1
     /\ \A i, j \in DOMAIN deltas : deltas[i].index = deltas[j].index => i = j
     /\ Quiet /\ ~cancelled =>
          /\ {deltas[i].index : i \in DOMAIN deltas} = 0..(Len(part.sections) - 1)
          /\ \A s \in ToSet(part.sections) :
               Cardinality({i \in DOMAIN deltas : deltas[i].section = s})
                 = Cardinality({i \in DOMAIN part.sections : part.sections[i] = s})

(* The part handed over at the end has every item the streamer accepted,   *)
(* in the order in which it accepted them, though the calls overlap and    *)
(* some deltas are still on their way: completed is set before the part is *)
(* built.  A table and a group of buttons are excepted, whose items go out *)
(* in lists and are lost in the part that is built.                        *)
FinalIsWhole ==
  LET items == FlattenSeq([i \in DOMAIN part.sections |->
                 IF part.sections[i].section = ListOf(type) THEN part.sections[i].data.items ELSE <<>>])
  IN final # <<>> /\ type \in {"metric", "timeline", "kanban", "form"} => final[1].items = items
=============================================================================
