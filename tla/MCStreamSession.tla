-------------------------- MODULE MCStreamSession --------------------------
(* An instance of StreamSession for TLC, and of UIPart: what an application *)
(* shows beside a stream.  The two share nothing but the callback, so the   *)
(* part is rendered before the session asks the model, or not at all.       *)
EXTENDS StreamSession, TLC

CONSTANTS f, g, x, tool, app, BatchSize

VARIABLES type, part, task, sent, final, cancelled

MCUsing == Providers
Args == <<"{", "}">>
Text(p) == Part("text", None, None, p)
Thinking == Part("thinking", None, None, <<"hm">>)
Use(id, name) == Part("tool_use", id, name, Args)

MCTurns ==
  {<<>>,
   <<Text(<<"a", "b">>)>>,
   <<Text(<<"a">>), Use("1", f), Use("2", g)>>,
   <<Thinking, Text(<<"c">>), Thinking, Use("3", x)>>,
   <<Use("4", f), Text(<<"d">>)>>}

MCShown ==
  "metric" :> [title |-> "t", metrics |-> <<"m1", "m2">>, layout |-> "grid"]
  @@ "table" :> [headers |-> "h", rows |-> <<"r1", "r2", "r3">>]
  @@ "timeline" :> [events |-> <<"e1">>]
  @@ "kanban" :> [title |-> "t", columns |-> <<"k1", "k2">>]
  @@ "form" :> [id |-> "i", fields |-> <<"f1">>]
  @@ "button_group" :> [buttons |-> <<"b1", "b2">>]
  @@ "card" :> [title |-> "t", content |-> "c", actions |-> <<>>]
  @@ "chart" :> [type |-> "pie"]
  @@ "stats" :> [stats |-> <<"s1", "s2">>]
  @@ "gallery" :> [items |-> <<"g1", "g2">>]
  @@ "alert" :> [message |-> "m", actions |-> <<"a1">>]
  @@ "progress" :> [label |-> "l", max |-> "9"]

Extra(section, item) == [op |-> "section", section |-> [section |-> section, data |-> [kind |-> "single", items |-> <<item>>]]]
Only(op) == [op |-> op, section |-> [section |-> "nothing", data |-> [kind |-> "single", items |-> <<"nothing">>]]]
MCPrograms ==
  {<<Only("start"), Extra("metrics", "m3"), Only("end")>>,
   <<Extra("columns", "k3"), Extra("metrics", "m3")>>,
   <<Extra("rows", "r4"), Only("end_all")>>,
   <<Only("end_all")>>, <<Only("end"), Only("end_with_error")>>}

UI == INSTANCE UIPart WITH Renderers <- {tool}, Users <- {tool, app},
                           Shown <- MCShown, Programs <- MCPrograms

uiVars == <<type, part, task, sent, final, cancelled>>

MCInit == /\ Init /\ UI!Init
          /\ \/ auto /\ provider = "plain"
             \/ type = "metric" /\ task[app].todo = <<Only("end_all")>>
Untouched == sent = <<>> /\ UI!Quiet /\ ~part.started /\ ~part.completed /\ ~cancelled

MCNext ==
  \/ /\ Untouched /\ type = "metric" /\ task[app].todo = <<Only("end_all")>>
     /\ Next /\ UNCHANGED uiVars
  \/ /\ pc = "ready" /\ turns = <<>> /\ ~expired /\ auto /\ provider = "plain"
     /\ UI!Next /\ UNCHANGED vars

MCSpec == MCInit /\ [][MCNext]_<<vars, uiVars>> /\ Fairness


(* A part is announced and ended once, and what is built of it at the end  *)
(* is all that was sent (UIPartStreamer.Start, End, BuildFinalPart).       *)
PartIsWhole == UI!SentOnce /\ UI!FinalIsWhole
=============================================================================
