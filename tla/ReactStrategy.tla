----------------------------- MODULE ReactStrategy -----------------------------
(***************************************************************************)
(* ReactStrategy of react_strategy.go and the ReactAgent around it: calls  *)
(* of Execute on one strategy, each of which thinks, acts on its thought   *)
(* with a tool, and reflects every few iterations.                         *)
(*                                                                         *)
(* The traces and reflections are the strategy's, not the call's, and      *)
(* nothing is locked: Execute empties them when it begins, appends what it *)
(* thinks, and overwrites the last trace, whosever that is, with what it   *)
(* has observed.  An overwrite of an empty slice ends the program.         *)
(*                                                                         *)
(* What a call writes down itself, the execution and its steps, is its own.*)
(* A trace is the call and the iteration it is from and whether it holds   *)
(* an observation.  Neither a reflection nor a low confidence has any      *)
(* consequence, and memories only lengthen the prompt.                     *)
(***************************************************************************)
EXTENDS Integers, Sequences

CONSTANTS Reasoners,      \* calls of Execute
          MaxIterations,  \* s.maxIterations
          Interval        \* s.reflectionInterval

ASSUME RSAssumption == {MaxIterations, Interval} \subseteq Nat \ {0}

VARIABLES traces,       \* s.traces
          reflections,  \* s.reflections: the traces each one was about
          reasoner,     \* where each call is
          slice,        \* s.traces as a call that appends to it read it
          met,          \* calls that were not alone at some time
          panicked      \* the program has ended

reactVars == <<traces, reflections, reasoner, slice, met, panicked>>

NotBegun == [at |-> "idle", iteration |-> 0, steps |-> 0, final |-> "none", late |-> FALSE]

ReactInit ==
  /\ traces = <<>>
  /\ reflections = <<>>
  /\ reasoner = [c \in Reasoners |-> NotBegun]
  /\ slice = [c \in Reasoners |-> <<>>]
  /\ met = {}
  /\ panicked = FALSE

-----------------------------------------------------------------------------
Resting(c)    == reasoner[c].at \in {"idle", "completed", "failed", "cancelled"}
Working    == {c \in Reasoners : ~Resting(c)}
At(c, s)   == reasoner[c].at = s
Moves(c, s) == reasoner' = [reasoner EXCEPT ![c].at = s]

Trace(c, observed) == [of |-> c, step |-> reasoner[c].iteration, observed |-> observed]

(* A variant that keeps the traces of the executions before. *)
ReasonAgain(c) ==
  /\ At(c, "idle")
  /\ reasoner' = [reasoner EXCEPT ![c].at = "head"]
  /\ met' = IF Working = {} THEN met ELSE met \cup Working \cup {c}
  /\ UNCHANGED <<traces, reflections, slice, panicked>>

(* Execute up to its loop. *)
Reason(c) ==
  /\ At(c, "idle")
  /\ traces' = <<>>
  /\ reflections' = <<>>
  /\ reasoner' = [reasoner EXCEPT ![c].at = "head"]
  /\ met' = IF Working = {} THEN met ELSE met \cup Working \cup {c}
  /\ UNCHANGED <<slice, panicked>>

(* What the last trace has observed, whosever it is. *)
FinalOutput(c) ==
  IF traces = <<>> \/ ~traces[Len(traces)].observed THEN "default"
  ELSE IF traces[Len(traces)].of = c THEN "own" ELSE "alien"

(* The head of the loop: only here does Execute look at its context.       *)
NextIteration(c) ==
  /\ At(c, "head")
  /\ \/ /\ reasoner[c].iteration = MaxIterations
        /\ reasoner' = [reasoner EXCEPT ![c].at = "completed", ![c].final = FinalOutput(c)]
     \/ /\ reasoner[c].iteration # MaxIterations
        /\ Moves(c, IF reasoner[c].late THEN "cancelled" ELSE "thinking")
  /\ UNCHANGED <<traces, reflections, slice, met, panicked>>

ThinkFails(c) ==
  /\ At(c, "thinking")
  /\ Moves(c, "failed")
  /\ UNCHANGED <<traces, reflections, slice, met, panicked>>

(* think returns, and the append reads the slice. *)
Think(c) ==
  /\ At(c, "thinking")
  /\ Moves(c, "appending")
  /\ slice' = [slice EXCEPT ![c] = traces]
  /\ UNCHANGED <<traces, reflections, met, panicked>>

(* The append writes the slice.  A final answer ends the call: its output  *)
(* is the observation of a trace that has none.                            *)
AppendTrace(c) ==
  /\ At(c, "appending")
  /\ traces' = Append(slice[c], Trace(c, FALSE))
  /\ slice' = [slice EXCEPT ![c] = <<>>]
  /\ \/ reasoner' = [reasoner EXCEPT ![c].at = "completed", ![c].steps = @ + 1,
                                     ![c].final = "empty"]
     \/ Moves(c, "acting")
  /\ UNCHANGED <<reflections, met, panicked>>

(* act: the tool's result, or its error, becomes the observation, and the  *)
(* last trace is overwritten.  The step is recorded as completed.          *)
Observe(c) ==
  /\ At(c, "acting")
  /\ traces # <<>>
  /\ traces' = [traces EXCEPT ![Len(traces)] = Trace(c, TRUE)]
  /\ reasoner' = [reasoner EXCEPT ![c].at = "observed", ![c].steps = @ + 1]
  /\ UNCHANGED <<reflections, slice, met, panicked>>

(* Another call has emptied the traces since. *)
ObserveNothing(c) ==
  /\ At(c, "acting")
  /\ traces = <<>>
  /\ panicked' = TRUE
  /\ UNCHANGED <<traces, reflections, reasoner, slice, met>>

(* The end of an iteration; every few, the model reflects on the traces, if *)
(* it has anything to say.                                                 *)
Reflect(c) ==
  /\ At(c, "observed")
  /\ reasoner' = [reasoner EXCEPT ![c].at = "head", ![c].iteration = @ + 1]
  /\ \/ UNCHANGED reflections
     \/ /\ (reasoner[c].iteration + 1) % Interval = 0
        /\ reflections' = Append(reflections, [by |-> c, about |-> traces])
  /\ UNCHANGED <<traces, slice, met, panicked>>

(* The deadline of Execute, or its caller. *)
Late(c) ==
  /\ ~Resting(c)
  /\ reasoner' = [reasoner EXCEPT ![c].late = TRUE]
  /\ UNCHANGED <<traces, reflections, slice, met, panicked>>

ReasonerStep(c) ==
  \/ Reason(c) \/ NextIteration(c) \/ ThinkFails(c) \/ Think(c) \/ AppendTrace(c)
  \/ Observe(c) \/ ObserveNothing(c) \/ Reflect(c) \/ Late(c)

ReactNext == ~panicked /\ \E c \in Reasoners : ReasonerStep(c)
ReactSpec == ReactInit /\ [][ReactNext]_reactVars

-----------------------------------------------------------------------------
(* Whoever reasons alone reasons about its own thoughts: the traces it      *)
(* thinks on, reflects on and returns are its iterations in order, each     *)
(* with its observation once there was one; its answer is its own; and the  *)
(* program goes on.  Calls that met on one strategy have none of this.      *)
AloneIsFaithful ==
  /\ panicked => met # {}
  /\ \A c \in Reasoners \ met :
       /\ ~Resting(c) => \A i \in DOMAIN traces :
            traces[i] = [of |-> c, step |-> i - 1,
                         observed |-> i < Len(traces) \/ ~At(c, "acting")]
       /\ At(c, "head") => Len(traces) = reasoner[c].iteration
       /\ At(c, "observed") => Len(traces) = reasoner[c].steps
       /\ reasoner[c].final # "alien"
       /\ ~Resting(c) => \A i \in DOMAIN reflections :
            /\ reflections[i].by = c
            /\ Len(reflections[i].about) % Interval = 0
=============================================================================
