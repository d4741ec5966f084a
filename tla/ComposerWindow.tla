------------------------------ MODULE ComposerWindow ------------------------------
(***************************************************************************)
(* The window of the Overlay Composer (ui/composer_view.py): the user edits *)
(* the project, a thread renders its preview, another exports it, and both   *)
(* answer through a queue the user interface pumps; questions and notices    *)
(* run the interface inside the handler that opened them.  Closing CinePulse *)
(* itself (studio.py _on_close) is the other way out.                       *)
(***************************************************************************)
EXTENDS Integers, Sequences

CONSTANTS
  MaxEdits,    \* bound on the edits of the project
  MaxExports,
  Faults       \* a subset of {"render", "export", "profile"}

VARIABLES
  window,      \* "open", "closed"
  edits,       \* version of the project
  rendering,   \* stage["rendering"]
  dirty,       \* stage["dirty"]
  drawing,     \* version the render thread draws, -1 when there is none
  answered,    \* version of the last preview, or of the last error shown for one
  running,     \* export_running["value"]
  cancel,      \* export_cancel
  done,        \* export_done
  exporter,    \* the export thread runs
  exports,
  events,      \* ui_events
  modal,       \* dialogs open, the innermost last
  closeAfter,  \* stage["closing_after_export"]
  confirmed,   \* the user has said yes to cancel and close
  leaving      \* studio.py _on_close: "no", "waiting", "late"

vars == <<window, edits, rendering, dirty, drawing, answered, running, cancel, done, exporter, exports,
          events, modal, closeAfter, confirmed, leaving>>
preview == <<rendering, dirty, drawing, answered>>
export  == <<running, cancel, done, exporter, exports>>
closing == <<closeAfter, confirmed, leaving>>

Init ==
  /\ window = "open" /\ edits = 0
  /\ rendering = FALSE /\ dirty = TRUE /\ drawing = -1 /\ answered = -1
  /\ running = FALSE /\ cancel = FALSE /\ done = TRUE /\ exporter = FALSE /\ exports = 0
  /\ events = <<>> /\ modal = <<>>
  /\ closeAfter = FALSE /\ confirmed = FALSE /\ leaving = "no"

Idle == window = "open" /\ modal = <<>>      \* the user can reach the window
Top(m) == modal # <<>> /\ modal[Len(modal)] = m
Push(m) == modal' = Append(modal, m)
Pop == modal' = SubSeq(modal, 1, Len(modal) - 1)

(* --------------------------- the preview --------------------------- *)

\* Mutant: a request made while a preview is drawn is dropped.
RequestRenderOrDrop(v) ==
  IF rendering
  THEN UNCHANGED <<rendering, dirty, drawing, answered>>
  ELSE \/ rendering' = TRUE /\ drawing' = v /\ UNCHANGED <<dirty, answered>>
       \/ "profile" \in Faults /\ answered' = v /\ UNCHANGED <<rendering, dirty, drawing>>

\* request_render on version v: at once, or once the render in hand is answered.
RequestRender(v) ==
  IF rendering
  THEN dirty' = TRUE /\ UNCHANGED <<rendering, drawing, answered>>
  ELSE \/ rendering' = TRUE /\ drawing' = v /\ UNCHANGED <<dirty, answered>>
       \/ "profile" \in Faults /\ answered' = v /\ UNCHANGED <<rendering, dirty, drawing>>

\* The callback window.after(120, request_render) of a window just opened.
FirstRender ==
  /\ window = "open" /\ dirty /\ ~rendering
  /\ \/ rendering' = TRUE /\ drawing' = edits /\ dirty' = FALSE /\ UNCHANGED answered
     \/ "profile" \in Faults /\ answered' = edits /\ dirty' = FALSE /\ UNCHANGED <<rendering, drawing>>
  /\ UNCHANGED <<window, edits, export, events, modal, closing>>

Edit ==
  /\ Idle /\ edits < MaxEdits
  /\ edits' = edits + 1
  /\ RequestRender(edits + 1)
  /\ UNCHANGED <<window, export, events, modal, closing>>

DrawnOrFailed ==
  /\ drawing >= 0
  /\ \E kind \in {"stage"} \cup (Faults \cap {"render"}) :
       events' = Append(events, [kind |-> kind, version |-> drawing])
  /\ drawing' = -1
  /\ UNCHANGED <<window, edits, rendering, dirty, answered, export, modal, closing>>

(* --------------------------- the export --------------------------- *)

\* start_export asks for the output file first.
AskOutput ==
  /\ Idle /\ ~running /\ ~rendering /\ exports < MaxExports
  /\ Push("save")
  /\ UNCHANGED <<window, edits, preview, export, events, closing>>

StartExport ==
  /\ Top("save") /\ Pop
  /\ \/ /\ cancel' = FALSE /\ done' = FALSE /\ running' = TRUE /\ exporter' = TRUE
        /\ exports' = exports + 1
     \/ UNCHANGED export
  /\ UNCHANGED <<window, edits, preview, events, closing>>

RequestCancel ==
  /\ Idle /\ running /\ ~cancel
  /\ cancel' = TRUE
  /\ UNCHANGED <<window, edits, preview, running, done, exporter, exports, events, modal, closing>>

\* export_composer_auto returns or raises: the answer is posted, then export_done is set.
ExporterEnds ==
  /\ exporter
  /\ \E kind \in (IF cancel THEN {"cancelled"} ELSE {}) \cup {"exported"} \cup (Faults \cap {"export"}) :
       events' = Append(events, [kind |-> kind, version |-> -1])
  /\ exporter' = FALSE /\ done' = TRUE
  /\ UNCHANGED <<window, edits, preview, running, cancel, exports, modal, closing>>

(* --------------------------- the queue --------------------------- *)

\* pump_ui_events is not run again until the notice its callback opened is dismissed.
Pumps == window = "open" /\ events # <<>> /\ \A i \in 1 .. Len(modal) : modal[i] # "notice"
Head1 == Head(events)

\* show_stage and show_render_error.
ShowPreview ==
  /\ Pumps /\ Head1.kind \in {"stage", "render"}
  /\ events' = Tail(events)
  /\ dirty' = FALSE
  /\ \/ /\ dirty /\ rendering' = TRUE /\ drawing' = edits /\ answered' = Head1.version
     \/ /\ dirty /\ "profile" \in Faults
        /\ rendering' = FALSE /\ answered' = edits /\ UNCHANGED drawing
     \/ /\ ~dirty /\ rendering' = FALSE /\ answered' = Head1.version /\ UNCHANGED drawing
  /\ UNCHANGED <<window, edits, export, modal, closing>>

Closed == window' = "closed" /\ modal' = <<>>

\* finish_export: a cancellation only sets the status, the others open a notice.
FinishExport ==
  /\ Pumps /\ Head1.kind \in {"exported", "export", "cancelled"}
  /\ events' = Tail(events)
  /\ running' = FALSE
  /\ IF Head1.kind # "cancelled" THEN Push("notice") /\ UNCHANGED window
     ELSE IF closeAfter THEN Closed ELSE UNCHANGED <<window, modal>>
  /\ UNCHANGED <<edits, preview, cancel, done, exporter, exports, closing>>

DismissNotice ==
  /\ window = "open" /\ Top("notice")
  /\ IF closeAfter THEN Closed ELSE Pop /\ UNCHANGED window
  /\ UNCHANGED <<edits, preview, export, events, closing>>

(* --------------------------- closing --------------------------- *)

\* Mutants: nobody is asked; the question is asked again over the open one.
CloseWindowAtOnce ==
  /\ Idle
  /\ Closed
  /\ UNCHANGED <<edits, preview, export, events, closing>>

CloseWindowAgain ==
  /\ window = "open"
  /\ IF running THEN Push("ask") /\ UNCHANGED window ELSE Closed
  /\ UNCHANGED <<edits, preview, export, events, closing>>

CloseWindow ==
  /\ Idle
  /\ IF running THEN Push("ask") /\ UNCHANGED window ELSE Closed
  /\ UNCHANGED <<edits, preview, export, events, closing>>

\* The answer to "cancel the export and close?"
Answer ==
  /\ window = "open" /\ Top("ask") /\ Pop
  /\ \/ UNCHANGED <<cancel, closeAfter, confirmed>>
     \/ cancel' = TRUE /\ closeAfter' = TRUE /\ confirmed' = TRUE
  /\ UNCHANGED <<window, edits, preview, running, done, exporter, exports, events, leaving>>

\* _on_close of the editor cancels the export and waits for it, at most fifteen seconds.
Leave ==
  /\ Idle /\ leaving = "no"
  /\ IF done THEN Closed /\ UNCHANGED <<cancel, leaving>>
     ELSE cancel' = TRUE /\ leaving' = "waiting" /\ UNCHANGED <<window, modal>>
  /\ UNCHANGED <<edits, preview, running, done, exporter, exports, events, closeAfter, confirmed>>

FinishLeave ==
  /\ leaving = "waiting" /\ window = "open"
  /\ Closed
  /\ leaving' = IF done THEN "no" ELSE "late"
  /\ UNCHANGED <<edits, preview, export, events, closeAfter, confirmed>>

Threads == DrawnOrFailed \/ ExporterEnds
Interface == FirstRender \/ ShowPreview \/ FinishExport \/ StartExport \/ DismissNotice \/ Answer
User == Edit \/ AskOutput \/ RequestCancel \/ CloseWindow \/ Leave

Next == Threads \/ Interface \/ User \/ FinishLeave

\* Dialogs are answered, threads end, and the interface handles what is posted.
Fairness ==
  /\ WF_vars(DrawnOrFailed) /\ WF_vars(ExporterEnds)
  /\ WF_vars(FirstRender) /\ WF_vars(ShowPreview \/ FinishExport)
  /\ WF_vars(StartExport) /\ WF_vars(DismissNotice) /\ WF_vars(Answer)
Spec == Init /\ [][Next]_vars /\ Fairness

(* --------------------------- properties --------------------------- *)

TypeOK ==
  /\ window \in {"open", "closed"} /\ edits \in 0 .. MaxEdits
  /\ drawing \in -1 .. MaxEdits /\ answered \in -1 .. MaxEdits
  /\ modal \in UNION {[1 .. n -> {"ask", "notice", "save"}] : n \in 0 .. 2}
  /\ leaving \in {"no", "waiting", "late"}

\* Once the user stops, the preview on screen (or the error) is of the project as it is: no edit
\* made while a preview was being drawn is lost, and previews are never applied out of order.
UpToDate == window = "open" => answered = edits
PreviewConverges == <>[]UpToDate

\* The window is destroyed under a running export only when CinePulse itself is closed and fifteen
\* seconds have gone by: closing "waits for the worker to finish before destroying its window".
WaitsForExport == window = "closed" /\ exporter => leaving = "late"

\* One export at a time, whose end is always told to the interface.
Exporting == running /\ window # "closed"
ExportsAnswered ==
  /\ [](exporter => running)
  /\ Exporting ~> ~Exporting

\* The document's word: who confirms that the export is cancelled and the window closed sees it
\* closed.  Does not hold: the export may end while the question is open.
ConfirmedCloses == confirmed ~> window = "closed"

(* The inductive invariant (ComponentProofs): the end of an export is told once, before another    *)
(* may begin, and no dialog from which one begins or after which the window closes is open over it. *)
ExportKinds == {"exported", "export", "cancelled"}
Shape ==
  /\ TypeOK
  /\ events \in Seq([kind: ExportKinds \cup {"stage", "render"}, version: -1 .. MaxEdits])
  /\ modal \in {<<>>, <<"save">>, <<"ask">>, <<"notice">>, <<"ask", "notice">>}
OneExport ==
  /\ exporter \in BOOLEAN /\ running \in BOOLEAN /\ done = ~exporter
  /\ exporter => running
  /\ window = "closed" => modal = <<>>
  /\ Top("save") \/ Top("notice") => ~running
  /\ \A i \in 1 .. Len(events) : events[i].kind \in ExportKinds =>
       /\ running /\ ~exporter
       /\ \A j \in 1 .. Len(events) : events[j].kind \in ExportKinds => i = j
Inv == Shape /\ OneExport /\ WaitsForExport
====================================================================================
