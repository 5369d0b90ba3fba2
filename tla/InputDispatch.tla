---------------------------- MODULE InputDispatch ----------------------------
(***************************************************************************)
(* What DispatchInputEvent makes of the events the input thread reads, laid *)
(* over HostThreads, which says when it reads them.                        *)
(*                                                                         *)
(* CEF is told with each move and click which buttons are down.  The host  *)
(* keeps them in m_mouseModifiers, from the downs and ups it dispatches;   *)
(* an event read while input is disabled is dropped, and the control       *)
(* thread throws that switch at any moment.  The events are those of a     *)
(* real mouse: a button goes down and up in turn.  The ring is first in,   *)
(* first out, so which event a slot holds is chosen when it is read.       *)
(***************************************************************************)
EXTENDS HostThreads

CONSTANT Buttons  \* the button numbers the consumer sends

ASSUME InputDispatchAssumption == Buttons \subseteq {0, 1, 2}

VARIABLES
    modifiers,  \* m_mouseModifiers, as a set of event flags
    held,       \* the buttons down after the last event read
    missed      \* history: the buttons whose last down or up was dropped

mouse == <<modifiers, held, missed>>

Event == [type : {"MouseMove", "MouseScroll", "Key", "unknown"}]
    \cup [type : {"MouseDown", "MouseUp"}, button : Buttons]

\* Mutant: every button but the left one is the right one.
FlagOfTwo(button) == IF button = 0 THEN "LEFT" ELSE "RIGHT"
FlagOf(button) == CASE button = 0 -> "LEFT" [] button = 1 -> "MIDDLE" [] OTHER -> "RIGHT"

Flags == {FlagOf(b) : b \in Buttons}

DispatchTypeOK ==
    /\ TypeOK
    /\ modifiers \subseteq Flags
    /\ held \subseteq Buttons
    /\ missed \subseteq Buttons

DispatchInit ==
    /\ Init
    /\ modifiers = {}
    /\ held = {}
    /\ missed = {}

-----------------------------------------------------------------------------
IsClick(e) == e.type \in {"MouseDown", "MouseUp"}

\* A button goes down when it is up, and up when it is down.
Possible(e) == IsClick(e) => (e.button \in held <=> e.type = "MouseUp")

Moved(e) ==
    IF ~IsClick(e) THEN held
    ELSE IF e.type = "MouseUp" THEN held \ {e.button} ELSE held \cup {e.button}

\* A click goes out with the modifiers as they are then, a move with the same;
\* a scroll and a key neither change nor carry them.
DispatchInputEvent(e) ==
    modifiers' = CASE e.type = "MouseUp" -> modifiers \ {FlagOf(e.button)}
                   [] e.type = "MouseDown" -> modifiers \cup {FlagOf(e.button)}
                   [] OTHER -> modifiers

ReadEvent ==
    /\ ReadInput
    /\ \E e \in {x \in Event : Possible(x)} :
          /\ held' = Moved(e)
          /\ IF inputEnabled
             THEN /\ Dispatch(e.type # "unknown")
                  /\ DispatchInputEvent(e)
                  /\ missed' = IF IsClick(e) THEN missed \ {e.button} ELSE missed
             ELSE /\ missed' = IF IsClick(e) THEN missed \cup {e.button} ELSE missed
                  /\ UNCHANGED modifiers

-----------------------------------------------------------------------------
InputThreadOther ==
    InputLoop \/ InputFound \/ InputNotFound \/ InputSpin \/ InputWaitEnds \/ EndPumpInput

InputThreadReading == ReadEvent \/ (InputThreadOther /\ UNCHANGED mouse)

DispatchNext ==
    /\ ~aborted
    /\ \/ InputThreadReading
       \/ /\ \/ OnAfterCreated \/ BeginStop \/ Stopping
             \/ RenderStep \/ ControlThread
             \/ PostInput \/ PostControl
          /\ UNCHANGED mouse

dispatchVars == <<vars, mouse>>

DispatchFairness ==
    /\ WF_dispatchVars(~aborted /\ Stopping /\ UNCHANGED mouse)
    /\ WF_dispatchVars(~aborted /\ RenderStep /\ UNCHANGED mouse)
    /\ WF_dispatchVars(~aborted /\ InputThreadReading)
    /\ WF_dispatchVars(~aborted /\ ControlThread /\ UNCHANGED mouse)

DispatchSpec == DispatchInit /\ [][DispatchNext]_dispatchVars /\ DispatchFairness

-----------------------------------------------------------------------------
(* A drag cut by SetInputEnabled leaves a button stuck, and only that one: *)
(* whatever downs and ups were dropped, m_mouseModifiers is right about    *)
(* every button that has been dispatched since, so a stuck button heals    *)
(* with its own next event and never disturbs another.                     *)
ModifiersAreHeld ==
    \A b \in Buttons \ missed : FlagOf(b) \in modifiers <=> b \in held
=============================================================================
