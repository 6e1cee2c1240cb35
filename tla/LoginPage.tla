----------------------------- MODULE LoginPage ------------------------------
(***************************************************************************)
(* The login page (web/components/auth/LoginForm.tsx) in the browser:      *)
(* requests for a session, the script of the biometric widget, the timer   *)
(* that starts a widget and the verifications in flight all end in their   *)
(* own time, while the person presses Start and Cancel.  Nothing that was  *)
(* begun is aborted by Cancel or by a second Start.                        *)
(***************************************************************************)
EXTENDS Naturals

CONSTANT MaxSessions          \* a bound on the presses of Start

ASSUME PageAssumption == MaxSessions \in Nat \ {0}

Session == 1..MaxSessions
None    == 0

VARIABLES status, sessionId, widgetScriptLoaded, widgetStarted,   \* useState
          timer,       \* the timeout that starts the widget is set
          library,     \* window.FlowWidget exists
          scripts,     \* sessions for which a script element is loading
          creating,    \* requests for a session in flight
          given,       \* sessions the server has created: 1..given
          widgets,     \* sessions whose widget was started and may finish
          waits,       \* verifications that begin in two seconds, with the widget
                       \* that finished
          calls,       \* verifications in flight
          passed,      \* sessions in which the person was recognised
          stored,      \* the session whose tokens are in localStorage
          overlap,     \* history: Start was pressed while an earlier one was pending
          cancelled    \* history: sessions that Cancel left

formVars == <<status, sessionId, widgetScriptLoaded, widgetStarted, timer, scripts>>
callVars == <<waits, calls, passed, stored>>
pageVars == <<formVars, library, creating, given, widgets, callVars, overlap, cancelled>>

Call     == [widget : Session, session : Session]
Checking == waits \cup calls

PageTypeOK ==
    /\ status \in {"idle", "creating_session", "verifying", "checking_result", "success", "error"}
    /\ sessionId \in 0..given /\ given \in 0..MaxSessions
    /\ creating \in 0..(MaxSessions - given)
    /\ widgetScriptLoaded \in BOOLEAN /\ widgetStarted \in BOOLEAN /\ library \in BOOLEAN
    /\ timer \in BOOLEAN /\ overlap \in BOOLEAN
    /\ timer => sessionId # None /\ widgetScriptLoaded /\ ~widgetStarted
    /\ scripts \cup widgets \cup passed \cup cancelled \subseteq 1..given
    /\ waits \subseteq Call /\ calls \subseteq Call /\ stored \in 0..given

PageInit ==
    /\ status = "idle" /\ sessionId = None /\ widgetScriptLoaded = FALSE /\ widgetStarted = FALSE
    /\ timer = FALSE /\ library = FALSE /\ scripts = {}
    /\ creating = 0 /\ given = 0 /\ widgets = {}
    /\ waits = {} /\ calls = {} /\ passed = {} /\ stored = None
    /\ overlap = FALSE /\ cancelled = {}

-----------------------------------------------------------------------------
\* Mutation: an error closes the overlay, and shows the Start button again.
OverlayWithoutError ==
    sessionId # None /\ status \in {"creating_session", "verifying", "checking_result"}

\* The container of the widget, and Cancel, are in the overlay.
Overlay ==
    /\ sessionId # None
    /\ \/ status \in {"creating_session", "verifying", "checking_result"}
       \/ status = "error" /\ widgetStarted

\* Mutation: the timer is not cleared.
RenderKeepsTimer(id, loaded, started) ==
    /\ sessionId' = id
    /\ widgetStarted' = started
    /\ widgetScriptLoaded' = (loaded \/ (id # None /\ library'))
    /\ scripts' = IF id \notin {None, sessionId} /\ ~widgetScriptLoaded'
                  THEN scripts \cup {id} ELSE scripts
    /\ timer' = (timer \/ (id # None /\ widgetScriptLoaded' /\ ~started))

\* A render with its two effects, each run when what it depends on changes:
\* one loads the script for a session, the other clears the timer and sets it
\* for a session whose widget is not started.  library' is given.
Render(id, loaded, started) ==
    /\ sessionId' = id
    /\ widgetStarted' = started
    /\ widgetScriptLoaded' = (loaded \/ (id # None /\ library'))
    /\ scripts' = IF id \notin {None, sessionId} /\ ~widgetScriptLoaded'
                  THEN scripts \cup {id} ELSE scripts
    /\ timer' = IF <<id, widgetScriptLoaded', started>>
                     = <<sessionId, widgetScriptLoaded, widgetStarted>>
                THEN timer
                ELSE id # None /\ widgetScriptLoaded' /\ ~started

\* handleStartVerification; the button is hidden by the overlay and by success,
\* not by a request in flight.
Start ==
    /\ ~Overlay /\ status # "success"
    /\ creating + given < MaxSessions
    /\ status' = "creating_session"
    /\ creating' = creating + 1
    /\ overlap' = (overlap \/ creating > 0 \/ timer \/ scripts # {})
    /\ UNCHANGED <<library, given, widgets, callVars, cancelled>>
    /\ Render(sessionId, widgetScriptLoaded, FALSE)

Created ==
    /\ creating > 0
    /\ creating' = creating - 1
    /\ given' = given + 1
    /\ UNCHANGED <<status, library, widgets, callVars, overlap, cancelled>>
    /\ Render(given + 1, widgetScriptLoaded, widgetStarted)

\* Mutation: the error is shown and the status kept.
CreationFailsQuietly ==
    /\ creating > 0
    /\ creating' = creating - 1
    /\ UNCHANGED <<formVars, library, given, widgets, callVars, overlap, cancelled>>

CreationFails ==
    /\ creating > 0
    /\ creating' = creating - 1
    /\ status' = "error"
    /\ UNCHANGED <<sessionId, widgetScriptLoaded, widgetStarted, timer, scripts, library, given,
                   widgets, callVars, overlap, cancelled>>

\* A script element that was removed from the page still loads.
ScriptLoads(s) ==
    /\ s \in scripts
    /\ library' = TRUE
    /\ UNCHANGED <<status, creating, given, widgets, callVars, overlap, cancelled>>
    /\ sessionId' = sessionId /\ widgetStarted' = widgetStarted
    /\ widgetScriptLoaded' = TRUE
    /\ scripts' = scripts \ {s}
    /\ timer' = IF widgetScriptLoaded THEN timer ELSE sessionId # None /\ ~widgetStarted

ScriptFails(s) ==
    /\ s \in scripts
    /\ scripts' = scripts \ {s}
    /\ status' = "error"
    /\ UNCHANGED <<sessionId, widgetScriptLoaded, widgetStarted, timer, library, creating, given,
                   widgets, callVars, overlap, cancelled>>

\* The timeout of 200 ms: without a container it gives up, startSession may throw.
Timer ==
    /\ timer
    /\ timer' = FALSE
    /\ \/ /\ Overlay
          /\ widgetStarted' = TRUE
          /\ status' = "verifying"
          /\ widgets' = widgets \cup {sessionId}
       \/ /\ Overlay
          /\ status' = "error"
          /\ UNCHANGED <<widgetStarted, widgets>>
       \/ /\ ~Overlay
          /\ UNCHANGED <<status, widgetStarted, widgets>>
    /\ UNCHANGED <<sessionId, widgetScriptLoaded, scripts, library, creating, given, callVars,
                   overlap, cancelled>>

\* The widget of session w is done, whether it is still on the page or not.
\* handleFinish: the event names no session, the page will verify its own.
Finish(w, ok) ==
    /\ w \in widgets
    /\ widgets' = widgets \ {w}
    /\ passed' = IF ok THEN passed \cup {w} ELSE passed
    /\ IF sessionId = None \/ status \in {"checking_result", "success"}
       THEN UNCHANGED <<status, waits>>
       ELSE /\ status' = "checking_result"
            /\ waits' = waits \cup {[widget |-> w, session |-> sessionId]}
    /\ UNCHANGED <<sessionId, widgetScriptLoaded, widgetStarted, timer, scripts, library, creating,
                   given, calls, stored, overlap, cancelled>>

\* Two seconds later the request is sent, whatever the page shows by then.
SendRequest(c) ==
    /\ c \in waits
    /\ waits' = waits \ {c}
    /\ calls' = calls \cup {c}
    /\ UNCHANGED <<formVars, library, creating, given, widgets, passed, stored, overlap, cancelled>>

Verified(c) ==
    /\ c \in calls
    /\ c.session \in passed
    /\ calls' = calls \ {c}
    /\ stored' = c.session
    /\ status' = "success"
    /\ UNCHANGED <<sessionId, widgetScriptLoaded, widgetStarted, timer, scripts, library, creating,
                   given, widgets, waits, passed, overlap, cancelled>>

\* Mutation: no abort; the server waits for a session whose widget did not finish.
VerificationWaits(c) ==
    /\ c \in calls
    /\ c.session = c.widget
    /\ calls' = calls \ {c}
    /\ status' = "error"
    /\ UNCHANGED <<sessionId, widgetScriptLoaded, widgetStarted, timer, scripts, library, creating,
                   given, widgets, waits, passed, stored, overlap, cancelled>>

\* The server refuses or fails, or the request is aborted after 60 seconds.
VerificationFails(c) ==
    /\ c \in calls
    /\ calls' = calls \ {c}
    /\ status' = "error"
    /\ UNCHANGED <<sessionId, widgetScriptLoaded, widgetStarted, timer, scripts, library, creating,
                   given, widgets, waits, passed, stored, overlap, cancelled>>

\* Mutation: the session is kept, so that a widget's end is still taken.
CancelKeepsSession ==
    /\ Overlay
    /\ status' = "idle"
    /\ cancelled' = cancelled \cup {sessionId}
    /\ UNCHANGED <<sessionId, widgetScriptLoaded, timer, scripts, library, creating, given,
                   widgets, callVars, overlap>>
    /\ widgetStarted' = FALSE

\* handleCancel.
Cancel ==
    /\ Overlay
    /\ status' = "idle"
    /\ cancelled' = cancelled \cup {sessionId}
    /\ UNCHANGED <<library, creating, given, widgets, callVars, overlap>>
    /\ Render(None, FALSE, FALSE)

Script == \E s \in scripts : ScriptLoads(s) \/ ScriptFails(s)
Waited == \E c \in waits : SendRequest(c)
CallEnds == \E c \in calls : Verified(c) \/ VerificationFails(c)

PageNext ==
    \/ Start \/ Created \/ CreationFails \/ Timer \/ Cancel
    \/ Script \/ Waited \/ CallEnds
    \/ \E w \in widgets, ok \in BOOLEAN : Finish(w, ok)

\* Requests, scripts and timers of a browser end, the wait of two seconds among
\* them; the person owes nothing.
PageFairness ==
    /\ WF_pageVars(Created \/ CreationFails)
    /\ WF_pageVars(Script)
    /\ WF_pageVars(Timer)
    /\ \A c \in Call : WF_pageVars(SendRequest(c))
    /\ \A c \in Call : WF_pageVars(Verified(c) \/ VerificationFails(c))

PageSpec == PageInit /\ [][PageNext]_pageVars /\ PageFairness

-----------------------------------------------------------------------------
\* Unless Start was pressed while the request, the script or the timer of an
\* earlier one was pending, the page verifies, or is about to, the session of the
\* widget that finished, or that widget belongs to a session that was cancelled
\* (handleFinish does not know which widget the event came from).
VerifiesWhatItShowed ==
    ~overlap => \A c \in Checking : c.widget = c.session \/ c.widget \in cancelled

\* No widget's end is taken for a session that was cancelled: such a session is
\* verified after the Cancel only if a widget had finished before it, and the
\* two seconds or the request were still running (handleCancel stops neither).
NoFinishAfterCancel ==
    [][\A c \in Checking' \ Checking : c.session \notin cancelled]_pageVars

\* The page stops checking.
CheckingEnds == status = "checking_result" ~> status # "checking_result"

\* The page stops creating a session: a widget starts, or an error is shown.
CreatingEnds == status = "creating_session" ~> status # "creating_session"

\* "Start the widget once script is loaded and DOM container is ready": every
\* session on the page gets its widget, unless an error is shown or it goes.
StartsTheWidget ==
    \A s \in Session :
        (sessionId = s /\ widgetScriptLoaded /\ Overlay)
            ~> (s \in widgets \/ sessionId # s \/ status \in {"error", "success"})
=============================================================================
