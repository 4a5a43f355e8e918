------------------------------ MODULE WidgetFlows ------------------------------
(***************************************************************************)
(* One OpenKey instance in the page that embeds the SDK.  A call shows a   *)
(* widget in an iframe or a popup window and waits for its answer; an      *)
(* iframe that does not load falls back to a popup, a widget may hand over *)
(* to a wallet picker of the page, and signing out cancels what waits.     *)
(* OAuth connects share one named window and the field this.popup with the *)
(* widgets.  Messages, timers and clicks are tasks of one event loop.      *)
(***************************************************************************)
EXTENDS Naturals

CONSTANTS
  Call,     \* calls of the instance's methods
  NoCall,
  Tab       \* the window that OAuth connects share, as a value of this.popup

ASSUME WidgetAssumption == NoCall \notin Call /\ Tab \notin Call /\ Tab # NoCall

VARIABLES
  call,     \* what each call holds
  auth,     \* lastAuth: the connect it is the result of
  popup,    \* this.popup: the call whose window it is, or Tab
  tab       \* the named window: at, the connect whose page it shows

widgetVars == <<call, auth, popup, tab>>

-------------------------------------------------------------------------------
\* closing: the close animation of the iframe runs.  cancels: the functions of the call in
\* activeFlowCancellations.  from: the call whose answer resolved it.
\* fresh: nobody signed out since it began.
CallState ==
  [kind: {"none", "connect", "sign", "sign-out", "oauth"},
   answer: {"none", "resolved", "rejected"}, from: Call \cup {NoCall}, fresh: BOOLEAN,
   frame: {"none", "loading", "ready"}, closing: BOOLEAN,
   window: {"none", "open", "closed"}, listening: BOOLEAN,
   picker: {"none", "choosing", "asking"},
   timers: SUBSET {"ready", "overall", "window", "oauth"},
   cancels: SUBSET {"frame", "window"}]

NotCalled ==
  [kind |-> "none", answer |-> "none", from |-> NoCall, fresh |-> TRUE,
   frame |-> "none", closing |-> FALSE, window |-> "none", listening |-> FALSE,
   picker |-> "none", timers |-> {}, cancels |-> {}]

TabState == [open: BOOLEAN, at: Call \cup {NoCall}, back: {"none", "code", "error"}]

NoTab == [open |-> FALSE, at |-> NoCall, back |-> "none"]

WidgetTypeOK ==
  /\ call \in [Call -> CallState]
  /\ auth \in Call \cup {NoCall}
  /\ popup \in Call \cup {NoCall, Tab}
  /\ tab \in TabState

WidgetInit ==
  /\ call = [c \in Call |-> NotCalled]
  /\ auth = NoCall
  /\ popup = NoCall
  /\ tab = NoTab

-------------------------------------------------------------------------------
(* What a call holds, and its promise.                                     *)

\* Only the first settlement of a promise counts.
Reject(r) == IF r.answer = "none" THEN [r EXCEPT !.answer = "rejected"] ELSE r

Resolve(r, d) ==
  IF r.answer = "none" THEN [r EXCEPT !.answer = "resolved", !.from = d] ELSE r

DropFrame(r) ==
  [r EXCEPT !.frame = "none", !.timers = @ \ {"ready", "overall"}, !.cancels = @ \ {"frame"}]

StopListening(r) ==
  [r EXCEPT !.listening = FALSE, !.timers = @ \ {"window"}, !.cancels = @ \ {"window"}]

DropWindow(r) == [StopListening(r) EXCEPT !.window = "closed"]

\* this.popup is forgotten with its own flow only.
Forget(c) == IF popup = c THEN NoCall ELSE popup

\* Mutant of Cancelled: flows that fell back to a window are not in activeFlowCancellations.
CancelledFrames(r) == IF "frame" \in r.cancels THEN Reject(DropFrame(r)) ELSE r

\* Every function of activeFlowCancellations runs.
Cancelled(r) ==
  LET framed == IF "frame" \in r.cancels THEN Reject(DropFrame(r)) ELSE r
  IN  IF "window" \in r.cancels THEN Reject(DropWindow(framed)) ELSE framed

ForgetCancelled ==
  IF popup \in Call /\ "window" \in call[popup].cancels THEN NoCall ELSE popup

Framed(r) ==
  [r EXCEPT !.frame = "loading", !.timers = @ \cup {"ready", "overall"},
            !.cancels = @ \cup {"frame"}]

Windowed(r) ==
  [r EXCEPT !.window = "open", !.listening = TRUE, !.timers = @ \cup {"window"},
            !.cancels = @ \cup {"window"}]

\* Mutant of OpenWindow: the window has no deadline of its own.
OpenWindowUntimed(calls, c) ==
  \/ /\ call' = [calls EXCEPT ![c] = [Windowed(calls[c]) EXCEPT !.timers = calls[c].timers]]
     /\ popup' = c
  \/ call' = [calls EXCEPT ![c] = Reject(calls[c])] /\ popup' = NoCall

\* The browser gives a window, or blocks it.
OpenWindow(calls, c) ==
  \/ call' = [calls EXCEPT ![c] = Windowed(calls[c])] /\ popup' = c
  \/ call' = [calls EXCEPT ![c] = Reject(calls[c])] /\ popup' = NoCall

OpenFrame(calls, c, forgotten) ==
  call' = [calls EXCEPT ![c] = Framed(calls[c])] /\ popup' = forgotten

-------------------------------------------------------------------------------
(* Calls of the application.                                               *)

Start(calls, c, kind) == [calls EXCEPT ![c].kind = kind]

Begin(c, kind) ==
  /\ call[c].kind = "none"
  /\ kind \in {"connect", "sign"}
  /\ \/ OpenFrame(Start(call, c, kind), c, popup)
     \/ OpenWindow(Start(call, c, kind), c)
  /\ UNCHANGED <<auth, tab>>

SignOut(c) ==
  LET cancelled == [d \in Call |->
        IF call[d].kind = "none" THEN call[d] ELSE [Cancelled(call[d]) EXCEPT !.fresh = FALSE]]
  IN
  /\ call[c].kind = "none"
  /\ auth' = NoCall
  /\ \/ OpenFrame(Start(cancelled, c, "sign-out"), c, ForgetCancelled)
     \/ OpenWindow(Start(cancelled, c, "sign-out"), c)
  /\ UNCHANGED tab

Disconnect ==
  /\ call' = [d \in Call |-> Cancelled(call[d])]
  /\ tab' = IF popup = Tab THEN [tab EXCEPT !.open = FALSE] ELSE tab
  /\ popup' = NoCall
  /\ UNCHANGED auth

-------------------------------------------------------------------------------
(* The iframe.                                                             *)

FrameReady(c) ==
  /\ call[c].frame = "loading"
  /\ call' = [call EXCEPT ![c].frame = "ready"]
  /\ UNCHANGED <<auth, popup, tab>>

\* connect keeps the account it was resolved with.
Answer(c, r, ok) ==
  /\ call' = [call EXCEPT ![c] = IF ok THEN Resolve(r, c) ELSE Reject(r)]
  /\ auth' = IF ok /\ call[c].kind = "connect" /\ call[c].answer = "none" THEN c ELSE auth

FrameAnswer(c, ok) ==
  /\ call[c].frame = "ready"
  /\ Answer(c, DropFrame(call[c]), ok)
  /\ UNCHANGED <<popup, tab>>

\* The frame goes; the promise stays with the picker.
FrameToWallet(c) ==
  /\ call[c].frame = "ready"
  /\ call' = [call EXCEPT ![c] = [DropFrame(@) EXCEPT !.picker = "choosing"]]
  /\ UNCHANGED <<auth, popup, tab>>

ClickClose(c) ==
  /\ call[c].frame # "none"
  /\ call' = [call EXCEPT ![c].closing = TRUE]
  /\ UNCHANGED <<auth, popup, tab>>

FinishClose(c) ==
  /\ call[c].closing
  /\ call' = [call EXCEPT ![c] = [Reject(DropFrame(@)) EXCEPT !.closing = FALSE]]
  /\ UNCHANGED <<auth, popup, tab>>

\* An iframe that did not report itself is replaced by a popup, where one can be had.
ReadyTimeout(c) ==
  LET spent == [call EXCEPT ![c].timers = @ \ {"ready"}]
      dropped == [call EXCEPT ![c] = DropFrame(@)]
  IN
  /\ "ready" \in call[c].timers
  /\ \/ call[c].frame = "ready" /\ call' = spent /\ UNCHANGED popup
     \/ call[c].frame = "loading" /\ OpenWindow(dropped, c)
     \/ /\ call[c].frame = "loading"
        /\ call' = [call EXCEPT ![c] = Reject(DropFrame(@))] /\ UNCHANGED popup
  /\ UNCHANGED <<auth, tab>>

OverallTimeout(c) ==
  /\ "overall" \in call[c].timers
  /\ call' = [call EXCEPT ![c] = Reject(DropFrame(@))]
  /\ UNCHANGED <<auth, popup, tab>>

-------------------------------------------------------------------------------
(* The popup window.  A message posted before it closed may still arrive.  *)

WindowAnswer(c, ok) ==
  /\ call[c].listening
  /\ Answer(c, DropWindow(call[c]), ok)
  /\ popup' = Forget(c)
  /\ UNCHANGED tab

WindowToWallet(c) ==
  /\ call[c].listening
  /\ call' = [call EXCEPT ![c] = [DropWindow(@) EXCEPT !.picker = "choosing"]]
  /\ popup' = Forget(c)
  /\ UNCHANGED <<auth, tab>>

UserClosesWindow(c) ==
  /\ call[c].window = "open"
  /\ call' = [call EXCEPT ![c].window = "closed"]
  /\ UNCHANGED <<auth, popup, tab>>

PollClosed(c) ==
  /\ call[c].listening /\ call[c].window = "closed"
  /\ call' = [call EXCEPT ![c] = Reject(StopListening(@))]
  /\ popup' = Forget(c)
  /\ UNCHANGED <<auth, tab>>

WindowTimeout(c) ==
  /\ "window" \in call[c].timers
  /\ call' = [call EXCEPT ![c] = Reject(DropWindow(@))]
  /\ popup' = Forget(c)
  /\ UNCHANGED <<auth, tab>>

-------------------------------------------------------------------------------
(* The wallet picker of the page.                                          *)

PickerSelect(c) ==
  /\ call[c].picker = "choosing"
  /\ call' = [call EXCEPT ![c].picker = "asking"]
  /\ UNCHANGED <<auth, popup, tab>>

\* The user cancels the picker, or the wallet refuses.
PickerFails(c) ==
  /\ call[c].picker # "none"
  /\ call' = [call EXCEPT ![c] = [Reject(@) EXCEPT !.picker = "none"]]
  /\ UNCHANGED <<auth, popup, tab>>

\* The account is kept before the promise is resolved.
PickerAnswers(c) ==
  /\ call[c].picker = "asking"
  /\ call' = [call EXCEPT ![c] = [Resolve(@, c) EXCEPT !.picker = "none"]]
  /\ auth' = c
  /\ UNCHANGED <<popup, tab>>

-------------------------------------------------------------------------------
(* OAuth connects.                                                         *)

\* A second connect navigates the window that the first one opened.
OAuthConnect(c) ==
  /\ call[c].kind = "none"
  /\ \/ /\ call' = [call EXCEPT ![c] = [@ EXCEPT !.kind = "oauth", !.timers = {"oauth"}]]
        /\ tab' = [open |-> TRUE, at |-> c, back |-> "none"]
        /\ popup' = Tab
     \/ /\ call' = [call EXCEPT ![c] = Reject([@ EXCEPT !.kind = "oauth"])]
        /\ popup' = NoCall /\ UNCHANGED tab
  /\ UNCHANGED auth

TabReturns(back) ==
  /\ tab.open /\ tab.back = "none" /\ back \in {"code", "error"}
  /\ tab' = [tab EXCEPT !.back = back]
  /\ UNCHANGED <<call, auth, popup>>

UserClosesTab ==
  /\ tab.open
  /\ tab' = [tab EXCEPT !.open = FALSE]
  /\ UNCHANGED <<call, auth, popup>>

\* The poll of a connect looks at this.popup, whosever window that is by now.
PopupClosed ==
  \/ popup = Tab /\ ~ tab.open
  \/ popup \in Call /\ call[popup].window = "closed"

\* Mutant of ReturnedTo: the state that came back is not compared.
ReturnedAnyState(c) == tab.back = "code"

ReturnedTo(c) == tab.back = "code" /\ tab.at = c

OAuthDone(c) == [call[c] EXCEPT !.timers = @ \ {"oauth"}]

OAuthPoll(c) ==
  /\ "oauth" \in call[c].timers
  /\ \/ /\ PopupClosed
        /\ call' = [call EXCEPT ![c] = Reject(OAuthDone(c))]
        /\ UNCHANGED tab
     \/ /\ popup = Tab /\ tab.open /\ tab.back # "none"
        /\ call' = [call EXCEPT ![c] =
             IF ReturnedTo(c) THEN Resolve(OAuthDone(c), tab.at)
             ELSE Reject(OAuthDone(c))]
        /\ tab' = [tab EXCEPT !.open = FALSE]
  /\ UNCHANGED <<auth, popup>>

OAuthTimeout(c) ==
  LET ended == [call EXCEPT ![c] = Reject(OAuthDone(c))] IN
  /\ "oauth" \in call[c].timers
  /\ call' = IF popup \in Call THEN [ended EXCEPT ![popup].window = "closed"] ELSE ended
  /\ tab' = IF popup = Tab THEN [tab EXCEPT !.open = FALSE] ELSE tab
  /\ UNCHANGED <<auth, popup>>

-------------------------------------------------------------------------------
WidgetNext ==
  \/ \E c \in Call :
       \/ \E kind \in {"connect", "sign"} : Begin(c, kind)
       \/ SignOut(c) \/ OAuthConnect(c)
       \/ FrameReady(c) \/ FrameToWallet(c) \/ ClickClose(c) \/ FinishClose(c)
       \/ ReadyTimeout(c) \/ OverallTimeout(c)
       \/ \E ok \in BOOLEAN : FrameAnswer(c, ok) \/ WindowAnswer(c, ok)
       \/ WindowToWallet(c) \/ UserClosesWindow(c) \/ PollClosed(c) \/ WindowTimeout(c)
       \/ PickerSelect(c) \/ PickerFails(c) \/ PickerAnswers(c)
       \/ OAuthPoll(c) \/ OAuthTimeout(c)
  \/ \E back \in {"code", "error"} : TabReturns(back)
  \/ UserClosesTab \/ Disconnect

WidgetSpec == WidgetInit /\ [][WidgetNext]_widgetVars

\* A deadline that stays set runs out: the page's timers go on, whatever the user does.
TimersFire ==
  \A c \in Call :
    /\ []<>("overall" \notin call[c].timers) \/ []<><<OverallTimeout(c)>>_widgetVars
    /\ []<>("window" \notin call[c].timers) \/ []<><<WindowTimeout(c)>>_widgetVars
    /\ []<>("oauth" \notin call[c].timers) \/ []<><<OAuthTimeout(c)>>_widgetVars

-------------------------------------------------------------------------------
(* Properties.                                                             *)

\* A call that was not answered always has a deadline running, unless the user is choosing a
\* wallet: a fallback to a popup, a cancellation or another call's window never leaves it
\* without one (openIframeModal, openPopup, openOAuthPopup).
NeverStranded ==
  \A c \in Call : call[c].kind # "none" /\ call[c].answer = "none" =>
    call[c].picker # "none" \/ call[c].timers \cap {"overall", "window", "oauth"} # {}

\* Every call ends or is with the user's wallet: no chain of fallbacks, windows and
\* cancellations goes on for ever.
CallsEnd ==
  \A c \in Call :
    (call[c].kind # "none") ~> (call[c].answer # "none" \/ call[c].picker # "none")

\* A call is resolved with the answer to itself only, although OAuth connects share a window
\* and the field that names it (openOAuthPopup's state comparison).
OwnAnswer ==
  \A c \in Call : call[c].answer = "resolved" => call[c].from = c

\* After a sign-out no widget opened before it sets the account, whichever fallback or window it
\* had reached (signOut, cancelActiveFlows).  A wallet picker still may.
SignOutHolds ==
  [][\A c \in Call : auth # c /\ auth' = c => call[c].fresh \/ call[c].picker = "asking"]_widgetVars
===============================================================================
