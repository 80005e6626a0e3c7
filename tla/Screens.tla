------------------------------ MODULE Screens ------------------------------
(***************************************************************************)
(* What is behind a screen of Platform: the union displayState of          *)
(* uiHelpers.c, the scroller and the buttons of the Nano S                 *)
(* (uiHelpers_nanos.c), the flows of the Nano X (uiHelpers_nanox.c), and   *)
(* the timer that presses the button in HEADLESS builds (uiHelpers.c,      *)
(* io.c).                                                                  *)
(*                                                                         *)
(* The instruction is anything that shows a series of screens, one after   *)
(* another confirmed, and answers: its `script`.  A text is a sequence of  *)
(* characters without its terminator.                                      *)
(***************************************************************************)
EXTENDS Platform

CONSTANTS
  CURRENT_TEXT_SIZE, \* sizeof currentText: the window of the scroller and a NUL
  FULL_TEXT_SIZE,    \* sizeof fullText
  PROMPT_TEXT_SIZE,  \* sizeof the text of a prompt
  Char,              \* what a text is made of
  Builds,            \* among NanoS, NanoSHeadless and NanoX
  Scripts            \* what an instruction may show for one request

VARIABLES
  build,       \* never changes
  memory,      \* displayState, as the last ui_display* left it and the scroller moved it
  flowStep,    \* Nano X: the step of the flow on the screen
  timer,       \* io.c: timeout_cb, by the kind of screen it is for
  script,      \* what the instruction will show after the present screen
  asked,       \* history: the questions of this request
  seen,        \* history: the places of the text that have been in the window
  timerScreen, \* history: the screen the timer was set for
  touched      \* history: "button" and "tick lost", once they happened to this run

screenVars == <<build, memory, flowStep, timer, script>>
histories == <<asked, seen, timerScreen, touched>>
vars == <<platformVars, screenVars, histories>>

NanoS == "Nano S"
NanoSHeadless == "Nano S HEADLESS"
NanoX == "Nano X"

Question(kind, text) == [kind |-> kind, what |-> text]

ASSUME SizesAssumption ==
  /\ CURRENT_TEXT_SIZE \in Nat \ {0, 1}
  /\ FULL_TEXT_SIZE \in Nat /\ CURRENT_TEXT_SIZE <= FULL_TEXT_SIZE
  /\ PROMPT_TEXT_SIZE \in Nat /\ PROMPT_TEXT_SIZE <= FULL_TEXT_SIZE

ASSUME BuildsAssumption == Builds \subseteq {NanoS, NanoSHeadless, NanoX}

\* The texts fit their buffers (Formats), and no question is put twice.
ASSUME ScriptsAssumption ==
  /\ Scripts \subseteq Seq([kind: {"text", "prompt"}, what: Seq(Char)])
  /\ \A s \in Scripts :
       /\ \A k \in DOMAIN s :
            \/ s[k].kind = "text" /\ Len(s[k].what) < FULL_TEXT_SIZE
            \/ s[k].kind = "prompt" /\ Len(s[k].what) < PROMPT_TEXT_SIZE
       /\ \A j, k \in DOMAIN s : s[j] = s[k] => j = k

ASSERT_TEXT_SIZE == "ASSERT_TEXT_SIZE" \* the text fits header, text or fullText
ASSERT_MAGIC == "ASSERT_MAGIC"         \* the member of the union that is in use
ASSERT_SCROLL == "ASSERT_SCROLL"       \* the window is inside fullText
ASSERT_TIMER == "ASSERT_TIMER"         \* timeout_cb == NULL
ASSERT_TICKER == "ASSERT_TICKER"       \* the screen of the timer is up

-----------------------------------------------------------------------------
(***************************************************************************)
(* Showing.                                                                *)
(***************************************************************************)

\* os_memmove of n bytes out of fullText, which is zero after the text.
Copied(text, from, n) ==
  SubSeq(text, from + 1, IF from + n < Len(text) THEN from + n ELSE Len(text))

Zeroed == [magic |-> "none", fullText |-> <<>>, currentText |-> <<>>, scrollIndex |-> 0]

\* A plausible bug: no os_memset, the new text starts where the old one was left.
Filled_OldIndex(q) ==
  [magic |-> q.kind, fullText |-> q.what,
   currentText |-> Copied(q.what, 0, CURRENT_TEXT_SIZE - 1),
   scrollIndex |-> memory.scrollIndex]

\* The union after ui_displayPaginatedText or ui_displayPrompt.  (The text of a
\* prompt is where currentText begins, and the Nano X flow reads it from there.)
Filled(q) ==
  [magic |-> q.kind, fullText |-> q.what,
   currentText |-> Copied(q.what, 0, CURRENT_TEXT_SIZE - 1), scrollIndex |-> 0]

TextFits(q) ==
  \/ q.kind = "text" /\ Len(q.what) < FULL_TEXT_SIZE
  \/ q.kind = "prompt" /\ Len(q.what) < PROMPT_TEXT_SIZE

\* A plausible bug: a timer that is still pending is left alone.
nanos_set_timer_KeepsOld(pending, kind) ==
  IF pending = "none" THEN [ok |-> TRUE, cb |-> kind] ELSE [ok |-> TRUE, cb |-> pending]

nanos_set_timer(pending, kind) == [ok |-> pending = "none", cb |-> kind]

\* ui_displayPaginatedText and ui_displayPrompt, with `pending` in timeout_cb.
\* All their callers give both a callback, so HEADLESS builds set the timer.
ui_display(ins, q, pending) ==
  LET set == IF build = NanoSHeadless THEN nanos_set_timer(pending, q.kind)
                                      ELSE [ok |-> TRUE, cb |-> pending]
  IN \/ /\ TextFits(q) /\ set.ok
        /\ Show(ins, Screen(q.kind, q.what, "script"))
        /\ memory' = Filled(q)
        /\ flowStep' = 1
        /\ timer' = set.cb
        /\ seen' = 1 .. Len(memory'.currentText)
        /\ timerScreen' = IF set.cb # pending THEN q ELSE timerScreen
     \/ /\ ~TextFits(q) \/ ~set.ok
        /\ Crash(IF TextFits(q) THEN ASSERT_TIMER ELSE ASSERT_TEXT_SIZE)
        /\ timer' = pending
        /\ UNCHANGED <<memory, flowStep, seen, timerScreen>>

\* The instruction, from its handler or from a callback: it shows what its script
\* says, or answers and ends with the busy screen or with the menu.
GoOn(ins, todo, pending) ==
  /\ UNCHANGED build
  /\ \/ /\ todo # <<>>
        /\ ui_display(ins, Head(todo), pending)
        /\ script' = Tail(todo)
     \/ /\ todo = <<>>
        /\ \E then \in {"busy", "idle"} : Respond(ins, SUCCESS, NoData, then)
        /\ timer' = pending
        /\ UNCHANGED <<memory, flowStep, script, seen, timerScreen>>

\* A step that leaves the screen and what is behind it alone.
NoScreenStep == UNCHANGED <<screenVars, seen, timerScreen>>

-----------------------------------------------------------------------------
(***************************************************************************)
(* The Nano S scroller.                                                    *)
(***************************************************************************)
CanScrollLeft == memory.scrollIndex > 0

\* A plausible bug: `<=`, which scrolls one place past the end of the text.
CanScrollRight_OnePast ==
  memory.scrollIndex + CURRENT_TEXT_SIZE <= 1 + Len(memory.fullText)
CanScrollRight == memory.scrollIndex + CURRENT_TEXT_SIZE < 1 + Len(memory.fullText)

\* scroll_update_display_content with a new scrollIndex, and its assertions.
scroll_update_display_content(index) ==
  IF /\ Len(memory.currentText) < CURRENT_TEXT_SIZE
     /\ index + CURRENT_TEXT_SIZE <= FULL_TEXT_SIZE
  THEN /\ memory' = [memory EXCEPT
            !.scrollIndex = index,
            !.currentText = Copied(memory.fullText, index, CURRENT_TEXT_SIZE - 1)]
       /\ seen' = seen \cup (index + 1 .. index + Len(memory'.currentText))
       /\ UNCHANGED platformVars
  ELSE /\ Crash(ASSERT_SCROLL)
       /\ UNCHANGED <<memory, seen>>

\* ui_prepro_paginatedText: which arrows are drawn (both when nothing scrolls), and
\* a plausible bug: the terminator is forgotten, the arrow goes one place early.
TextFitsSinglePage == Len(memory.currentText) >= Len(memory.fullText)
ShowsArrowLeft == memory.scrollIndex # 0 \/ TextFitsSinglePage
ShowsArrowRight_Early ==
  \/ memory.scrollIndex + CURRENT_TEXT_SIZE < Len(memory.fullText)
  \/ TextFitsSinglePage
ShowsArrowRight ==
  \/ memory.scrollIndex + CURRENT_TEXT_SIZE < Len(memory.fullText) + 1
  \/ TextFitsSinglePage

-----------------------------------------------------------------------------
(***************************************************************************)
(* The Nano S buttons.  The SDK gives them to the handler of the screen    *)
(* that is up, unless the device is locked; while an answer is transmitted *)
(* that is still the screen that led to it.                                *)
(***************************************************************************)
Pressed(kind) == On /\ ~locked /\ display.kind = kind

OnNanoS == build \in {NanoS, NanoSHeadless}
HandlerAsserts == memory.magic = display.kind /\ ButtonAsserts

AssertionFails ==
  /\ ~HandlerAsserts
  /\ Crash(IF memory.magic = display.kind THEN ASSERT_BUTTON ELSE ASSERT_MAGIC)
  /\ NoScreenStep

\* The left and right cases of ui_paginatedText_button.
Scroll ==
  /\ \/ CanScrollLeft /\ scroll_update_display_content(memory.scrollIndex - 1)
     \/ CanScrollRight /\ scroll_update_display_content(memory.scrollIndex + 1)
  /\ UNCHANGED <<build, flowStep, timer, script, timerScreen>>

\* uiCallback_confirm ignores a second press; what is left is the first.
Confirm == ~display.run /\ GoOn(currentInstruction, script, timer)
Reject ==
  /\ ~display.run
  /\ Respond(currentInstruction, ERR_REJECTED_BY_USER, NoData, RejectThen)
  /\ NoScreenStep

ui_paginatedText_button ==
  /\ OnNanoS
  /\ Pressed("text")
  /\ IF HandlerAsserts THEN Scroll \/ Confirm ELSE AssertionFails

ui_prompt_button ==
  /\ OnNanoS
  /\ Pressed("prompt")
  /\ IF HandlerAsserts THEN Confirm \/ Reject ELSE AssertionFails

-----------------------------------------------------------------------------
(***************************************************************************)
(* The Nano X.  Its flow library draws the whole text in pages, and calls  *)
(* back for both buttons at once; a prompt is a flow of two steps.  The    *)
(* callbacks assert the member of the union and no more.                   *)
(***************************************************************************)
FlowAsserts == memory.magic = display.kind

paginated_text_confirm ==
  /\ build = NanoX
  /\ Pressed("text")
  /\ IF FlowAsserts THEN Confirm ELSE Crash(ASSERT_MAGIC) /\ NoScreenStep

\* Left and right in ux_prompt_flow.
TurnPromptFlow ==
  /\ build = NanoX
  /\ Pressed("prompt")
  /\ flowStep' = 3 - flowStep
  /\ UNCHANGED <<platformVars, build, memory, timer, script, seen, timerScreen>>

\* Both buttons: prompt_confirm in the first step, prompt_reject in the second.
ClickPromptFlow ==
  /\ build = NanoX
  /\ Pressed("prompt")
  /\ IF FlowAsserts
     THEN (flowStep = 1 /\ Confirm) \/ (flowStep = 2 /\ Reject)
     ELSE Crash(ASSERT_MAGIC) /\ NoScreenStep

-----------------------------------------------------------------------------
(***************************************************************************)
(* The timer of HEADLESS builds: HANDLE_UX_TICKER_EVENT, then              *)
(* ui_displayPaginatedText_headless_cb or ui_displayPrompt_headless_cb.    *)
(* The timer is cleared first, and gone for good if the device is locked.  *)
(***************************************************************************)
Tick ==
  /\ On
  /\ timer # "none"
  /\ LET asserts == memory.magic = timer /\ ioState = "UI"
     IN \/ /\ ~locked /\ asserts /\ ~display.run
           /\ GoOn(currentInstruction, script, "none")
        \/ /\ locked \/ (asserts /\ display.run)
           /\ timer' = "none"
           /\ UNCHANGED <<platformVars, build, memory, flowStep, script, seen, timerScreen>>
        \/ /\ ~locked /\ ~asserts
           /\ Crash(ASSERT_TICKER)
           /\ timer' = "none"
           /\ UNCHANGED <<build, memory, flowStep, script, seen, timerScreen>>

-----------------------------------------------------------------------------
\* A request of the instruction, from its handler.
INS == "INS"
Request ==
  /\ Accepts(INS)
  /\ \E s \in Scripts : GoOn(INS, s, timer)

\* What ui_idle leaves in timeout_cb, ui_displayBusy leaves it alone.
SendDone ==
  /\ Transmitted(reply.then)
  /\ timer' = IF reply.then = "idle" THEN "none" ELSE timer
  /\ script' = IF reply.then = "idle" THEN <<>> ELSE script
  /\ UNCHANGED <<build, memory, flowStep, seen, timerScreen>>

\* main starts over, after an EXCEPTION_IO_RESET with memory as it is.
StartOver ==
  /\ \/ IoReset /\ UNCHANGED memory
     \/ Restart /\ memory' = Zeroed
  /\ flowStep' = 1
  /\ timer' = "none"
  /\ script' = <<>>
  /\ UNCHANGED <<build, seen, timerScreen>>

Buttons ==
  \/ ui_paginatedText_button
  \/ ui_prompt_button
  \/ paginated_text_confirm
  \/ TurnPromptFlow
  \/ ClickPromptFlow

-----------------------------------------------------------------------------
\* What the outside sees of a state.
PhaseOf(cause, rep, io) ==
  CASE cause # NotCrashed -> "down"
    [] cause = NotCrashed /\ rep.code # NoCode -> "sending"
    [] cause = NotCrashed /\ rep.code = NoCode ->
         CASE io = "IO" -> "ready" [] io = "UI" -> "asking" [] io = "NONE" -> "working"

Phase == PhaseOf(crashed, reply, ioState)

\* The history of the questions of one request.
Remember ==
  asked' = CASE PhaseOf(crashed', reply', ioState') \in {"ready", "down"} -> {}
             [] PhaseOf(crashed', reply', ioState') = "asking" ->
                  asked \cup {Question(display'.kind, display'.what)}
             [] OTHER -> asked

Init ==
  /\ PlatformInit
  /\ build \in Builds
  /\ memory = Zeroed
  /\ flowStep = 1
  /\ timer = "none"
  /\ script = <<>>
  /\ asked = {}
  /\ seen = {}
  /\ timerScreen = Question("none", <<>>)
  /\ touched = {}

ButtonStep == Buttons /\ Remember /\ touched' = touched \cup {"button"}
TickStep ==
  /\ Tick
  /\ Remember
  /\ touched' = IF locked THEN touched \cup {"tick lost"} ELSE touched
SendStep == SendDone /\ Remember /\ UNCHANGED touched
RequestStep == Request /\ Remember /\ UNCHANGED touched
LockStep == LockDevice /\ NoScreenStep /\ Remember /\ UNCHANGED touched
StartStep == StartOver /\ Remember /\ touched' = {}
OtherStep ==
  /\ RejectApdu \/ ApduDuringUi \/ UnlockDevice
  /\ NoScreenStep
  /\ Remember
  /\ UNCHANGED touched

Next ==
  \/ ButtonStep
  \/ TickStep
  \/ SendStep
  \/ RequestStep
  \/ LockStep
  \/ StartStep
  \/ OtherStep

Spec == Init /\ [][Next]_vars

\* The timer runs out and transmissions end.  Of the user nothing is expected.
FairSpec == Spec /\ WF_vars(TickStep) /\ WF_vars(SendStep)

-----------------------------------------------------------------------------
(***************************************************************************)
(* Properties.                                                             *)
(***************************************************************************)

\* The strings behind a screen are terminated inside their arrays, the window is
\* that of the scroll index, and the screen that is up is the one in memory.
TypeOK ==
  /\ build \in Builds
  /\ memory.magic \in {"none", "text", "prompt"}
  /\ Len(memory.fullText) < FULL_TEXT_SIZE
  /\ memory.scrollIndex \in 0 .. FULL_TEXT_SIZE - CURRENT_TEXT_SIZE
  /\ memory.currentText
       = Copied(memory.fullText, memory.scrollIndex, CURRENT_TEXT_SIZE - 1)
  /\ flowStep \in {1, 2}
  /\ timer \in {"none", "text", "prompt"}
  /\ timer # "none" => build = NanoSHeadless
  /\ touched \subseteq {"button", "tick lost"}
  /\ On /\ display.kind \in {"text", "prompt"} =>
       display.kind = memory.magic /\ display.what = memory.fullText

\* No assertion on the screens fails, whatever is pressed and when; those on the
\* timer only if a user interferes with a HEADLESS build by pressing a button.
InternalAssertionsHold ==
  /\ crashed \notin {ASSERT_TEXT_SIZE, ASSERT_MAGIC, ASSERT_SCROLL, ASSERT_BUTTON}
  /\ crashed \in {ASSERT_TIMER, ASSERT_TICKER} =>
       build = NanoSHeadless /\ "button" \in touched

\* The scroller (scroll_right) and the arrows (ui_prepro_paginatedText) are written
\* with conditions of their own.  A user who follows the arrow to the right until
\* it is gone has had all of an address in front of her, and there is an arrow, and
\* it works, as long as there is more.
UserReadsToTheEnd ==
  On /\ OnNanoS /\ display.kind = "text" =>
    /\ ~ShowsArrowRight \/ TextFitsSinglePage => seen = 1 .. Len(display.what)
    /\ memory.scrollIndex + Len(memory.currentText) < Len(display.what) =>
         ShowsArrowRight /\ CanScrollRight
    /\ memory.scrollIndex > 0 => ShowsArrowLeft /\ CanScrollLeft

\* A timer that is still pending when the user has gone on (nanos_set_timer, which
\* only ui_idle clears) never confirms a screen it was not set for.
TimerConfirmsItsOwnScreen ==
  On /\ timer # "none" /\ ioState = "UI" /\ ~display.run =>
    timerScreen = Question(display.kind, display.what)

\* Scrolling, flows and timers included, all builds keep to CallProtocol: only a
\* press on an unlocked device, or the timer in its place, moves a question away,
\* once, and only a prompt is rejected.
Protocol == INSTANCE CallProtocol WITH
  NoCall <- INS_NONE, Success <- SUCCESS, Rejected <- ERR_REJECTED_BY_USER,
  DeviceLocked <- ERR_DEVICE_LOCKED, NoQuestion <- [kind |-> "none"],
  phase <- Phase,
  call <- IF On THEN currentInstruction ELSE INS_NONE,
  question <- IF Phase = "asking" THEN Question(display.kind, display.what)
                                  ELSE [kind |-> "none"],
  answer <- IF On THEN reply.code ELSE NoCode

FollowsProtocol == Protocol!Spec

\* A HEADLESS build answers every request on its own.  What can keep it from that is
\* a button, or a tick that comes while the device is locked: that one is lost and no
\* other comes (HANDLE_UX_TICKER_EVENT).  A lock between two ticks does no harm.
UnattendedRunIsAnswered ==
  (build = NanoSHeadless /\ awaiting /\ touched = {})
    ~> (~awaiting \/ ~On \/ touched # {})
=============================================================================
