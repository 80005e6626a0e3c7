------------------------------ MODULE Platform ------------------------------
(***************************************************************************)
(* What every instruction of the application runs on: the main loop        *)
(* (main.c), the APDU transport (io.c), and the screens with their         *)
(* callbacks (uiHelpers.c and its Nano S half).                            *)
(*                                                                         *)
(* The device is single-threaded.  It is interrupted only where it waits:  *)
(* in io_exchange for the next APDU, or, with IO_RETURN_AFTER_TX, for the  *)
(* end of a transmission.  In both places the SDK delivers button and USB  *)
(* events.  A step of the model is what happens between two such waits.    *)
(*                                                                         *)
(* This module owns the variables all instructions share and the operators *)
(* their actions are made of; an instruction's module says which of them   *)
(* it uses, and when.                                                      *)
(***************************************************************************)
EXTENDS Naturals, Sequences

VARIABLES
  crashed,            \* NotCrashed, or what io_seproxyhal_se_reset() was called for
  ioState,            \* io.c: io_state
  currentInstruction, \* main.c: the INS of the open call, or INS_NONE
  display,            \* the screen shown, with uiHelpers.c's ui_callback_t
  reply,              \* the response APDU being transmitted (code NoCode: none)
  locked,             \* ~device_is_unlocked()
  awaiting            \* history: the host has sent an APDU and not had its answer

platformVars ==
  <<crashed, ioState, currentInstruction, display, reply, locked, awaiting>>

NotCrashed == "no"
INS_NONE == "INS_NONE"
NoCode == "none"
SUCCESS == "SUCCESS"

\* errors.h, _ERR_AUTORESPOND_START .. _ERR_AUTORESPOND_END.
ERR_MALFORMED_REQUEST_HEADER == "ERR_MALFORMED_REQUEST_HEADER"
ERR_BAD_CLA == "ERR_BAD_CLA"
ERR_UNKNOWN_INS == "ERR_UNKNOWN_INS"
ERR_STILL_IN_CALL == "ERR_STILL_IN_CALL"
ERR_INVALID_REQUEST_PARAMETERS == "ERR_INVALID_REQUEST_PARAMETERS"
ERR_INVALID_STATE == "ERR_INVALID_STATE"
ERR_INVALID_DATA == "ERR_INVALID_DATA"
ERR_REJECTED_BY_USER == "ERR_REJECTED_BY_USER"
ERR_REJECTED_BY_POLICY == "ERR_REJECTED_BY_POLICY"
ERR_DEVICE_LOCKED == "ERR_DEVICE_LOCKED"

\* ERR_INVALID_BIP44_PATH is left out: derivePrivateKey, its only user, comes
\* after a policy that has already denied such a path.
AutoRespond ==
  {ERR_MALFORMED_REQUEST_HEADER, ERR_BAD_CLA, ERR_UNKNOWN_INS, ERR_STILL_IN_CALL,
   ERR_INVALID_REQUEST_PARAMETERS, ERR_INVALID_STATE, ERR_INVALID_DATA,
   ERR_REJECTED_BY_USER, ERR_REJECTED_BY_POLICY, ERR_DEVICE_LOCKED}

\* The errors that are never sent to the host, and the failed ASSERTs, are told
\* apart by what they are about.
ASSERT_IO_STATE == "ASSERT_IO_STATE" \* io_state == IO_EXPECT_IO
ASSERT_BUTTON == "ASSERT_BUTTON" \* io_state == IO_EXPECT_UI

-----------------------------------------------------------------------------
(***************************************************************************)
(* Screens.  What a screen says is its header and the one value it shows;  *)
(* the strings are not modelled, the value is what they are printed from.  *)
(* `callback` names the run-step function both buttons lead to and `run`   *)
(* is CALLBACK_RUN.  The menu and the busy screen have no callback.        *)
(***************************************************************************)
NoAddress == [id |-> "none", path |-> <<>>, size |-> 0, crcSize |-> 0]

Says(head) == [head |-> head, amount |-> 0, address |-> NoAddress, path |-> <<>>]
SaysAmount(head, n) == [Says(head) EXCEPT !.amount = n]
SaysAddress(head, a) == [Says(head) EXCEPT !.address = a]
SaysPath(head, p) == [Says(head) EXCEPT !.path = p]

Screen(kind, what, callback) ==
  [kind |-> kind, what |-> what, callback |-> callback, run |-> FALSE]
Menu == [Screen("menu", Says("menu"), "none") EXCEPT !.run = TRUE]
BusyScreen == [Screen("busy", Says("busy"), "none") EXCEPT !.run = TRUE]

NoData == [kind |-> "none"]
NoReply == [code |-> NoCode, data |-> NoData, then |-> "none"]

-----------------------------------------------------------------------------
(***************************************************************************)
(* Operators that instruction modules build their actions from.            *)
(***************************************************************************)
On == crashed = NotCrashed
Sending == reply.code # NoCode

\* Just before the receiving io_exchange returns an APDU that the checks of
\* cardano_main let through to the handler of `ins`.
Accepts(ins) ==
  /\ On
  /\ ~Sending
  /\ ioState = "IO"
  /\ ~locked
  /\ currentInstruction \in {INS_NONE, ins}

IsNewCall == currentInstruction = INS_NONE

\* cardano_main sets io_state to IO_EXPECT_NONE before it calls a handler; a
\* button callback starts, and an answer is sent, in the state it finds.
IoStateInside == IF ioState = "IO" THEN "NONE" ELSE ioState

\* THROW / ASSERT of something that must not reach the host: the device resets.
Crash(cause) ==
  /\ crashed' = cause
  /\ UNCHANGED <<ioState, currentInstruction, display, reply, locked, awaiting>>

\* io_send_buf up to the io_exchange in which events may come; `then` is what
\* the code that called it does afterwards.
Respond(ins, code, data, then) ==
  /\ reply' = [code |-> code, data |-> data, then |-> then]
  /\ ioState' = IoStateInside
  /\ currentInstruction' = ins
  /\ display' = [display EXCEPT !.run = TRUE]
  /\ awaiting' = TRUE
  /\ UNCHANGED <<crashed, locked>>

\* A plausible bug: the screen appears but io_state is not set to IO_EXPECT_UI.
Show_NoIoState(ins, screen) ==
  /\ display' = screen
  /\ ioState' = IoStateInside
  /\ currentInstruction' = ins
  /\ awaiting' = TRUE
  /\ UNCHANGED <<crashed, reply, locked>>

\* Another one: uiCallback_init is forgotten, the button counts as pressed.
Show_KeepsRun(ins, screen) ==
  /\ display' = [screen EXCEPT !.run = display.run]
  /\ ioState' = "UI"
  /\ currentInstruction' = ins
  /\ awaiting' = TRUE
  /\ UNCHANGED <<crashed, reply, locked>>

\* ui_displayPaginatedText and ui_displayPrompt: a new screen, its callback not
\* yet run, and only the user can go on.
Show(ins, screen) ==
  /\ display' = screen
  /\ ioState' = "UI"
  /\ currentInstruction' = ins
  /\ awaiting' = TRUE
  /\ UNCHANGED <<crashed, reply, locked>>

ui_displayPaginatedText(ins, what, callback) == Show(ins, Screen("text", what, callback))
ui_displayPrompt(ins, what, callback) == Show(ins, Screen("prompt", what, callback))

\* The CATCH clauses of cardano_main around a handler.
Throw(ins, e) ==
  \/ e \in AutoRespond /\ Respond(ins, e, NoData, "idle")
  \/ e \notin AutoRespond /\ Crash(e)

\* What is on the screen once the answer is out (and a plausible bug: no busy
\* screen, so the screen that was answered stays).
ScreenAfter_NoBusy(then) == IF then = "idle" THEN Menu ELSE display
ScreenAfter(then) ==
  CASE then = "idle" -> Menu
    [] then = "busy" -> BusyScreen
    [] OTHER -> display

\* The end of a transmission: io_send_buf returns with io_state IO_EXPECT_IO and
\* its caller goes on with ui_idle, ui_displayBusy or neither.
Transmitted(then) ==
  /\ On
  /\ Sending
  /\ reply' = NoReply
  /\ ioState' = "IO"
  /\ awaiting' = FALSE
  /\ currentInstruction' = IF then = "idle" THEN INS_NONE ELSE currentInstruction
  /\ display' = ScreenAfter(then)
  /\ UNCHANGED <<crashed, locked>>

\* A plausible bug: without the callback state, a second press runs it again.
AwaitsButton_NoRunCheck(kinds) ==
  /\ On
  /\ ~locked
  /\ display.kind \in kinds

\* A press that uiCallback_confirm / uiCallback_reject does not ignore.  The OS
\* keeps the buttons of a locked device to itself.
AwaitsButton(kinds) ==
  /\ On
  /\ ~locked
  /\ display.kind \in kinds
  /\ ~display.run

\* The button handlers first assert that the application expects the user.
ButtonAsserts == ioState = "UI"
-----------------------------------------------------------------------------
(***************************************************************************)
(* Steps no instruction has a part in.                                     *)
(***************************************************************************)

\* What cardano_main itself answers an APDU with, in the order of its VALIDATEs.
MainLoopErrors ==
  IF locked
  THEN {ERR_DEVICE_LOCKED}
  ELSE {ERR_MALFORMED_REQUEST_HEADER, ERR_BAD_CLA, ERR_UNKNOWN_INS}
         \cup (IF IsNewCall THEN {} ELSE {ERR_STILL_IN_CALL})

RejectApdu ==
  /\ On
  /\ ~Sending
  /\ ioState = "IO"
  /\ \E e \in MainLoopErrors : Respond(currentInstruction, e, NoData, "idle")

\* An APDU while a screen waits for the user: the loop asserts it was expected.
ApduDuringUi ==
  /\ On
  /\ ~Sending
  /\ ioState # "IO"
  /\ Crash(ASSERT_IO_STATE)

\* What respond_with_user_reject does after its io_send_buf, and a plausible bug:
\* only the screen goes, and the call stays open.
RejectThen_NoIdle == "busy"
RejectThen == "idle"

\* The left button of a prompt: respond_with_user_reject.
UserRejects ==
  /\ AwaitsButton({"prompt"})
  /\ IF ButtonAsserts
     THEN Respond(currentInstruction, ERR_REJECTED_BY_USER, NoData, RejectThen)
     ELSE Crash(ASSERT_BUTTON)

\* main() from the top: after power-on, after EXCEPTION_IO_RESET.
Boot ==
  /\ crashed' = NotCrashed
  /\ ioState' = "IO"
  /\ currentInstruction' = INS_NONE
  /\ display' = Menu
  /\ reply' = NoReply
  /\ awaiting' = FALSE

\* USB unplugged, or an empty APDU: EXCEPTION_IO_RESET, from any wait.
IoReset == On /\ Boot /\ UNCHANGED locked

\* The user opens the application again after a device reset.
Restart == ~On /\ Boot /\ locked' = FALSE

\* The PIN screen comes and goes on its own, over whatever the application shows.
LockDevice ==
  /\ On
  /\ ~locked
  /\ locked' = TRUE
  /\ UNCHANGED <<crashed, ioState, currentInstruction, display, reply, awaiting>>

UnlockDevice ==
  /\ On
  /\ locked
  /\ locked' = FALSE
  /\ UNCHANGED <<crashed, ioState, currentInstruction, display, reply, awaiting>>

PlatformInit ==
  /\ crashed = NotCrashed
  /\ ioState = "IO"
  /\ currentInstruction = INS_NONE
  /\ display = Menu
  /\ reply = NoReply
  /\ locked = FALSE
  /\ awaiting = FALSE
-----------------------------------------------------------------------------
(***************************************************************************)
(* Properties of the platform.                                             *)
(***************************************************************************)

\* Exactly one answer per request: while the host waits the device is sending
\* the answer or showing a screen whose button leads to it, and when the host
\* does not wait the device is ready for the next APDU with nothing left to
\* send.  (io_state in io.c and main.c, the callbacks of uiHelpers.c.)
OneAnswerPerRequest ==
  On => /\ awaiting <=> ioState # "IO"
        /\ Sending => awaiting
        /\ awaiting /\ ~Sending =>
             /\ ioState = "UI"
             /\ display.kind \in {"text", "prompt"}
             /\ ~display.run
        /\ display.kind \in {"text", "prompt"} => ioState = "UI"

\* Between APDUs an open call shows the busy screen and a closed one the menu:
\* no screen of a finished request stays where its buttons could be pressed.
NoStaleScreen ==
  On /\ ~awaiting =>
    display.kind = IF currentInstruction = INS_NONE THEN "menu" ELSE "busy"

\* errors.h: "any such error will reset multi-APDU exchange".  When the
\* transmission of an error ends, the call it answered is over.
ErrorEndsCall ==
  [][On /\ Sending /\ reply.code # SUCCESS /\ reply'.code = NoCode
     => currentInstruction' = INS_NONE]_platformVars

\* An answer under transmission is never replaced by another one, though buttons
\* are delivered during the transmission (the CALLBACK_RUN state of uiHelpers.c).
NeverAnswersTwice ==
  [][Sending /\ On => ~On' \/ reply'.code = NoCode \/ UNCHANGED reply]_platformVars
=============================================================================
