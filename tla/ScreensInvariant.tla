-------------------------- MODULE ScreensInvariant --------------------------
(***************************************************************************)
(* The inductive invariant behind the safety properties of Screens: where  *)
(* the scroller can be and what it has shown, and when a timer can still   *)
(* be pending.                                                             *)
(***************************************************************************)
EXTENDS Screens

Kinds == {"text", "prompt"}
Asks == [kind: Kinds, what: Seq(Char)]

Memory == [magic: {"none"} \cup Kinds, fullText: Seq(Char), currentText: Seq(Char),
           scrollIndex: Nat]

Questions == [kind: Kinds, what: Seq(Char), callback: {"script"}, run: BOOLEAN]

\* What is still to be shown fits.
Showable(questions) ==
  /\ questions \in Seq(Asks)
  /\ \A k \in DOMAIN questions : TextFits(questions[k])

-----------------------------------------------------------------------------
\* The values TypeOK leaves open.
ValuesInv ==
  /\ memory \in Memory
  /\ display \in IF display.kind \in Kinds THEN Questions ELSE {Menu, BusyScreen}
  /\ ioState \in {"IO", "UI", "NONE"}
  /\ Showable(script)

\* The application waits for exactly one of: a request, the user, the end of a
\* transmission.
ControlInv ==
  /\ OneAnswerPerRequest
  /\ On /\ Sending => display.run
  /\ Sending => reply.then \in {"busy", "idle"}
  /\ ~Sending => reply = NoReply

\* The window is not moved further than to the end of the text.
WindowInv ==
  \/ memory.scrollIndex = 0
  \/ memory.scrollIndex + CURRENT_TEXT_SIZE <= 1 + Len(memory.fullText)

\* The user has seen a text from its beginning to at least where the window ends.
Reached(m) ==
  /\ seen = 1 .. m
  /\ memory.scrollIndex + Len(memory.currentText) <= m

ReadingInv ==
  On /\ display.kind = "text" => \E m \in 0 .. Len(memory.fullText) : Reached(m)

\* A pending timer is that of the screen that waits for the user, or it has been
\* left behind by somebody who pressed a button.
TimerInv ==
  On /\ timer # "none" =>
    /\ ioState = "UI" /\ ~display.run =>
         timer = display.kind /\ timerScreen = Question(display.kind, display.what)
    /\ "button" \notin touched => ioState = "UI" /\ ~display.run

\* The inductive invariant.
Inv ==
  /\ TypeOK
  /\ ValuesInv
  /\ ControlInv
  /\ WindowInv
  /\ ReadingInv
  /\ TimerInv
  /\ InternalAssertionsHold

-----------------------------------------------------------------------------
\* Questions that have not been put in this request, each of them once.
Fresh(questions) ==
  /\ \A j, k \in DOMAIN questions : questions[j] = questions[k] => j = k
  /\ \A k \in DOMAIN questions : questions[k] \notin asked

\* The history of the questions, and the answers after which a call goes on.
AskedInv ==
  /\ Phase \in {"ready", "down"} => asked = {}
  /\ Phase = "asking" => /\ Question(display.kind, display.what) \in asked
                         /\ Fresh(script)

EndsInv == Sending /\ reply.code # SUCCESS => reply.then = "idle"

\* What is needed besides Inv to see that the screens follow the protocol.
ProtocolInv == AskedInv /\ EndsInv
=============================================================================
