--------------------------- MODULE ScreensProofs ---------------------------
(***************************************************************************)
(* Proofs about Screens, for windows and buffers of any size that satisfy  *)
(* the assumptions, any texts and any series of screens, in the three      *)
(* builds.                                                                 *)
(*                                                                         *)
(* The invariant says that the union displayState holds the text of the    *)
(* screen that is up, that the window is the part of it its position says  *)
(* and never goes past the end, that the user has seen all of the text up  *)
(* to where the window ends, and that a timer that is set is that of the   *)
(* screen that is up or has been left behind by a press of a button. The   *)
(* last part proves that every step is one CallProtocol allows, or a       *)
(* stutter.                                                                *)
(***************************************************************************)
EXTENDS ScreensInvariant, SequenceTheorems, TLAPS

-----------------------------------------------------------------------------
(***************************************************************************)
(* Texts and screens.                                                      *)
(***************************************************************************)

\* The window is full, unless the text ends before it does.
LEMMA CopiedText ==
  ASSUME NEW text \in Seq(Char), NEW from \in 0 .. Len(text), NEW n \in Nat
  PROVE  /\ Copied(text, from, n) \in Seq(Char)
         /\ Len(Copied(text, from, n)) = IF from + n < Len(text) THEN n ELSE Len(text) - from
<1> DEFINE last == IF from + n < Len(text) THEN from + n ELSE Len(text)
<1>1. Len(text) \in Nat /\ from \in Nat
  BY LenProperties
<1>2. last \in Nat /\ last <= Len(text) /\ from <= last
  BY <1>1
<1>3. \A i \in from + 1 .. last : text[i] \in Char
  BY <1>1, <1>2, ElementOfSeq
<1>4. last - from = IF from + n < Len(text) THEN n ELSE Len(text) - from
  BY <1>1
<1> HIDE DEF last
<1>5. /\ SubSeq(text, from + 1, last) \in Seq(Char)
      /\ Len(SubSeq(text, from + 1, last)) = last - from
  <2>1. from + 1 \in Int /\ last \in Int
    BY <1>1, <1>2
  <2>2. /\ SubSeq(text, from + 1, last) \in Seq(Char)
        /\ Len(SubSeq(text, from + 1, last))
             = IF from + 1 <= last THEN last - (from + 1) + 1 ELSE 0
    BY <1>3, <2>1, SubSeqProperties
  <2> QED
    BY <1>1, <1>2, <2>2
<1> QED
  BY <1>4, <1>5 DEF Copied, last

\* The window over an empty text is empty.
LEMMA NothingCopied == <<>> = Copied(<<>>, 0, CURRENT_TEXT_SIZE - 1)
<1> DEFINE n == CURRENT_TEXT_SIZE - 1
<1>1. <<>> \in Seq(Char) /\ Len(<<>>) = 0 /\ 0 \in 0 .. Len(<<>>) /\ n \in Nat
  BY SizesAssumption
<1> HIDE DEF n
<1>2. /\ Copied(<<>>, 0, n) \in Seq(Char)
      /\ Len(Copied(<<>>, 0, n)) = IF 0 + n < Len(<<>>) THEN n ELSE Len(<<>>) - 0
  BY <1>1, CopiedText
<1>3. Len(Copied(<<>>, 0, n)) = 0
  BY <1>1, <1>2
<1> QED
  BY <1>2, <1>3, EmptySeq DEF n

\* The menu and the busy screen are no questions.
LEMMA PlainScreens ==
  /\ Menu.kind = "menu" /\ Menu.run = TRUE
  /\ BusyScreen.kind = "busy" /\ BusyScreen.run = TRUE
<1> HIDE DEF Says
<1> QED
  BY DEF Menu, BusyScreen, Screen

\* A screen once its button has been pressed, or something is sent behind it.
LEMMA PressedScreen ==
  ASSUME display \in IF display.kind \in Kinds THEN Questions ELSE {Menu, BusyScreen},
         NEW shown, shown = [display EXCEPT !.run = TRUE]
  PROVE  /\ shown \in IF shown.kind \in Kinds THEN Questions ELSE {Menu, BusyScreen}
         /\ shown.kind = display.kind /\ shown.what = display.what /\ shown.run = TRUE
<1>1. CASE display.kind \in Kinds
  BY <1>1 DEF Questions
<1>2. CASE display.kind \notin Kinds
  <2>1. display \in {Menu, BusyScreen}
    BY <1>2
  <2>2. shown = display
    <3> HIDE DEF Says
    <3> QED
      BY <2>1 DEF Menu, BusyScreen, Screen
  <2> QED
    BY <1>2, <2>1, <2>2, PlainScreens
<1> QED
  BY <1>1, <1>2

\* A new question on the screen.
LEMMA NewScreen ==
  ASSUME NEW q \in Asks
  PROVE  LET shown == Screen(q.kind, q.what, "script")
         IN /\ shown \in Questions
            /\ shown.kind = q.kind /\ shown.what = q.what /\ shown.run = FALSE
  BY DEF Asks, Questions, Screen

\* What ui_display leaves in memory: the window at the beginning of the text.
LEMMA FilledMemory ==
  ASSUME NEW q \in Asks, TextFits(q)
  PROVE  /\ Filled(q) \in Memory
         /\ Filled(q).magic = q.kind /\ Filled(q).fullText = q.what
         /\ Filled(q).scrollIndex = 0
         /\ Filled(q).currentText = Copied(q.what, 0, CURRENT_TEXT_SIZE - 1)
         /\ Len(Filled(q).currentText) \in 0 .. Len(q.what)
<1>1. q.what \in Seq(Char) /\ q.kind \in Kinds /\ Len(q.what) \in Nat
  BY LenProperties DEF Asks
<1>2. CURRENT_TEXT_SIZE - 1 \in Nat
  BY SizesAssumption
<1> DEFINE window == Copied(q.what, 0, CURRENT_TEXT_SIZE - 1)
<1>3. /\ window \in Seq(Char)
      /\ Len(window) = IF 0 + (CURRENT_TEXT_SIZE - 1) < Len(q.what)
                       THEN CURRENT_TEXT_SIZE - 1 ELSE Len(q.what) - 0
  <2> DEFINE n == CURRENT_TEXT_SIZE - 1
             text == q.what
  <2>1. text \in Seq(Char) /\ 0 \in 0 .. Len(text) /\ n \in Nat
    BY <1>1, <1>2
  <2> HIDE DEF n, text
  <2>2. /\ Copied(text, 0, n) \in Seq(Char)
        /\ Len(Copied(text, 0, n)) = IF 0 + n < Len(text) THEN n ELSE Len(text) - 0
    BY <2>1, CopiedText
  <2> QED
    BY <2>2 DEF n, text
<1>4. Len(window) \in 0 .. Len(q.what)
  BY <1>1, <1>2, <1>3
<1> HIDE DEF window
<1>5. Filled(q) = [magic |-> q.kind, fullText |-> q.what, currentText |-> window,
                   scrollIndex |-> 0]
  BY DEF Filled, window
<1>6. Filled(q) \in Memory
  BY <1>1, <1>3, <1>5 DEF Memory
<1> QED
  BY <1>4, <1>5, <1>6 DEF window

-----------------------------------------------------------------------------
(***************************************************************************)
(* What the steps are made of.                                             *)
(***************************************************************************)

\* What a step adds to the history of what happened to this run.
Touches == touched \subseteq touched' /\ touched' \subseteq {"button", "tick lost"}

\* The instruction and its screen stay as they are: what the outside does, a turn
\* of a flow, a timer that is lost.
LEMMA KeepInv ==
  ASSUME Inv, Touches,
         UNCHANGED <<crashed, ioState, display, reply, awaiting,
                     build, memory, script, seen, timerScreen>>,
         flowStep' \in {1, 2}, timer' \in {timer, "none"}
  PROVE  Inv'
<1>1. On' = On /\ Sending' = Sending
  BY DEF On, Sending
<1>2. TypeOK'
  BY <1>1 DEF Inv, TypeOK, Touches
<1>3. ValuesInv'
  BY DEF Inv, ValuesInv, Showable, TextFits
<1>4. ControlInv'
  BY <1>1 DEF Inv, ControlInv, OneAnswerPerRequest
<1>5. WindowInv' /\ ReadingInv'
  BY <1>1 DEF Inv, WindowInv, ReadingInv, Reached
<1>6. TimerInv'
  BY <1>1 DEF Inv, TimerInv, Touches
<1>7. InternalAssertionsHold'
  BY DEF Inv, InternalAssertionsHold, Touches
<1> QED
  BY <1>2, <1>3, <1>4, <1>5, <1>6, <1>7 DEF Inv

\* An assertion that may fail does.
LEMMA CrashInv ==
  ASSUME Inv, Touches, NEW cause, Crash(cause),
         UNCHANGED <<build, memory, flowStep, seen, timerScreen>>, Showable(script)',
         timer' \in {timer, "none"},
         \/ cause = ASSERT_IO_STATE
         \/ cause \in {ASSERT_TIMER, ASSERT_TICKER} /\ build = NanoSHeadless /\ "button" \in touched'
  PROVE  Inv'
<1>1. /\ crashed' = cause
      /\ UNCHANGED <<ioState, currentInstruction, display, reply, locked, awaiting>>
  BY DEF Crash
<1>2. ~On'
  BY <1>1 DEF On, NotCrashed, ASSERT_IO_STATE, ASSERT_TIMER, ASSERT_TICKER
<1>3. TypeOK'
  BY <1>2 DEF Inv, TypeOK, Touches
<1>4. ValuesInv'
  BY <1>1 DEF Inv, ValuesInv
<1>5. ControlInv'
  BY <1>1, <1>2 DEF Inv, ControlInv, OneAnswerPerRequest, Sending
<1>6. WindowInv' /\ ReadingInv' /\ TimerInv'
  BY <1>2 DEF Inv, WindowInv, ReadingInv, TimerInv
<1>7. InternalAssertionsHold'
  BY <1>1 DEF InternalAssertionsHold, ASSERT_IO_STATE, ASSERT_TIMER, ASSERT_TICKER,
              ASSERT_TEXT_SIZE, ASSERT_MAGIC, ASSERT_SCROLL, ASSERT_BUTTON
<1> QED
  BY <1>3, <1>4, <1>5, <1>6, <1>7 DEF Inv

\* An answer is sent.
LEMMA RespondInv ==
  ASSUME Inv, Touches, On, ~Sending, NEW ins, NEW code, NEW then \in {"busy", "idle"},
         code # NoCode, Respond(ins, code, NoData, then),
         UNCHANGED <<build, memory, flowStep, seen, timerScreen>>, Showable(script)',
         timer' \in {timer, "none"}, timer' # "none" => "button" \in touched'
  PROVE  Inv'
<1>1. /\ reply' = [code |-> code, data |-> NoData, then |-> then]
      /\ ioState' = IoStateInside /\ awaiting' = TRUE
      /\ display' = [display EXCEPT !.run = TRUE]
      /\ UNCHANGED crashed
  BY DEF Respond
<1>2. /\ display' \in IF display'.kind \in Kinds THEN Questions ELSE {Menu, BusyScreen}
      /\ display'.kind = display.kind /\ display'.what = display.what /\ display'.run = TRUE
  BY <1>1, PressedScreen DEF Inv, ValuesInv
<1>3. On' = On /\ Sending' /\ reply'.then = then
  BY <1>1 DEF On, Sending
<1>4. /\ ioState' \in {"UI", "NONE"}
      /\ display.kind \in Kinds => ioState' = "UI"
  BY <1>1 DEF Inv, ValuesInv, ControlInv, OneAnswerPerRequest, IoStateInside, Kinds
<1>5. TypeOK'
  BY <1>2, <1>3 DEF Inv, TypeOK, Touches
<1>6. ValuesInv'
  BY <1>2, <1>4 DEF Inv, ValuesInv
<1>7. ControlInv'
  BY <1>1, <1>2, <1>3, <1>4 DEF ControlInv, OneAnswerPerRequest, Kinds
<1>8. WindowInv' /\ ReadingInv'
  BY <1>2, <1>3 DEF Inv, WindowInv, ReadingInv, Reached
<1>9. TimerInv'
  BY <1>2 DEF TimerInv
<1>10. InternalAssertionsHold'
  BY <1>1 DEF Inv, InternalAssertionsHold, Touches
<1> QED
  BY <1>5, <1>6, <1>7, <1>8, <1>9, <1>10 DEF Inv

\* A question is put: the window is at its beginning, and the timer, if one is
\* set, is for this screen.
LEMMA ShowInv ==
  ASSUME Inv, Touches, On, ~Sending, NEW ins, NEW q \in Asks, TextFits(q),
         Show(ins, Screen(q.kind, q.what, "script")), memory' = Filled(q),
         seen' = 1 .. Len(memory'.currentText), UNCHANGED build, flowStep' = 1,
         Showable(script)',
         \/ timer' = "none"
         \/ timer' = q.kind /\ timerScreen' = q /\ build = NanoSHeadless
  PROVE  Inv'
<1>1. /\ display' = Screen(q.kind, q.what, "script")
      /\ ioState' = "UI" /\ awaiting' = TRUE /\ UNCHANGED <<crashed, reply>>
  BY DEF Show
<1>2. /\ display' \in Questions
      /\ display'.kind = q.kind /\ display'.what = q.what /\ display'.run = FALSE
  BY <1>1, NewScreen
<1>3. q.kind \in Kinds /\ q.what \in Seq(Char) /\ Len(q.what) \in Nat /\ q = Question(q.kind, q.what)
  BY LenProperties DEF Asks, Question
<1>4. /\ memory' \in Memory /\ memory'.magic = q.kind /\ memory'.fullText = q.what
      /\ memory'.scrollIndex = 0
      /\ memory'.currentText = Copied(q.what, 0, CURRENT_TEXT_SIZE - 1)
      /\ Len(memory'.currentText) \in 0 .. Len(q.what)
  BY FilledMemory
<1>5. On' /\ ~Sending'
  BY <1>1 DEF On, Sending
<1>6. TypeOK'
  <2>1. q.kind = "text" => Len(q.what) < FULL_TEXT_SIZE
    BY DEF TextFits
  <2>2. q.kind = "prompt" => Len(q.what) < PROMPT_TEXT_SIZE
    BY DEF TextFits
  <2>3. Len(memory'.fullText) < FULL_TEXT_SIZE
    BY <1>3, <1>4, <2>1, <2>2, SizesAssumption DEF Kinds
  <2>4. memory'.scrollIndex \in 0 .. FULL_TEXT_SIZE - CURRENT_TEXT_SIZE
    BY <1>4, SizesAssumption
  <2>5. timer' \in {"none", "text", "prompt"} /\ (timer' # "none" => build' = NanoSHeadless)
    BY <1>3 DEF Kinds
  <2> QED
    BY <1>2, <1>3, <1>4, <2>3, <2>4, <2>5 DEF Inv, TypeOK, Touches, Kinds
<1>7. ValuesInv'
  BY <1>1, <1>2, <1>3, <1>4 DEF ValuesInv
<1>8. ControlInv'
  BY <1>1, <1>2, <1>3, <1>5 DEF Inv, ControlInv, OneAnswerPerRequest, Kinds
<1>9. WindowInv' /\ ReadingInv'
  <2>1. memory'.scrollIndex + Len(memory'.currentText) <= Len(memory'.currentText)
    BY <1>3, <1>4
  <2>2. Reached(Len(memory.currentText))'
    BY <2>1 DEF Reached
  <2> QED
    BY <1>4, <2>2 DEF WindowInv, ReadingInv
<1>10. TimerInv'
  BY <1>1, <1>2, <1>3 DEF TimerInv
<1>11. InternalAssertionsHold'
  BY <1>1 DEF Inv, InternalAssertionsHold, Touches
<1> QED
  BY <1>6, <1>7, <1>8, <1>9, <1>10, <1>11 DEF Inv

\* The end of a transmission: the busy screen, with what was behind the last
\* question, or the menu.
LEMMA TransmittedInv ==
  ASSUME Inv, Touches, Transmitted(reply.then),
         UNCHANGED <<build, memory, flowStep, seen, timerScreen>>, Showable(script)',
         timer' = IF reply.then = "idle" THEN "none" ELSE timer,
         On /\ timer # "none" /\ "button" \notin touched => ~Sending
  PROVE  Inv'
<1>1. /\ On /\ Sending /\ reply' = NoReply /\ ioState' = "IO" /\ awaiting' = FALSE
      /\ display' = ScreenAfter(reply.then) /\ UNCHANGED crashed
  BY DEF Transmitted
<1>2. display' \in {Menu, BusyScreen} /\ display'.kind \notin Kinds /\ display'.run
  BY <1>1, PlainScreens DEF Inv, ControlInv, ScreenAfter, Kinds
<1>3. On' /\ ~Sending'
  BY <1>1 DEF On, Sending, NoReply
<1>4. timer' \in {timer, "none"}
  OBVIOUS
<1>5. TypeOK'
  BY <1>2, <1>4 DEF Inv, TypeOK, Touches, Kinds
<1>6. ValuesInv'
  BY <1>1, <1>2 DEF Inv, ValuesInv
<1>7. ControlInv'
  BY <1>1, <1>2, <1>3 DEF ControlInv, OneAnswerPerRequest, Kinds
<1>8. WindowInv' /\ ReadingInv'
  BY <1>2 DEF Inv, WindowInv, ReadingInv, Kinds
<1>9. TimerInv'
  BY <1>1, <1>4 DEF TimerInv, Touches
<1>10. InternalAssertionsHold'
  BY <1>1 DEF Inv, InternalAssertionsHold, Touches
<1> QED
  BY <1>5, <1>6, <1>7, <1>8, <1>9, <1>10 DEF Inv

\* main from the top.
LEMMA BootInv ==
  ASSUME Inv, Boot, memory' \in {memory, Zeroed}, flowStep' = 1, timer' = "none",
         script' = <<>>, touched' = {}, UNCHANGED <<build, seen, timerScreen>>
  PROVE  Inv'
<1>1. /\ crashed' = NotCrashed /\ ioState' = "IO" /\ display' = Menu /\ reply' = NoReply
      /\ awaiting' = FALSE
  BY DEF Boot
<1>2. display'.kind = "menu" /\ display'.run
  BY <1>1, PlainScreens
<1>3. /\ Zeroed \in Memory /\ Zeroed.magic = "none" /\ Zeroed.scrollIndex = 0
      /\ Zeroed.fullText = <<>> /\ Zeroed.currentText = <<>> /\ Len(<<>>) = 0
  BY DEF Zeroed, Memory
<1>4. TypeOK'
  <2>1. CASE memory' = memory
    BY <1>2, <2>1 DEF Inv, TypeOK
  <2>2. CASE memory' = Zeroed
    <3>1. <<>> = Copied(<<>>, 0, CURRENT_TEXT_SIZE - 1)
      BY NothingCopied
    <3>2. 0 < FULL_TEXT_SIZE /\ 0 \in 0 .. FULL_TEXT_SIZE - CURRENT_TEXT_SIZE
      BY SizesAssumption
    <3> QED
      BY <1>2, <1>3, <2>2, <3>1, <3>2 DEF Inv, TypeOK
  <2> QED
    BY <2>1, <2>2
<1>5. ValuesInv'
  BY <1>1, <1>2, <1>3 DEF Inv, ValuesInv, Kinds, Showable
<1>6. ControlInv'
  BY <1>1, <1>2 DEF ControlInv, OneAnswerPerRequest, Sending, NoReply
<1>7. WindowInv' /\ ReadingInv' /\ TimerInv'
  BY <1>2, <1>3 DEF Inv, WindowInv, ReadingInv, TimerInv
<1>8. InternalAssertionsHold'
  BY <1>1 DEF InternalAssertionsHold, NotCrashed, ASSERT_TIMER, ASSERT_TICKER,
              ASSERT_TEXT_SIZE, ASSERT_MAGIC, ASSERT_SCROLL, ASSERT_BUTTON
<1> QED
  BY <1>4, <1>5, <1>6, <1>7, <1>8 DEF Inv

\* The instruction goes on.
LEMMA GoOnInv ==
  ASSUME Inv, Touches, On, ~Sending, NEW ins, NEW todo, Showable(todo),
         NEW pending \in {timer, "none"}, pending # "none" => "button" \in touched',
         GoOn(ins, todo, pending)
  PROVE  Inv'
<1>1. CASE todo = <<>>
  <2>1. PICK then \in {"busy", "idle"} : Respond(ins, SUCCESS, NoData, then)
    BY <1>1 DEF GoOn
  <2>2. UNCHANGED <<build, memory, flowStep, script, seen, timerScreen>> /\ timer' = pending
    BY <1>1 DEF GoOn
  <2>3. Showable(script)'
    BY <2>2 DEF Inv, ValuesInv, Showable, TextFits
  <2>4. SUCCESS # NoCode
    BY DEF SUCCESS, NoCode
  <2> QED
    BY <2>1, <2>2, <2>3, <2>4, RespondInv
<1>2. CASE todo # <<>>
  <2> DEFINE q == Head(todo)
  <2>1. ui_display(ins, q, pending) /\ script' = Tail(todo) /\ UNCHANGED build
    BY <1>2 DEF GoOn
  <2>2. /\ q \in Asks /\ TextFits(q)
        /\ Showable(Tail(todo))
    <3>1. todo \in Seq(Asks) /\ \A k \in DOMAIN todo : TextFits(todo[k])
      BY DEF Showable
    <3>2. Len(todo) \in Nat /\ DOMAIN todo = 1 .. Len(todo) /\ Len(todo) # 0
      BY <1>2, <3>1, EmptySeq, LenProperties
    <3>3. 1 \in DOMAIN todo /\ q = todo[1] /\ q \in Asks
      BY <1>2, <3>1, <3>2
    <3>4. /\ Tail(todo) \in Seq(Asks) /\ Len(Tail(todo)) = Len(todo) - 1
          /\ \A i \in 1 .. Len(Tail(todo)) : Tail(todo)[i] = todo[i + 1]
      BY <1>2, <3>1, HeadTailProperties
    <3> DEFINE rest == Tail(todo)
    <3>5. DOMAIN rest = 1 .. Len(rest)
      BY <3>4, LenProperties
    <3>6. ASSUME NEW k \in DOMAIN rest
          PROVE  TextFits(rest[k])
      <4> HIDE DEF rest
      <4>1. k + 1 \in DOMAIN todo /\ rest[k] = todo[k + 1]
        BY <3>2, <3>4, <3>5 DEF rest
      <4> QED
        BY <3>1, <4>1
    <3> QED
      BY <3>1, <3>3, <3>4, <3>6 DEF Showable
  <2> HIDE DEF q
  <2> DEFINE set == IF build = NanoSHeadless THEN nanos_set_timer(pending, q.kind)
                                             ELSE [ok |-> TRUE, cb |-> pending]
  <2>3. /\ build = NanoSHeadless => set.ok = (pending = "none") /\ set.cb = q.kind
        /\ build # NanoSHeadless => set.ok = TRUE /\ set.cb = pending /\ pending = "none"
    BY DEF nanos_set_timer, Inv, TypeOK
  <2>4. \/ /\ set.ok
           /\ Show(ins, Screen(q.kind, q.what, "script"))
           /\ memory' = Filled(q)
           /\ flowStep' = 1
           /\ timer' = set.cb
           /\ seen' = 1 .. Len(memory'.currentText)
           /\ timerScreen' = IF set.cb # pending THEN q ELSE timerScreen
        \/ /\ ~set.ok
           /\ Crash(ASSERT_TIMER)
           /\ timer' = pending
           /\ UNCHANGED <<memory, flowStep, seen, timerScreen>>
    BY <2>1, <2>2 DEF ui_display
  <2> HIDE DEF set
  <2>5. CASE set.ok
    <3>1. Show(ins, Screen(q.kind, q.what, "script")) /\ memory' = Filled(q) /\ flowStep' = 1
          /\ timer' = set.cb /\ seen' = 1 .. Len(memory'.currentText)
          /\ timerScreen' = IF set.cb # pending THEN q ELSE timerScreen
      BY <2>4, <2>5
    <3>2. q.kind # "none"
      BY <2>2 DEF Asks, Kinds
    <3>3. \/ timer' = "none"
          \/ timer' = q.kind /\ timerScreen' = q /\ build = NanoSHeadless
      BY <2>3, <2>5, <3>1, <3>2
    <3>4. Showable(script)'
      BY <2>1, <2>2 DEF Showable, TextFits
    <3> QED
      BY <2>1, <2>2, <3>1, <3>3, <3>4, ShowInv
  <2>6. CASE ~set.ok
    <3>1. Crash(ASSERT_TIMER) /\ timer' = pending /\ UNCHANGED <<memory, flowStep, seen, timerScreen>>
      BY <2>4, <2>6
    <3>2. build = NanoSHeadless /\ "button" \in touched'
      BY <2>3, <2>6
    <3>3. Showable(script)'
      BY <2>1, <2>2 DEF Showable, TextFits
    <3> QED
      BY <2>1, <3>1, <3>2, <3>3, CrashInv
  <2> QED
    BY <2>5, <2>6
<1> QED
  BY <1>1, <1>2

\* One place to the left or to the right: the window stays full, and what the user
\* has seen of the text grows without a gap.
LEMMA ScrollInv ==
  ASSUME Inv, Touches, On, display.kind = "text", Scroll
  PROVE  Inv'
<1> DEFINE size == Len(memory.fullText)
           old == memory.scrollIndex
           width == CURRENT_TEXT_SIZE - 1
<1>1. UNCHANGED <<build, flowStep, timer, script, timerScreen>>
  BY DEF Scroll
<1>2. PICK index :
        /\ scroll_update_display_content(index)
        /\ \/ CanScrollLeft /\ index = old - 1
           \/ CanScrollRight /\ index = old + 1
  BY DEF Scroll
<1>3. /\ memory \in Memory /\ memory.magic = "text" /\ display.what = memory.fullText
      /\ memory.currentText = Copied(memory.fullText, old, width)
      /\ size < FULL_TEXT_SIZE
      /\ memory.fullText \in Seq(Char) /\ old \in Nat /\ size \in Nat
  BY LenProperties DEF Inv, TypeOK, ValuesInv, Memory
<1>4. /\ width \in Nat \ {0} /\ CURRENT_TEXT_SIZE = width + 1 /\ FULL_TEXT_SIZE \in Nat
  BY SizesAssumption
<1>5. /\ index \in Nat /\ old + width <= size /\ index + width <= size
      /\ index <= old + 1
  <2>1. old = 0 \/ old + CURRENT_TEXT_SIZE <= 1 + size
    BY DEF Inv, WindowInv
  <2>2. \/ old > 0 /\ index = old - 1
        \/ old + CURRENT_TEXT_SIZE < 1 + size /\ index = old + 1
    BY <1>2 DEF CanScrollLeft, CanScrollRight
  <2> HIDE DEF old, size, width
  <2> QED
    BY <1>3, <1>4, <2>1, <2>2
<1>6. ASSUME NEW from \in Nat, from + width <= size
      PROVE  /\ Copied(memory.fullText, from, width) \in Seq(Char)
             /\ Len(Copied(memory.fullText, from, width)) = width
  <2> DEFINE text == memory.fullText
  <2>1. from \in 0 .. Len(text)
    BY <1>3, <1>4, <1>6
  <2>2. text \in Seq(Char) /\ width \in Nat /\ Len(text) = size
    BY <1>3, <1>4
  <2> HIDE DEF text, width, size
  <2>3. /\ Copied(text, from, width) \in Seq(Char)
        /\ Len(Copied(text, from, width)) = IF from + width < Len(text) THEN width
                                                                        ELSE Len(text) - from
    BY <2>1, <2>2, CopiedText
  <2>4. ~(from + width < size) => size - from = width
    BY <1>3, <1>4, <1>6
  <2> QED
    BY <2>2, <2>3, <2>4 DEF text
<1>7. Len(memory.currentText) = width
  <2> HIDE DEF width, size
  <2> QED
    BY <1>3, <1>5, <1>6
<1> DEFINE window == Copied(memory.fullText, index, width)
<1>8. window \in Seq(Char) /\ Len(window) = width
  <2> HIDE DEF width, size
  <2> QED
    BY <1>5, <1>6
<1>9. /\ memory' = [memory EXCEPT !.scrollIndex = index, !.currentText = window]
      /\ seen' = seen \cup (index + 1 .. index + Len(memory'.currentText))
      /\ UNCHANGED platformVars
  <2>1. Len(memory.currentText) < CURRENT_TEXT_SIZE
    BY <1>4, <1>7
  <2>2. index + CURRENT_TEXT_SIZE <= FULL_TEXT_SIZE
    <3> HIDE DEF size, width
    <3> QED
      BY <1>3, <1>4, <1>5
  <2> QED
    BY <1>2, <2>1, <2>2 DEF scroll_update_display_content
<1> HIDE DEF window
<1>10. /\ memory' \in Memory /\ memory'.scrollIndex = index
       /\ memory'.currentText = window /\ memory'.magic = memory.magic
       /\ memory'.fullText = memory.fullText
  BY <1>3, <1>5, <1>8, <1>9 DEF Memory
<1>11. UNCHANGED <<crashed, ioState, display, reply, awaiting>> /\ On' = On /\ Sending' = Sending
  BY <1>9 DEF platformVars, On, Sending
<1>12. TypeOK'
  <2>1. index \in 0 .. FULL_TEXT_SIZE - CURRENT_TEXT_SIZE
    <3> HIDE DEF size, width
    <3> QED
      BY <1>3, <1>4, <1>5
  <2> QED
    BY <1>1, <1>10, <1>11, <2>1 DEF Inv, TypeOK, Touches, window
<1>13. ValuesInv'
  BY <1>1, <1>10, <1>11 DEF Inv, ValuesInv, Showable, TextFits
<1>14. ControlInv'
  BY <1>11 DEF Inv, ControlInv, OneAnswerPerRequest
<1>15. WindowInv'
  <2>1. index + CURRENT_TEXT_SIZE <= 1 + size
    <3> HIDE DEF size, width
    <3> QED
      BY <1>3, <1>4, <1>5
  <2> QED
    BY <1>10, <2>1 DEF WindowInv
<1>16. ReadingInv'
  <2>1. PICK m \in 0 .. size : Reached(m)
    BY DEF Inv, ReadingInv
  <2>2. seen = 1 .. m /\ old + width <= m
    BY <1>7, <2>1 DEF Reached
  <2> DEFINE most == IF m < index + width THEN index + width ELSE m
  <2>3. most \in 0 .. size /\ index + width <= most
    <3> HIDE DEF size, width
    <3> QED
      BY <1>3, <1>4, <1>5
  <2>4. seen' = 1 .. most
    <3>1. seen' = (1 .. m) \cup (index + 1 .. index + width)
      BY <1>8, <1>9, <1>10, <2>2
    <3>2. index <= m
      <4> HIDE DEF size, width, old
      <4> QED
        BY <1>3, <1>4, <1>5, <2>2
    <3>3. (1 .. m) \cup (index + 1 .. index + width) = 1 .. most
      <4>1. m \in Nat /\ index \in Nat /\ width \in Nat
        BY <1>3, <1>4, <1>5
      <4> HIDE DEF size, width
      <4> QED
        BY <3>2, <4>1
    <3> QED
      BY <3>1, <3>3
  <2> HIDE DEF most, width
  <2>5. Reached(most)'
    BY <1>8, <1>10, <2>3, <2>4 DEF Reached
  <2> QED
    BY <1>10, <2>3, <2>5 DEF ReadingInv
<1>17. TimerInv'
  BY <1>1, <1>11 DEF Inv, TimerInv, Touches
<1>18. InternalAssertionsHold'
  BY <1>1, <1>11 DEF Inv, InternalAssertionsHold, Touches
<1> QED
  BY <1>12, <1>13, <1>14, <1>15, <1>16, <1>17, <1>18 DEF Inv

-----------------------------------------------------------------------------
(***************************************************************************)
(* The steps.                                                              *)
(***************************************************************************)

\* A question whose screen waits is the one in memory, and the application expects
\* the user: the assertions of the button handlers hold.
LEMMA ScreenIsInMemory ==
  ASSUME Inv, On, display.kind \in Kinds
  PROVE  memory.magic = display.kind /\ ioState = "UI" /\ (~display.run => ~Sending)
  BY DEF Inv, TypeOK, ControlInv, OneAnswerPerRequest, Kinds

\* The user goes on to the next screen, or to the answer.
LEMMA ConfirmInv ==
  ASSUME Inv, On, display.kind \in Kinds, Confirm, touched' = touched \cup {"button"}
  PROVE  Inv'
<1>1. ~display.run /\ GoOn(currentInstruction, script, timer)
  BY DEF Confirm
<1>2. ~Sending /\ Showable(script) /\ Touches /\ "button" \in touched'
  BY <1>1, ScreenIsInMemory DEF Inv, ValuesInv, TypeOK, Touches
<1> QED
  BY <1>1, <1>2, GoOnInv

\* The user rejects.
LEMMA RejectInv ==
  ASSUME Inv, On, display.kind \in Kinds, Reject, touched' = touched \cup {"button"}
  PROVE  Inv'
<1>1. /\ ~display.run
      /\ Respond(currentInstruction, ERR_REJECTED_BY_USER, NoData, "idle")
      /\ UNCHANGED <<screenVars, seen, timerScreen>>
  BY DEF Reject, RejectThen, NoScreenStep
<1>2. UNCHANGED <<build, memory, flowStep, timer, script, seen, timerScreen>>
  BY <1>1 DEF screenVars
<1>3. ~Sending /\ Showable(script)' /\ Touches /\ "button" \in touched'
  BY <1>1, <1>2, ScreenIsInMemory DEF Inv, ValuesInv, TypeOK, Touches, Showable, TextFits
<1>4. ERR_REJECTED_BY_USER # NoCode
  BY DEF ERR_REJECTED_BY_USER, NoCode
<1> QED
  BY <1>1, <1>2, <1>3, <1>4, RespondInv

\* A button of the Nano S, or of the Nano X.
LEMMA ButtonStepInv ==
  ASSUME Inv, ButtonStep
  PROVE  Inv'
<1>1. Buttons /\ touched' = touched \cup {"button"} /\ Touches
  BY DEF ButtonStep, Inv, TypeOK, Touches
<1>2. CASE ui_paginatedText_button
  <2>1. On /\ display.kind = "text" /\ display.kind \in Kinds
    BY <1>2 DEF ui_paginatedText_button, Pressed, Kinds
  <2>2. HandlerAsserts
    BY <2>1, ScreenIsInMemory DEF HandlerAsserts, ButtonAsserts
  <2>3. Scroll \/ Confirm
    BY <1>2, <2>2 DEF ui_paginatedText_button
  <2> QED
    BY <1>1, <2>1, <2>3, ScrollInv, ConfirmInv
<1>3. CASE ui_prompt_button
  <2>1. On /\ display.kind \in Kinds
    BY <1>3 DEF ui_prompt_button, Pressed, Kinds
  <2>2. HandlerAsserts
    BY <2>1, ScreenIsInMemory DEF HandlerAsserts, ButtonAsserts
  <2>3. Confirm \/ Reject
    BY <1>3, <2>2 DEF ui_prompt_button
  <2> QED
    BY <1>1, <2>1, <2>3, ConfirmInv, RejectInv
<1>4. CASE paginated_text_confirm
  <2>1. On /\ display.kind \in Kinds
    BY <1>4 DEF paginated_text_confirm, Pressed, Kinds
  <2>2. Confirm
    BY <1>4, <2>1, ScreenIsInMemory DEF paginated_text_confirm, FlowAsserts
  <2> QED
    BY <1>1, <2>1, <2>2, ConfirmInv
<1>5. CASE TurnPromptFlow
  <2>1. /\ UNCHANGED platformVars
        /\ UNCHANGED <<build, memory, timer, script, seen, timerScreen>>
        /\ flowStep' = 3 - flowStep
    BY <1>5 DEF TurnPromptFlow
  <2>2. UNCHANGED <<crashed, ioState, display, reply, awaiting>>
    BY <2>1 DEF platformVars
  <2>3. flowStep' \in {1, 2}
    <3>1. flowStep \in {1, 2}
      BY DEF Inv, TypeOK
    <3> QED
      BY <2>1, <3>1
  <2> QED
    BY <1>1, <2>1, <2>2, <2>3, KeepInv
<1>6. CASE ClickPromptFlow
  <2>1. On /\ display.kind \in Kinds
    BY <1>6 DEF ClickPromptFlow, Pressed, Kinds
  <2>2. Confirm \/ Reject
    BY <1>6, <2>1, ScreenIsInMemory DEF ClickPromptFlow, FlowAsserts
  <2> QED
    BY <1>1, <2>1, <2>2, ConfirmInv, RejectInv
<1> QED
  BY <1>1, <1>2, <1>3, <1>4, <1>5, <1>6 DEF Buttons

\* The timer of a HEADLESS build runs out.
LEMMA TickStepInv ==
  ASSUME Inv, TickStep
  PROVE  Inv'
<1> DEFINE asserts == memory.magic = timer /\ ioState = "UI"
<1>1. /\ On /\ timer # "none" /\ Touches
      /\ \/ ~locked /\ asserts /\ ~display.run /\ GoOn(currentInstruction, script, "none")
         \/ /\ timer' = "none"
            /\ UNCHANGED <<platformVars, build, memory, flowStep, script, seen, timerScreen>>
         \/ /\ ~asserts
            /\ Crash(ASSERT_TICKER)
            /\ timer' = "none"
            /\ UNCHANGED <<build, memory, flowStep, script, seen, timerScreen>>
  BY DEF TickStep, Tick, Inv, TypeOK, Touches
<1>2. CASE ~locked /\ asserts /\ ~display.run /\ GoOn(currentInstruction, script, "none")
  <2>1. ~Sending /\ Showable(script)
    BY <1>1, <1>2 DEF Inv, ControlInv, ValuesInv
  <2> QED
    BY <1>1, <1>2, <2>1, GoOnInv
<1>3. CASE /\ timer' = "none"
           /\ UNCHANGED <<platformVars, build, memory, flowStep, script, seen, timerScreen>>
  <2>1. UNCHANGED <<crashed, ioState, display, reply, awaiting>> /\ flowStep' \in {1, 2}
    BY <1>3 DEF platformVars, Inv, TypeOK
  <2> QED
    BY <1>1, <1>3, <2>1, KeepInv
<1>4. CASE /\ ~asserts
           /\ Crash(ASSERT_TICKER)
           /\ timer' = "none"
           /\ UNCHANGED <<build, memory, flowStep, script, seen, timerScreen>>
  <2>1. "button" \in touched
    <3> SUFFICES ASSUME "button" \notin touched PROVE FALSE
      OBVIOUS
    <3>1. ioState = "UI" /\ ~display.run /\ timer = display.kind
      BY <1>1 DEF Inv, TimerInv
    <3>2. display.kind \in Kinds
      BY <1>1, <3>1 DEF Inv, TypeOK, Kinds
    <3> QED
      BY <1>1, <1>4, <3>1, <3>2, ScreenIsInMemory
  <2>2. build = NanoSHeadless /\ Showable(script)'
    BY <1>1, <1>4 DEF Inv, TypeOK, ValuesInv, Showable, TextFits
  <2>3. "button" \in touched'
    BY <1>1, <2>1 DEF Touches
  <2> QED
    BY <1>1, <1>4, <2>2, <2>3, CrashInv
<1> QED
  BY <1>1, <1>2, <1>3, <1>4

\* The application is ready for a request: a timer that is still pending has been
\* left behind by somebody who pressed a button.
LEMMA ReadyTimer ==
  ASSUME Inv, On, ioState # "UI", timer # "none"
  PROVE  "button" \in touched
  BY DEF Inv, TimerInv

\* A request of the instruction.
LEMMA RequestStepInv ==
  ASSUME Inv, RequestStep
  PROVE  Inv'
<1>1. PICK s \in Scripts : GoOn(INS, s, timer)
  BY DEF RequestStep, Request
<1>2. On /\ ~Sending /\ ioState = "IO" /\ touched' = touched /\ Touches
  BY DEF RequestStep, Request, Accepts, Inv, TypeOK, Touches
<1>3. Showable(s)
  <2>1. /\ s \in Seq([kind: {"text", "prompt"}, what: Seq(Char)])
        /\ \A k \in DOMAIN s :
             \/ s[k].kind = "text" /\ Len(s[k].what) < FULL_TEXT_SIZE
             \/ s[k].kind = "prompt" /\ Len(s[k].what) < PROMPT_TEXT_SIZE
    BY ScriptsAssumption
  <2> QED
    BY <2>1 DEF Showable, TextFits, Asks, Kinds
<1>4. timer # "none" => "button" \in touched'
  BY <1>2, ReadyTimer
<1> QED
  BY <1>1, <1>2, <1>3, <1>4, GoOnInv

\* The end of a transmission.
LEMMA SendStepInv ==
  ASSUME Inv, SendStep
  PROVE  Inv'
<1>1. /\ Transmitted(reply.then)
      /\ timer' = IF reply.then = "idle" THEN "none" ELSE timer
      /\ script' = IF reply.then = "idle" THEN <<>> ELSE script
      /\ UNCHANGED <<build, memory, flowStep, seen, timerScreen>>
      /\ touched' = touched
  BY DEF SendStep, SendDone
<1>2. Touches
  BY <1>1 DEF Inv, TypeOK, Touches
<1>3. Showable(script)'
  BY <1>1 DEF Inv, ValuesInv, Showable, TextFits
<1>4. On /\ timer # "none" /\ "button" \notin touched => ~Sending
  BY DEF Inv, TimerInv, ControlInv
<1> QED
  BY <1>1, <1>2, <1>3, <1>4, TransmittedInv

\* The device is locked, unlocked, or gets an APDU that the main loop answers or
\* does not expect.
LEMMA OutsideInv ==
  ASSUME Inv, LockStep \/ OtherStep
  PROVE  Inv'
<1>1. /\ UNCHANGED <<build, memory, flowStep, timer, script, seen, timerScreen>>
      /\ flowStep' \in {1, 2} /\ Touches
  BY DEF LockStep, OtherStep, NoScreenStep, screenVars, Inv, TypeOK, Touches
<1>2. Showable(script)'
  BY <1>1 DEF Inv, ValuesInv, Showable, TextFits
<1>3. CASE LockDevice \/ UnlockDevice
  <2>1. UNCHANGED <<crashed, ioState, display, reply, awaiting>>
    BY <1>3 DEF LockDevice, UnlockDevice
  <2> QED
    BY <1>1, <2>1, KeepInv
<1>4. CASE RejectApdu
  <2>1. PICK e \in MainLoopErrors : Respond(currentInstruction, e, NoData, "idle")
    BY <1>4 DEF RejectApdu
  <2>2. On /\ ~Sending /\ ioState = "IO"
    BY <1>4 DEF RejectApdu
  <2>3. e # NoCode
    BY DEF MainLoopErrors, NoCode, ERR_DEVICE_LOCKED, ERR_MALFORMED_REQUEST_HEADER,
           ERR_BAD_CLA, ERR_UNKNOWN_INS, ERR_STILL_IN_CALL
  <2>4. timer' # "none" => "button" \in touched'
    BY <1>1, <2>2, ReadyTimer DEF Touches
  <2> QED
    BY <1>1, <1>2, <2>1, <2>2, <2>3, <2>4, RespondInv
<1>5. CASE ApduDuringUi
  <2>1. Crash(ASSERT_IO_STATE)
    BY <1>5 DEF ApduDuringUi
  <2> QED
    BY <1>1, <1>2, <2>1, CrashInv
<1> QED
  BY <1>3, <1>4, <1>5 DEF LockStep, OtherStep

\* main starts over.
LEMMA StartStepInv ==
  ASSUME Inv, StartStep
  PROVE  Inv'
<1>1. Boot /\ memory' \in {memory, Zeroed}
  BY DEF StartStep, StartOver, IoReset, Restart
<1>2. /\ flowStep' = 1 /\ timer' = "none" /\ script' = <<>> /\ touched' = {}
      /\ UNCHANGED <<build, seen, timerScreen>>
  BY DEF StartStep, StartOver
<1> QED
  BY <1>1, <1>2, BootInv

-----------------------------------------------------------------------------
(***************************************************************************)
(* The invariant, and what it is for.                                      *)
(***************************************************************************)

\* The invariant holds when the application is opened.
LEMMA InitInv ==
  ASSUME Init
  PROVE  Inv
<1>1. /\ crashed = NotCrashed /\ ioState = "IO" /\ display = Menu /\ reply = NoReply
      /\ awaiting = FALSE
  BY DEF Init, PlatformInit
<1>2. display.kind = "menu" /\ display.run
  BY <1>1, PlainScreens
<1>3. /\ memory \in Memory /\ memory.magic = "none" /\ memory.scrollIndex = 0
      /\ memory.fullText = <<>> /\ memory.currentText = <<>> /\ Len(<<>>) = 0
  BY DEF Init, Zeroed, Memory
<1>4. TypeOK
  <2>1. <<>> = Copied(<<>>, 0, CURRENT_TEXT_SIZE - 1)
    BY NothingCopied
  <2>2. 0 < FULL_TEXT_SIZE /\ 0 \in 0 .. FULL_TEXT_SIZE - CURRENT_TEXT_SIZE
    BY SizesAssumption
  <2> QED
    BY <1>2, <1>3, <2>1, <2>2 DEF Init, TypeOK
<1>5. ValuesInv
  BY <1>1, <1>2, <1>3 DEF Init, ValuesInv, Kinds, Showable
<1>6. ControlInv
  BY <1>1, <1>2 DEF ControlInv, OneAnswerPerRequest, Sending, NoReply
<1>7. WindowInv /\ ReadingInv /\ TimerInv
  BY <1>2, <1>3 DEF Init, WindowInv, ReadingInv, TimerInv
<1>8. InternalAssertionsHold
  BY <1>1 DEF InternalAssertionsHold, NotCrashed, ASSERT_TIMER, ASSERT_TICKER,
              ASSERT_TEXT_SIZE, ASSERT_MAGIC, ASSERT_SCROLL, ASSERT_BUTTON
<1> QED
  BY <1>4, <1>5, <1>6, <1>7, <1>8 DEF Inv

\* Every step keeps it.
LEMMA NextInv ==
  ASSUME Inv, [Next]_vars
  PROVE  Inv'
<1>1. CASE Next
  BY <1>1, ButtonStepInv, TickStepInv, SendStepInv, RequestStepInv, OutsideInv, StartStepInv
     DEF Next
<1>2. CASE UNCHANGED vars
  <2>1. /\ UNCHANGED <<crashed, ioState, display, reply, awaiting>>
        /\ UNCHANGED <<build, memory, flowStep, timer, script, seen, timerScreen, touched>>
    BY <1>2 DEF vars, platformVars, screenVars, histories
  <2>2. Touches /\ flowStep' \in {1, 2}
    BY <2>1 DEF Inv, TypeOK, Touches
  <2> QED
    BY <2>1, <2>2, KeepInv
<1> QED
  BY <1>1, <1>2

\* The window, what it has shown and a timer that is pending stay where they belong.
THEOREM Invariant == Spec => []Inv
<1>1. Init => Inv
  BY InitInv
<1>2. Inv /\ [Next]_vars => Inv'
  BY NextInv
<1> QED
  BY <1>1, <1>2, PTL DEF Spec

\* The strings behind a screen are terminated inside their arrays and the window is
\* that of the scroll index, for buffers of any size and texts that fit them.
THEOREM TypeCorrect == Spec => []TypeOK
<1>1. Inv => TypeOK
  BY DEF Inv
<1> QED
  BY <1>1, Invariant, PTL

\* No assertion behind a screen fails, whatever is pressed and when; those of the
\* timer only after a press on a HEADLESS build.
THEOREM NoInternalAssertFails == Spec => []InternalAssertionsHold
<1>1. Inv => InternalAssertionsHold
  BY DEF Inv
<1> QED
  BY <1>1, Invariant, PTL

\* The arrow to the right is drawn exactly as long as there is more to read, and
\* when it is gone the user has had the whole text in the window.
LEMMA ReadToTheEnd ==
  ASSUME Inv
  PROVE  UserReadsToTheEnd
<1> SUFFICES ASSUME On, OnNanoS, display.kind = "text"
             PROVE  /\ ~ShowsArrowRight \/ TextFitsSinglePage => seen = 1 .. Len(display.what)
                    /\ memory.scrollIndex + Len(memory.currentText) < Len(display.what) =>
                         ShowsArrowRight /\ CanScrollRight
                    /\ memory.scrollIndex > 0 => ShowsArrowLeft /\ CanScrollLeft
  BY DEF UserReadsToTheEnd
<1> DEFINE text == memory.fullText
           size == Len(text)
           index == memory.scrollIndex
           n == CURRENT_TEXT_SIZE - 1
           shown == Len(memory.currentText)
<1>1. /\ display.what = text /\ text \in Seq(Char) /\ size \in Nat /\ index \in Nat
      /\ memory.currentText = Copied(text, index, n)
      /\ index = 0 \/ index + CURRENT_TEXT_SIZE <= 1 + size
  BY LenProperties DEF Inv, TypeOK, ValuesInv, Memory, WindowInv
<1>2. n \in Nat \ {0} /\ CURRENT_TEXT_SIZE = n + 1
  BY SizesAssumption
<1>3. PICK m \in 0 .. size : seen = 1 .. m /\ index + shown <= m
  BY DEF Inv, ReadingInv, Reached
<1>4. /\ ShowsArrowRight <=> index + CURRENT_TEXT_SIZE < size + 1 \/ shown >= size
      /\ TextFitsSinglePage <=> shown >= size
      /\ CanScrollRight <=> index + CURRENT_TEXT_SIZE < 1 + size
      /\ ShowsArrowLeft <=> index # 0 \/ shown >= size
      /\ CanScrollLeft <=> index > 0
  BY DEF ShowsArrowRight, TextFitsSinglePage, CanScrollRight, ShowsArrowLeft, CanScrollLeft
<1> HIDE DEF n
<1>5. index <= size
  BY <1>1, <1>2
<1>6. shown = IF index + n < size THEN n ELSE size - index
  <2>1. index \in 0 .. Len(text)
    BY <1>1, <1>5
  <2> HIDE DEF index, text
  <2>2. Len(Copied(text, index, n)) = IF index + n < Len(text) THEN n ELSE Len(text) - index
    BY <1>1, <1>2, <2>1, CopiedText
  <2> QED
    BY <1>1, <2>2
<1> HIDE DEF size, index, shown
<1>7. ~ShowsArrowRight \/ TextFitsSinglePage => m = size
  <2>1. m \in Nat /\ m <= size
    BY <1>1, <1>3
  <2> QED
    BY <1>1, <1>2, <1>3, <1>4, <1>5, <1>6, <2>1
<1>8. index + shown < size => index + n < size
  BY <1>1, <1>2, <1>5, <1>6
<1>9. index + shown < size => ShowsArrowRight /\ CanScrollRight
  BY <1>1, <1>2, <1>4, <1>8
<1>10. index > 0 => ShowsArrowLeft /\ CanScrollLeft
  BY <1>1, <1>4
<1> QED
  BY <1>1, <1>3, <1>7, <1>9, <1>10 DEF size, index, shown

\* A user who follows the arrow to the right has read all of the text, whatever
\* its length and the width of the window.
THEOREM ReadsToTheEnd == Spec => []UserReadsToTheEnd
<1>1. Inv => UserReadsToTheEnd
  BY ReadToTheEnd
<1> QED
  BY <1>1, Invariant, PTL

\* A timer never confirms a screen it was not set for.
THEOREM TimerIsOfItsScreen == Spec => []TimerConfirmsItsOwnScreen
<1>1. Inv => TimerConfirmsItsOwnScreen
  BY DEF Inv, TimerInv, TimerConfirmsItsOwnScreen
<1> QED
  BY <1>1, Invariant, PTL

-----------------------------------------------------------------------------
(***************************************************************************)
(* The screens follow the protocol between a host and a user.              *)
(***************************************************************************)

\* What the outside sees, case by case.
LEMMA PhaseIs ==
  ASSUME NEW cause, NEW rep, NEW io
  PROVE  /\ cause # NotCrashed => PhaseOf(cause, rep, io) = "down"
         /\ cause = NotCrashed /\ rep.code # NoCode => PhaseOf(cause, rep, io) = "sending"
         /\ cause = NotCrashed /\ rep.code = NoCode /\ io = "IO" =>
              PhaseOf(cause, rep, io) = "ready"
         /\ cause = NotCrashed /\ rep.code = NoCode /\ io = "UI" =>
              PhaseOf(cause, rep, io) = "asking"
<1>1. CASE cause # NotCrashed
  BY <1>1 DEF PhaseOf
<1>2. CASE cause = NotCrashed /\ rep.code # NoCode
  BY <1>2 DEF PhaseOf
<1>3. CASE cause = NotCrashed /\ rep.code = NoCode /\ io = "IO"
  BY <1>3 DEF PhaseOf
<1>4. CASE cause = NotCrashed /\ rep.code = NoCode /\ io = "UI"
  BY <1>4 DEF PhaseOf
<1> QED
  BY <1>1, <1>2, <1>3, <1>4

\* The phase of a state, and the one of the next.
LEMMA PhaseNow ==
  ASSUME Inv
  PROVE  /\ ~On => Phase = "down"
         /\ On /\ Sending => Phase = "sending"
         /\ On /\ ~Sending /\ ioState = "IO" => Phase = "ready"
         /\ On /\ ~Sending /\ ioState # "IO" => Phase = "asking" /\ ioState = "UI"
<1>1. On /\ ~Sending /\ ioState # "IO" => ioState = "UI"
  BY DEF Inv, ControlInv, OneAnswerPerRequest
<1> QED
  BY <1>1, PhaseIs DEF Phase, On, Sending

\* The phase of CallProtocol after a step, by what the program is then waiting for.
LEMMA PhaseNext ==
  /\ ~On' => Phase' = "down"
  /\ On' /\ Sending' => Phase' = "sending"
  /\ On' /\ ~Sending' /\ ioState' = "IO" => Phase' = "ready"
  /\ On' /\ ~Sending' /\ ioState' = "UI" => Phase' = "asking"
  BY PhaseIs DEF Phase, On, Sending

\* What is remembered of the questions.
LEMMA Remembered ==
  ASSUME Remember
  PROVE  /\ Phase' \in {"ready", "down"} => asked' = {}
         /\ Phase' = "asking" => asked' = asked \cup {Question(display'.kind, display'.what)}
         /\ Phase' = "sending" => asked' = asked
<1> DEFINE next == PhaseOf(crashed', reply', ioState')
<1>1. Phase' = next
  BY DEF Phase
<1>2. asked' = CASE next \in {"ready", "down"} -> {}
                 [] next = "asking" -> asked \cup {Question(display'.kind, display'.what)}
                 [] OTHER -> asked
  BY DEF Remember
<1> HIDE DEF next
<1>3. CASE next \in {"ready", "down"}
  BY <1>1, <1>2, <1>3
<1>4. CASE next = "asking"
  BY <1>1, <1>2, <1>4
<1>5. CASE next = "sending"
  BY <1>1, <1>2, <1>5
<1> QED
  BY <1>1, <1>3, <1>4, <1>5

\* What the abstract protocol sees of a state.
call == IF On THEN currentInstruction ELSE INS_NONE
question == IF Phase = "asking" THEN Question(display.kind, display.what) ELSE [kind |-> "none"]
answer == IF On THEN reply.code ELSE NoCode

\* A new question is one in the protocol.
LEMMA ShowAsks ==
  ASSUME On, ~Sending, Remember, NEW ins, NEW q \in Asks, q \notin asked,
         Show(ins, Screen(q.kind, q.what, "script"))
  PROVE  /\ Protocol!Ask /\ Phase' = "asking" /\ asked' = asked \cup {q}
         /\ Question(display'.kind, display'.what) = q
         /\ call' = ins /\ locked' = locked /\ On'
<1>1. /\ display' = Screen(q.kind, q.what, "script") /\ ioState' = "UI"
      /\ currentInstruction' = ins /\ UNCHANGED <<crashed, reply, locked>>
  BY DEF Show
<1>2. On' /\ ~Sending'
  BY <1>1 DEF On, Sending
<1>3. Phase' = "asking"
  BY <1>1, <1>2, PhaseNext
<1>4. Question(display'.kind, display'.what) = q
  BY <1>1, NewScreen DEF Asks, Question
<1>5. asked' = asked \cup {q}
  BY <1>3, <1>4, Remembered
<1>6. q.kind # "none"
  BY DEF Asks, Kinds
<1>7. q # [kind |-> "none"]
  BY <1>6
<1>8. reply'.code = NoCode
  BY <1>2 DEF Sending
<1>9. Protocol!Ask
  BY <1>2, <1>3, <1>4, <1>5, <1>7, <1>8 DEF Protocol!Ask, Protocol!NoAnswer, NoCode
<1> QED
  BY <1>1, <1>2, <1>3, <1>4, <1>5, <1>9 DEF call

\* An answer is one in the protocol.
LEMMA RespondAnswers ==
  ASSUME On, Remember, NEW ins, NEW code, NEW data, NEW then, code # NoCode,
         Respond(ins, code, data, then)
  PROVE  /\ Protocol!Answer /\ Phase' = "sending" /\ asked' = asked
         /\ call' = ins /\ answer' = code /\ locked' = locked /\ On'
         /\ Sending' /\ reply'.code = code /\ reply'.then = then
<1>1. /\ reply' = [code |-> code, data |-> data, then |-> then]
      /\ currentInstruction' = ins /\ UNCHANGED <<crashed, locked>>
  BY DEF Respond
<1>2. On' /\ Sending' /\ reply'.code = code /\ reply'.then = then
  BY <1>1 DEF On, Sending
<1>3. Phase' = "sending"
  BY <1>2, PhaseNext
<1>4. asked' = asked
  BY <1>3, Remembered
<1>5. Protocol!Answer
  BY <1>2, <1>3, <1>4 DEF Protocol!Answer, Protocol!NoAnswer, NoCode
<1> QED
  BY <1>1, <1>2, <1>3, <1>4, <1>5 DEF call, answer

\* A failed assertion is a failure in the protocol.
LEMMA CrashFails ==
  ASSUME Inv, On, Remember, NEW cause, Crash(cause), cause # NotCrashed
  PROVE  Protocol!Fail /\ Phase' = "down" /\ asked' = {}
<1>1. crashed' = cause /\ UNCHANGED <<reply, locked>>
  BY DEF Crash
<1>2. ~On'
  BY <1>1 DEF On
<1>3. Phase' = "down" /\ asked' = {}
  BY <1>2, PhaseNext, Remembered
<1>4. Phase # "down"
  BY PhaseNow DEF Inv, ControlInv, OneAnswerPerRequest
<1> QED
  BY <1>1, <1>2, <1>3, <1>4
     DEF Protocol!Fail, Protocol!Forgotten, Protocol!NoAnswer, NoCode

\* A step that leaves the platform alone is none in the protocol.
LEMMA Stutters ==
  ASSUME Inv, AskedInv, Remember,
         UNCHANGED <<crashed, reply, ioState, display, currentInstruction>>
  PROVE  Phase' = Phase /\ asked' = asked /\ (locked' = locked => UNCHANGED Protocol!vars)
<1>1. On' = On /\ Sending' = Sending
  BY DEF On, Sending
<1>2. Phase' = Phase
  BY DEF Phase
<1>3. Phase \in {"down", "sending", "ready", "asking"}
  BY PhaseNow
<1>4. asked' = asked
  BY <1>2, <1>3, Remembered DEF AskedInv
<1> QED
  BY <1>1, <1>2, <1>4 DEF Protocol!vars

\* The next question or the answer, after which the questions of the request are
\* still told apart.
Proceeds(ins) ==
  \/ Protocol!Ask /\ call' = ins /\ locked' = locked /\ On'
  \/ Protocol!Answer /\ call' = ins /\ answer' = SUCCESS /\ locked' = locked /\ On'
  \/ Protocol!Fail

\* Going on with the list of screens, or answering at its end, is a step the
\* protocol allows a running call.
LEMMA GoOnFollows ==
  ASSUME Inv, Remember, On, ~Sending, NEW ins, NEW todo, Showable(todo), Fresh(todo),
         NEW pending, GoOn(ins, todo, pending)
  PROVE  Proceeds(ins) /\ AskedInv' /\ EndsInv'
<1>1. CASE todo = <<>>
  <2>1. PICK then \in {"busy", "idle"} : Respond(ins, SUCCESS, NoData, then)
    BY <1>1 DEF GoOn
  <2>2. SUCCESS # NoCode
    BY DEF SUCCESS, NoCode
  <2>3. /\ Protocol!Answer /\ Phase' = "sending" /\ call' = ins /\ answer' = SUCCESS
        /\ locked' = locked /\ On' /\ reply'.code = SUCCESS
    BY <2>1, <2>2, RespondAnswers
  <2> QED
    BY <2>3 DEF Proceeds, AskedInv, EndsInv
<1>2. CASE todo # <<>>
  <2> DEFINE q == Head(todo)
             rest == Tail(todo)
  <2>1. ui_display(ins, q, pending) /\ script' = rest
    BY <1>2 DEF GoOn
  <2>2. /\ q \in Asks /\ q = todo[1] /\ 1 \in DOMAIN todo
        /\ \A k \in DOMAIN rest : k \in Nat \ {0} /\ k + 1 \in DOMAIN todo /\ rest[k] = todo[k + 1]
    <3>1. todo \in Seq(Asks)
      BY DEF Showable
    <3>2. Len(todo) \in Nat /\ DOMAIN todo = 1 .. Len(todo) /\ Len(todo) # 0
      BY <1>2, <3>1, EmptySeq, LenProperties
    <3>3. 1 \in DOMAIN todo /\ q = todo[1] /\ q \in Asks
      BY <1>2, <3>1, <3>2
    <3>4. /\ rest \in Seq(Asks) /\ Len(rest) = Len(todo) - 1
          /\ \A i \in 1 .. Len(rest) : rest[i] = todo[i + 1]
      BY <1>2, <3>1, HeadTailProperties
    <3>5. DOMAIN rest = 1 .. Len(rest)
      BY <3>4, LenProperties
    <3> HIDE DEF rest
    <3> QED
      BY <3>2, <3>3, <3>4, <3>5
  <2>3. q \notin asked
    BY <2>2 DEF Fresh
  <2> HIDE DEF q, rest
  <2>4. \/ Show(ins, Screen(q.kind, q.what, "script"))
        \/ \E cause \in {ASSERT_TIMER, ASSERT_TEXT_SIZE} : Crash(cause)
    BY <2>1 DEF ui_display
  <2>5. CASE Show(ins, Screen(q.kind, q.what, "script"))
    <3>1. /\ Protocol!Ask /\ Phase' = "asking" /\ asked' = asked \cup {q}
          /\ Question(display'.kind, display'.what) = q
          /\ call' = ins /\ locked' = locked /\ On'
      BY <2>2, <2>3, <2>5, ShowAsks
    <3>2. Fresh(script)'
      <4>1. ASSUME NEW j \in DOMAIN rest, NEW k \in DOMAIN rest, rest[j] = rest[k]
            PROVE  j = k
        <5>1. j + 1 = k + 1
          BY <2>2, <4>1 DEF Fresh
        <5> QED
          BY <2>2, <5>1
      <4>2. ASSUME NEW k \in DOMAIN rest
            PROVE  rest[k] \notin asked \cup {q}
        <5>1. k + 1 \in DOMAIN todo /\ rest[k] = todo[k + 1] /\ k + 1 # 1
          BY <2>2
        <5>2. todo[k + 1] \notin asked /\ todo[k + 1] # todo[1]
          BY <2>2, <5>1 DEF Fresh
        <5> QED
          BY <2>2, <5>1, <5>2
      <4> QED
        BY <2>1, <3>1, <4>1, <4>2 DEF Fresh
    <3>3. AskedInv'
      BY <3>1, <3>2 DEF AskedInv
    <3>4. EndsInv'
      BY <2>5 DEF EndsInv, Show, Sending
    <3> QED
      BY <3>1, <3>3, <3>4 DEF Proceeds
  <2>6. CASE \E cause \in {ASSERT_TIMER, ASSERT_TEXT_SIZE} : Crash(cause)
    <3>1. PICK cause \in {ASSERT_TIMER, ASSERT_TEXT_SIZE} : Crash(cause)
      BY <2>6
    <3>2. cause # NotCrashed
      BY DEF ASSERT_TIMER, ASSERT_TEXT_SIZE, NotCrashed
    <3>3. Protocol!Fail /\ Phase' = "down" /\ asked' = {}
      BY <3>1, <3>2, CrashFails
    <3>4. EndsInv'
      BY <3>1 DEF Crash, EndsInv, Sending
    <3> QED
      BY <3>3, <3>4 DEF Proceeds, AskedInv
  <2> QED
    BY <2>4, <2>5, <2>6
<1> QED
  BY <1>1, <1>2

\* Each step is a step of the protocol, or none, and the history stays true.
FollowsStep == [Protocol!Next]_(Protocol!vars)
Follows == FollowsStep /\ AskedInv' /\ EndsInv'

\* A step that neither answers, asks nor stops is a stutter of the protocol.
LEMMA StutterFollows ==
  ASSUME Inv, ProtocolInv, Remember, UNCHANGED script,
         UNCHANGED <<crashed, reply, ioState, display, currentInstruction>>, locked' = locked
  PROVE  Follows
<1>1. Phase' = Phase /\ asked' = asked /\ UNCHANGED Protocol!vars
  BY Stutters DEF ProtocolInv
<1>2. AskedInv' /\ EndsInv'
  BY <1>1 DEF ProtocolInv, AskedInv, EndsInv, Fresh, Sending
<1> QED
  BY <1>1, <1>2 DEF Follows, FollowsStep

\* A failed assertion.
LEMMA CrashFollows ==
  ASSUME Inv, ProtocolInv, Remember, On, NEW cause, Crash(cause), cause # NotCrashed
  PROVE  Follows
<1>1. Protocol!Fail /\ Phase' = "down" /\ asked' = {}
  BY CrashFails
<1>2. AskedInv' /\ EndsInv'
  BY <1>1 DEF ProtocolInv, AskedInv, EndsInv, Crash, Sending
<1> QED
  BY <1>1, <1>2 DEF Follows, FollowsStep, Protocol!Next

\* The user agrees, and so does the timer in her place.
LEMMA AgreeFollows ==
  ASSUME Inv, ProtocolInv, Remember, On, ~locked, ioState = "UI", ~display.run,
         NEW pending, GoOn(currentInstruction, script, pending)
  PROVE  Follows
<1>1. ~Sending /\ Phase = "asking" /\ Showable(script) /\ Fresh(script)
  <2>1. ~Sending
    BY DEF Inv, ControlInv
  <2> QED
    BY <2>1, PhaseNow DEF Inv, ValuesInv, ProtocolInv, AskedInv
<1>2. Proceeds(currentInstruction) /\ AskedInv' /\ EndsInv'
  BY <1>1, GoOnFollows
<1>3. call = currentInstruction
  BY DEF call
<1>4. CASE Protocol!Fail
  BY <1>2, <1>4 DEF Follows, FollowsStep, Protocol!Next
<1>5. CASE ~Protocol!Fail
  <2>1. (Protocol!Ask \/ Protocol!Answer) /\ call' = call /\ locked' = locked
    BY <1>2, <1>3, <1>5 DEF Proceeds
  <2>2. Protocol!Agree
    BY <1>1, <2>1 DEF Protocol!Agree, call
  <2> QED
    BY <1>2, <2>2 DEF Follows, FollowsStep, Protocol!Next
<1> QED
  BY <1>4, <1>5

\* The buttons that lead on.
LEMMA ConfirmFollows ==
  ASSUME Inv, ProtocolInv, Remember, On, ~locked, display.kind \in Kinds, Confirm
  PROVE  Follows
<1>1. ~display.run /\ GoOn(currentInstruction, script, timer) /\ ioState = "UI"
  BY ScreenIsInMemory DEF Confirm
<1> QED
  BY <1>1, AgreeFollows

\* Only a prompt is rejected.
LEMMA RejectFollows ==
  ASSUME Inv, ProtocolInv, Remember, On, ~locked, display.kind = "prompt", Reject
  PROVE  Follows
<1>1. /\ ~display.run /\ UNCHANGED <<screenVars, seen, timerScreen>>
      /\ Respond(currentInstruction, ERR_REJECTED_BY_USER, NoData, "idle")
  BY DEF Reject, RejectThen, NoScreenStep
<1>2. ERR_REJECTED_BY_USER # NoCode
  BY DEF ERR_REJECTED_BY_USER, NoCode
<1>3. /\ Protocol!Answer /\ Phase' = "sending" /\ asked' = asked
      /\ call' = currentInstruction /\ answer' = ERR_REJECTED_BY_USER /\ locked' = locked /\ On'
      /\ Sending' /\ reply'.then = "idle"
  BY <1>1, <1>2, RespondAnswers
<1>4. Phase = "asking"
  <2>1. ~Sending /\ ioState = "UI"
    BY <1>1, ScreenIsInMemory DEF Kinds
  <2> QED
    BY <2>1, PhaseNow
<1>5. call' = call
  BY <1>3 DEF call
<1>6. Protocol!Reject
  <2>1. Question(display.kind, display.what).kind = "prompt"
    BY DEF Question
  <2> QED
    BY <1>3, <1>4, <1>5, <2>1 DEF Protocol!Reject, call, answer
<1>7. AskedInv' /\ EndsInv'
  BY <1>3 DEF AskedInv, EndsInv
<1> QED
  BY <1>6, <1>7 DEF Follows, FollowsStep, Protocol!Next

\* The buttons.
LEMMA ButtonStepFollows ==
  ASSUME Inv, ProtocolInv, ButtonStep
  PROVE  Follows
<1>1. Buttons /\ Remember
  BY DEF ButtonStep
<1>2. CASE ui_paginatedText_button
  <2>1. On /\ ~locked /\ display.kind = "text" /\ display.kind \in Kinds
    BY <1>2 DEF ui_paginatedText_button, Pressed, Kinds
  <2>2. HandlerAsserts
    BY <2>1, ScreenIsInMemory DEF HandlerAsserts, ButtonAsserts
  <2>3. Scroll \/ Confirm
    BY <1>2, <2>2 DEF ui_paginatedText_button
  <2>4. CASE Scroll
    <3>1. PICK index : scroll_update_display_content(index)
      BY <2>4 DEF Scroll
    <3>2. UNCHANGED <<build, flowStep, timer, script, timerScreen>>
      BY <2>4 DEF Scroll
    <3>3. UNCHANGED platformVars
      <4>1. ~Crash(ASSERT_SCROLL)
        <5>1. InternalAssertionsHold'
          <6>1. touched' = touched \cup {"button"} /\ Touches
            BY DEF ButtonStep, Inv, TypeOK, Touches
          <6> QED
            BY <2>1, <2>4, <6>1, ScrollInv DEF Inv
        <5> QED
          BY <5>1 DEF InternalAssertionsHold, Crash
      <4> QED
        BY <3>1, <4>1 DEF scroll_update_display_content
    <3> QED
      BY <1>1, <3>2, <3>3, StutterFollows DEF platformVars
  <2> QED
    BY <1>1, <2>1, <2>3, <2>4, ConfirmFollows
<1>3. CASE ui_prompt_button
  <2>1. On /\ ~locked /\ display.kind = "prompt" /\ display.kind \in Kinds
    BY <1>3 DEF ui_prompt_button, Pressed, Kinds
  <2>2. HandlerAsserts
    BY <2>1, ScreenIsInMemory DEF HandlerAsserts, ButtonAsserts
  <2>3. Confirm \/ Reject
    BY <1>3, <2>2 DEF ui_prompt_button
  <2> QED
    BY <1>1, <2>1, <2>3, ConfirmFollows, RejectFollows
<1>4. CASE paginated_text_confirm
  <2>1. On /\ ~locked /\ display.kind \in Kinds
    BY <1>4 DEF paginated_text_confirm, Pressed, Kinds
  <2>2. Confirm
    BY <1>4, <2>1, ScreenIsInMemory DEF paginated_text_confirm, FlowAsserts
  <2> QED
    BY <1>1, <2>1, <2>2, ConfirmFollows
<1>5. CASE TurnPromptFlow
  <2>1. UNCHANGED platformVars /\ UNCHANGED script
    BY <1>5 DEF TurnPromptFlow
  <2> QED
    BY <1>1, <2>1, StutterFollows DEF platformVars
<1>6. CASE ClickPromptFlow
  <2>1. On /\ ~locked /\ display.kind = "prompt" /\ display.kind \in Kinds
    BY <1>6 DEF ClickPromptFlow, Pressed, Kinds
  <2>2. Confirm \/ Reject
    BY <1>6, <2>1, ScreenIsInMemory DEF ClickPromptFlow, FlowAsserts
  <2> QED
    BY <1>1, <2>1, <2>2, ConfirmFollows, RejectFollows
<1> QED
  BY <1>1, <1>2, <1>3, <1>4, <1>5, <1>6 DEF Buttons

\* The timer agrees, is lost, or finds an assertion that fails.
LEMMA TickStepFollows ==
  ASSUME Inv, ProtocolInv, TickStep
  PROVE  Follows
<1>1. /\ On /\ Remember
      /\ \/ /\ ~locked /\ ioState = "UI" /\ ~display.run
            /\ GoOn(currentInstruction, script, "none")
         \/ UNCHANGED <<platformVars, script>>
         \/ Crash(ASSERT_TICKER)
  BY DEF TickStep, Tick
<1>2. CASE ~locked /\ ioState = "UI" /\ ~display.run /\ GoOn(currentInstruction, script, "none")
  BY <1>1, <1>2, AgreeFollows
<1>3. CASE UNCHANGED <<platformVars, script>>
  BY <1>1, <1>3, StutterFollows DEF platformVars
<1>4. CASE Crash(ASSERT_TICKER)
  BY <1>1, <1>4, CrashFollows DEF ASSERT_TICKER, NotCrashed
<1> QED
  BY <1>1, <1>2, <1>3, <1>4

\* A request opens a call or belongs to the open one.
LEMMA RequestStepFollows ==
  ASSUME Inv, ProtocolInv, RequestStep
  PROVE  Follows
<1>1. PICK s \in Scripts : GoOn(INS, s, timer)
  BY DEF RequestStep, Request
<1>2. /\ On /\ ~Sending /\ ioState = "IO" /\ ~locked /\ Remember
      /\ currentInstruction \in {INS_NONE, INS}
  BY DEF RequestStep, Request, Accepts
<1>3. Phase = "ready" /\ asked = {}
  BY <1>2, PhaseNow DEF ProtocolInv, AskedInv
<1>4. Showable(s) /\ Fresh(s)
  <2>1. /\ s \in Seq([kind: {"text", "prompt"}, what: Seq(Char)])
        /\ \A k \in DOMAIN s :
             \/ s[k].kind = "text" /\ Len(s[k].what) < FULL_TEXT_SIZE
             \/ s[k].kind = "prompt" /\ Len(s[k].what) < PROMPT_TEXT_SIZE
        /\ \A j, k \in DOMAIN s : s[j] = s[k] => j = k
    BY ScriptsAssumption
  <2> QED
    BY <1>3, <2>1 DEF Showable, TextFits, Asks, Kinds, Fresh
<1>5. Proceeds(INS) /\ AskedInv' /\ EndsInv'
  BY <1>1, <1>2, <1>4, GoOnFollows
<1>6. call \in {INS_NONE, INS} /\ INS # INS_NONE
  BY <1>2 DEF call, INS, INS_NONE
<1>7. CASE Protocol!Fail
  BY <1>5, <1>7 DEF Follows, FollowsStep, Protocol!Next
<1>8. CASE ~Protocol!Fail
  <2>1. (Protocol!Ask \/ Protocol!Answer) /\ call' = INS /\ locked' = locked
    BY <1>5, <1>8 DEF Proceeds
  <2>2. Protocol!Request
    BY <1>2, <1>3, <1>6, <2>1 DEF Protocol!Request, call
  <2> QED
    BY <1>5, <2>2 DEF Follows, FollowsStep, Protocol!Next
<1> QED
  BY <1>7, <1>8

\* An answer that is an error ends the call.
LEMMA SendStepFollows ==
  ASSUME Inv, ProtocolInv, SendStep
  PROVE  Follows
<1>1. /\ On /\ Sending /\ reply' = NoReply /\ ioState' = "IO" /\ UNCHANGED <<crashed, locked>>
      /\ currentInstruction' = IF reply.then = "idle" THEN INS_NONE ELSE currentInstruction
      /\ Remember
  BY DEF SendStep, SendDone, Transmitted
<1>2. On' /\ ~Sending' /\ reply'.code = NoCode
  BY <1>1 DEF On, Sending, NoReply
<1>3. Phase = "sending" /\ Phase' = "ready" /\ asked' = {}
  BY <1>1, <1>2, PhaseNow, PhaseNext, Remembered
<1>4. answer = reply.code /\ answer' = NoCode /\ call = currentInstruction
      /\ call' = currentInstruction'
  BY <1>1, <1>2 DEF answer, call
<1>5. call' \in IF answer = SUCCESS THEN {call, INS_NONE} ELSE {INS_NONE}
  BY <1>1, <1>4 DEF ProtocolInv, EndsInv
<1>6. question' = question
  BY <1>3 DEF question
<1>7. Protocol!Deliver
  BY <1>1, <1>3, <1>4, <1>5, <1>6
     DEF Protocol!Deliver, Protocol!NoAnswer, NoCode, answer, call, question
<1>8. AskedInv' /\ EndsInv'
  BY <1>2, <1>3 DEF AskedInv, EndsInv
<1> QED
  BY <1>7, <1>8 DEF Follows, FollowsStep, Protocol!Next

\* What the outside does.
LEMMA OutsideFollows ==
  ASSUME Inv, ProtocolInv, LockStep \/ OtherStep
  PROVE  Follows
<1>1. Remember /\ UNCHANGED script
  BY DEF LockStep, OtherStep, NoScreenStep, screenVars
<1>2. CASE LockDevice \/ UnlockDevice
  <2>1. /\ On /\ locked' # locked
        /\ UNCHANGED <<crashed, ioState, currentInstruction, display, reply>>
    BY <1>2 DEF LockDevice, UnlockDevice
  <2>2. Phase' = Phase /\ asked' = asked /\ Phase # "down"
    BY <1>1, <2>1, Stutters, PhaseNow DEF ProtocolInv
  <2>3. On' = On
    BY <2>1 DEF On
  <2>4. Protocol!LockOrUnlock
    BY <2>1, <2>2, <2>3 DEF Protocol!LockOrUnlock
  <2>5. AskedInv' /\ EndsInv'
    BY <1>1, <2>1, <2>2 DEF ProtocolInv, AskedInv, EndsInv, Fresh, Sending
  <2> QED
    BY <2>4, <2>5 DEF Follows, FollowsStep, Protocol!Next
<1>3. CASE RejectApdu
  <2>1. PICK e \in MainLoopErrors : Respond(currentInstruction, e, NoData, "idle")
    BY <1>3 DEF RejectApdu
  <2>2. On /\ ~Sending /\ ioState = "IO"
    BY <1>3 DEF RejectApdu
  <2>3. e # NoCode /\ e # SUCCESS /\ (locked => e = ERR_DEVICE_LOCKED)
    BY DEF MainLoopErrors, NoCode, SUCCESS, ERR_DEVICE_LOCKED, ERR_MALFORMED_REQUEST_HEADER,
           ERR_BAD_CLA, ERR_UNKNOWN_INS, ERR_STILL_IN_CALL
  <2>4. /\ Protocol!Answer /\ Phase' = "sending" /\ call' = currentInstruction
        /\ answer' = e /\ locked' = locked /\ On' /\ reply'.then = "idle"
    BY <1>1, <2>1, <2>2, <2>3, RespondAnswers
  <2>5. Phase = "ready"
    BY <2>2, PhaseNow
  <2>6. call' = call
    BY <2>2, <2>4 DEF call
  <2>7. Protocol!Request
    BY <2>3, <2>4, <2>5, <2>6 DEF Protocol!Request, call, answer
  <2>8. AskedInv' /\ EndsInv'
    BY <2>4 DEF AskedInv, EndsInv
  <2> QED
    BY <2>7, <2>8 DEF Follows, FollowsStep, Protocol!Next
<1>4. CASE ApduDuringUi
  <2>1. On /\ Crash(ASSERT_IO_STATE)
    BY <1>4 DEF ApduDuringUi
  <2> QED
    BY <1>1, <2>1, CrashFollows DEF ASSERT_IO_STATE, NotCrashed
<1> QED
  BY <1>2, <1>3, <1>4 DEF LockStep, OtherStep

\* main starts over.
LEMMA StartStepFollows ==
  ASSUME Inv, ProtocolInv, StartStep
  PROVE  Follows
<1>1. Boot /\ Remember
  BY DEF StartStep, StartOver, IoReset, Restart
<1>2. /\ crashed' = NotCrashed /\ ioState' = "IO" /\ currentInstruction' = INS_NONE
      /\ reply' = NoReply
  BY <1>1 DEF Boot
<1>3. On' /\ ~Sending' /\ reply'.code = NoCode
  BY <1>2 DEF On, Sending, NoReply
<1>4. Phase' = "ready" /\ asked' = {}
  BY <1>1, <1>2, <1>3, PhaseNext, Remembered
<1>5. Protocol!Forgotten
  BY <1>2, <1>3, <1>4 DEF Protocol!Forgotten, Protocol!NoAnswer, NoCode
<1>6. AskedInv' /\ EndsInv'
  BY <1>3, <1>4 DEF AskedInv, EndsInv
<1>7. CASE IoReset
  <2>1. On /\ locked' = locked
    BY <1>7 DEF IoReset
  <2>2. Phase # "down"
    BY <2>1, PhaseNow
  <2> QED
    BY <1>4, <1>5, <1>6, <2>1, <2>2 DEF Protocol!Reset, Protocol!Next, FollowsStep, Follows
<1>8. CASE Restart
  <2>1. ~On /\ ~locked'
    BY <1>8 DEF Restart
  <2>2. Phase = "down"
    BY <2>1, PhaseNow
  <2> QED
    BY <1>4, <1>5, <1>6, <2>1, <2>2 DEF Protocol!Restart, Protocol!Next, FollowsStep, Follows
<1> QED
  BY <1>7, <1>8 DEF StartStep, StartOver

\* The first state is one of the protocol.
LEMMA InitFollows ==
  ASSUME Init
  PROVE  Protocol!Init /\ ProtocolInv
<1>1. /\ crashed = NotCrashed /\ ioState = "IO" /\ currentInstruction = INS_NONE
      /\ reply = NoReply /\ ~locked /\ asked = {}
  BY DEF Init, PlatformInit
<1>2. On /\ ~Sending /\ reply.code = NoCode
  BY <1>1 DEF On, Sending, NoReply
<1>3. Phase = "ready"
  BY <1>1, <1>2, InitInv, PhaseNow
<1>4. Protocol!Init
  BY <1>1, <1>2, <1>3 DEF Protocol!Init, Protocol!NoAnswer, NoCode
<1>5. ProtocolInv
  BY <1>1, <1>2, <1>3 DEF ProtocolInv, AskedInv, EndsInv
<1> QED
  BY <1>4, <1>5

\* Every step follows the protocol.
LEMMA NextFollows ==
  ASSUME Inv, ProtocolInv, [Next]_vars
  PROVE  FollowsStep /\ ProtocolInv'
<1>1. CASE Next
  <2>1. Follows
    BY <1>1, ButtonStepFollows, TickStepFollows, SendStepFollows, RequestStepFollows,
       OutsideFollows, StartStepFollows DEF Next
  <2> QED
    BY <2>1 DEF Follows, ProtocolInv
<1>2. CASE UNCHANGED vars
  <2>1. UNCHANGED <<crashed, reply, ioState, display, currentInstruction, locked, script, asked>>
    BY <1>2 DEF vars, platformVars, screenVars, histories
  <2>2. Phase' = Phase /\ On' = On
    BY <2>1 DEF Phase, On
  <2>3. UNCHANGED Protocol!vars
    BY <2>1, <2>2 DEF Protocol!vars
  <2>4. ProtocolInv'
    BY <2>1, <2>2 DEF ProtocolInv, AskedInv, EndsInv, Fresh, Sending
  <2> QED
    BY <2>3, <2>4 DEF FollowsStep
<1> QED
  BY <1>1, <1>2

\* All builds, with their scrollers, flows and timers, keep to CallProtocol: only a
\* press on an unlocked device, or the timer in its place, moves a question away,
\* once, only a prompt is rejected, and an error ends its call.
THEOREM KeepsProtocol == Spec => FollowsProtocol
<1>1. Init => Inv /\ ProtocolInv /\ Protocol!Init
  BY InitInv, InitFollows
<1>2. Inv /\ ProtocolInv /\ [Next]_vars => Inv' /\ ProtocolInv' /\ FollowsStep
  BY NextInv, NextFollows
<1>3. Inv /\ ProtocolInv /\ [Next]_vars => [Protocol!Next]_(Protocol!vars)
  BY <1>2 DEF FollowsStep
<1> QED
  BY <1>1, <1>2, <1>3, PTL DEF Spec, FollowsProtocol, Protocol!Spec
=============================================================================
