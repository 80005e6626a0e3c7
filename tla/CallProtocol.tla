---------------------------- MODULE CallProtocol ----------------------------
(***************************************************************************)
(* What a host and a user can rely on, whatever the instruction: a request *)
(* is worked on, leads to questions that the user answers one by one, and  *)
(* ends in exactly one answer.  Only the user moves a question away, only  *)
(* the user of an unlocked device, and an answer that is an error ends the *)
(* call.                                                                   *)
(*                                                                         *)
(* Nothing is said of what the questions and the answers are about.        *)
(***************************************************************************)
EXTENDS FiniteSets

CONSTANTS
  NoCall,      \* no call is open
  NoQuestion,  \* the user is asked nothing
  Success,     \* the answer that does not end a call
  Rejected,    \* the answer to a question the user has rejected
  DeviceLocked \* the answer to any request while the device is locked

VARIABLES
  phase,    \* "ready" for a request, "working", "asking", "sending", or "down"
  call,     \* the instruction of the open call
  question, \* what the user is being asked: [kind, what]
  asked,    \* the questions of this request so far
  answer,   \* what the host is being told
  locked

vars == <<phase, call, question, asked, answer, locked>>

NoAnswer == "none"

Init ==
  /\ phase = "ready"
  /\ call = NoCall
  /\ question = NoQuestion
  /\ asked = {}
  /\ answer = NoAnswer
  /\ ~locked

-----------------------------------------------------------------------------
\* How a step can go on with a request: to more work, to a question that has not
\* been asked yet, or to an answer.
Work ==
  /\ phase' = "working"
  /\ question' = NoQuestion
  /\ answer' = NoAnswer
  /\ asked' = asked

Ask ==
  /\ phase' = "asking"
  /\ question' \notin asked \cup {NoQuestion}
  /\ asked' = asked \cup {question'}
  /\ answer' = NoAnswer

Answer ==
  /\ phase' = "sending"
  /\ question' = NoQuestion
  /\ answer' # NoAnswer
  /\ asked' = asked

\* A request opens a call or belongs to the open one.
Request ==
  /\ phase = "ready"
  /\ call # NoCall => call' = call
  /\ \/ ~locked /\ call' # NoCall /\ (Work \/ Ask \/ Answer)
     \/ Answer /\ answer' # Success /\ (locked => answer' = DeviceLocked)
  /\ UNCHANGED locked

GoOn ==
  /\ phase = "working"
  /\ Work \/ Ask \/ Answer
  /\ UNCHANGED <<call, locked>>

\* The user says yes; what follows is the next question or the answer.
Agree ==
  /\ phase = "asking"
  /\ ~locked
  /\ Ask \/ Answer
  /\ UNCHANGED <<call, locked>>

\* Only a prompt can be rejected, and the host is told so.
Reject ==
  /\ phase = "asking"
  /\ ~locked
  /\ question.kind = "prompt"
  /\ Answer
  /\ answer' = Rejected
  /\ UNCHANGED <<call, locked>>

Deliver ==
  /\ phase = "sending"
  /\ phase' = "ready"
  /\ answer' = NoAnswer
  /\ asked' = {}
  /\ call' \in IF answer = Success THEN {call, NoCall} ELSE {NoCall}
  /\ UNCHANGED <<question, locked>>

-----------------------------------------------------------------------------
\* Everything is forgotten by a reset, and by a device that is down.
Forgotten ==
  /\ call' = NoCall
  /\ question' = NoQuestion
  /\ asked' = {}
  /\ answer' = NoAnswer

Fail == phase # "down" /\ phase' = "down" /\ Forgotten /\ UNCHANGED locked
Reset == phase # "down" /\ phase' = "ready" /\ Forgotten /\ UNCHANGED locked
Restart == phase = "down" /\ phase' = "ready" /\ Forgotten /\ ~locked'

LockOrUnlock ==
  /\ phase # "down"
  /\ locked' # locked
  /\ UNCHANGED <<phase, call, question, asked, answer>>

Next ==
  \/ Request
  \/ GoOn
  \/ Agree
  \/ Reject
  \/ Deliver
  \/ Fail
  \/ Reset
  \/ Restart
  \/ LockOrUnlock

Spec == Init /\ [][Next]_vars
=============================================================================
