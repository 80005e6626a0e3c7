------------------------ MODULE PublicKeysInvariant ------------------------
(***************************************************************************)
(* The inductive invariant behind the safety properties of PublicKeys: at  *)
(* each step of a run-step function the context holds the result for the   *)
(* path the host has asked for, and the user has acknowledged exactly the  *)
(* screens before that step.                                               *)
(***************************************************************************)
EXTENDS PublicKeys, PlatformSteps

Flows == {"none", "export", "return", "display"}
Context == [ready: BOOLEAN, path: Path, derived: Path, uiStep: UiSteps]
Ghost == [request: Flows, asked: Path, acknowledged: Seq(Saying)]

-----------------------------------------------------------------------------
(***************************************************************************)
(* The screens a acknowledged when a run-step function is entered at       *)
(* `step` for path p.                                                      *)
(***************************************************************************)
ExportSeen(step, p, a) ==
  LET warning == Warning(IsAccountPath(p))
      path == SaysPath("ExportPublicKey", p)
      prompt == Says("ConfirmExportPublicKey")
  IN /\ IsCardanoPath(p)
     /\ \/ step = "EXPORT_WARNING" /\ ~IsAccountPath(p) /\ a = <<>>
        \/ step = "EXPORT_PATH" /\ a = warning
        \/ step = "EXPORT_CONFIRM" /\ a = warning \o <<path>>
        \/ step = "EXPORT_RESPOND" /\ a = warning \o <<path, prompt>>

ReturnSeen(step, p, a) ==
  LET warning == Warning(IsUsualAddressPath(p))
      path == SaysPath("ExportAddress", p)
      prompt == Says("ConfirmExportAddress")
  IN /\ IsCardanoAddressPath(p)
     /\ \/ step = "RETURN_WARNING" /\ ~IsUsualAddressPath(p) /\ a = <<>>
        \/ step = "RETURN_PATH" /\ a = warning
        \/ step = "RETURN_CONFIRM" /\ a = warning \o <<path>>
        \/ step = "RETURN_RESPOND" /\ a = warning \o <<path, prompt>>

DisplaySeen(step, p, a) ==
  LET warning == Warning(IsUsualAddressPath(p))
      verify == Says("VerifyAddress")
      path == SaysPath("AddressPath", p)
      address == SaysPath("Address", p)
  IN /\ IsCardanoAddressPath(p)
     /\ \/ step = "DISPLAY_WARNING" /\ ~IsUsualAddressPath(p) /\ a = <<>>
        \/ step = "DISPLAY_INSTRUCTIONS" /\ a = warning
        \/ step = "DISPLAY_PATH" /\ a = warning \o <<verify>>
        \/ step = "DISPLAY_ADDRESS" /\ a = warning \o <<verify, path>>
        \/ step = "DISPLAY_RESPOND" /\ a = warning \o <<verify, path, address>>

\* Where a run-step function is entered with context c and history g.
Progress(c, g) ==
  /\ c.ready
  /\ c.path = g.asked
  /\ c.derived = g.asked
  /\ \/ g.request = "export" /\ ExportSeen(c.uiStep, g.asked, g.acknowledged)
     \/ g.request = "return" /\ ReturnSeen(c.uiStep, g.asked, g.acknowledged)
     \/ g.request = "display" /\ DisplaySeen(c.uiStep, g.asked, g.acknowledged)

Acknowledged(g, what) == [g EXCEPT !.acknowledged = Append(@, what)]

-----------------------------------------------------------------------------
\* A screen is up and its button has not been pressed.
WaitsForUser == On /\ ~Sending /\ ioState = "UI"

\* It leads back to where its acknowledgement is the right one.
ScreenInv ==
  WaitsForUser => /\ display.callback = ghost.request
                  /\ Progress(ctx, Acknowledged(ghost, display.what))

\* Every answer ends its call, and one of SUCCESS has been confirmed.
ReplyInv ==
  Sending => /\ reply.then = "idle"
             /\ reply.code # SUCCESS => reply.data = NoData

\* The application waits for exactly one of: a request, the user, the end of a
\* transmission.
ControlInv ==
  /\ OneAnswerPerRequest
  /\ NoStaleScreen
  /\ Sending => On /\ display.run
  /\ ~Sending => reply = NoReply
  /\ display.kind = "menu" => display.run

\* What leaves the device has been confirmed.
ExportInv ==
  /\ KeyExportIsConfirmed
  /\ AddressExportIsConfirmed
  /\ ShownAddressIsAcknowledged

\* The inductive invariant.
Inv ==
  /\ TypeOK
  /\ ControlInv
  /\ ScreenInv
  /\ ReplyInv
  /\ InternalAssertionsHold
  /\ ExportInv
=============================================================================
