-------------------------- MODULE CardanoAppProofs --------------------------
(***************************************************************************)
(* Proofs about the whole application.                                     *)
(*                                                                         *)
(* What is proved of an instruction on its own is cited of the instance of *)
(* its module: the invariant of the open call is kept by the steps of that *)
(* call, as is proved there, and what is proved here is what they do not   *)
(* know of: that a call finds the platform and the contexts as it assumes  *)
(* them whichever instruction had the last one, that each step reaches the *)
(* instruction whose call is open, and that the certificates SignTx relies *)
(* on are those AttestUtxo has made.                                       *)
(***************************************************************************)
EXTENDS CardanoAppInvariant, TLAPS

(***************************************************************************)
(* The platform of the instances is the platform of the application.       *)
(***************************************************************************)

\* The constants and the states of the platform that SignTx runs on,
LEMMA SignPlatform ==
  /\ Sign!INS_NONE = INS_NONE /\ Sign!NotCrashed = NotCrashed
  /\ Sign!SUCCESS = SUCCESS /\ Sign!AutoRespond = AutoRespond
  /\ Sign!NoData = NoData /\ Sign!NoReply = NoReply /\ Sign!Menu = Menu
  /\ Sign!On <=> On
  /\ Sign!Sending <=> Sending
  /\ Sign!Idle <=> Idle
  BY DEF Sign!INS_NONE, INS_NONE, Sign!NotCrashed, NotCrashed, Sign!NoCode, NoCode,
         Sign!SUCCESS, SUCCESS, Sign!NoData, NoData, Sign!NoReply, NoReply,
         Sign!Menu, Menu, Sign!Screen, Screen, Sign!Says, Says, Sign!NoAddress,
         NoAddress, Sign!On, On, Sign!Sending, Sending, Sign!Idle, Idle,
         Sign!ErrorReply, ErrorReply, Sign!AutoRespond, AutoRespond,
         Sign!ERR_MALFORMED_REQUEST_HEADER, ERR_MALFORMED_REQUEST_HEADER,
         Sign!ERR_BAD_CLA, ERR_BAD_CLA, Sign!ERR_UNKNOWN_INS, ERR_UNKNOWN_INS,
         Sign!ERR_STILL_IN_CALL, ERR_STILL_IN_CALL,
         Sign!ERR_INVALID_REQUEST_PARAMETERS, ERR_INVALID_REQUEST_PARAMETERS,
         Sign!ERR_INVALID_STATE, ERR_INVALID_STATE, Sign!ERR_INVALID_DATA,
         ERR_INVALID_DATA, Sign!ERR_REJECTED_BY_USER, ERR_REJECTED_BY_USER,
         Sign!ERR_REJECTED_BY_POLICY, ERR_REJECTED_BY_POLICY, Sign!ERR_DEVICE_LOCKED,
         ERR_DEVICE_LOCKED

\* and its operators are the same steps of the platform.
LEMMA SignActions ==
  /\ \A ins, code, data, then :
       Sign!Respond(ins, code, data, then) <=> Respond(ins, code, data, then)
  /\ \A cause : Sign!Crash(cause) <=> Crash(cause)
  /\ \A then : Sign!Transmitted(then) <=> Transmitted(then)
  /\ \A ins : Sign!Accepts(ins) <=> Accepts(ins)
  /\ Sign!IsNewCall <=> IsNewCall
<1>1. \A ins, code, data, then :
        Sign!Respond(ins, code, data, then) <=> Respond(ins, code, data, then)
  BY DEF Sign!Respond, Respond, Sign!IoStateInside, IoStateInside
<1>2. \A cause : Sign!Crash(cause) <=> Crash(cause)
  BY DEF Sign!Crash, Crash
<1>3. Sign!BusyScreen = BusyScreen
  BY DEF Sign!BusyScreen, BusyScreen, Sign!Screen, Screen, Sign!Says, Says, Sign!NoAddress,
         NoAddress
<1>4. \A then : Sign!ScreenAfter(then) = ScreenAfter(then)
  BY <1>3, SignPlatform DEF Sign!ScreenAfter, ScreenAfter
<1>5. \A then : Sign!Transmitted(then) <=> Transmitted(then)
  BY <1>4, SignPlatform DEF Sign!Transmitted, Transmitted
<1>6. \A ins : Sign!Accepts(ins) <=> Accepts(ins)
  BY SignPlatform DEF Sign!Accepts, Accepts
<1>7. Sign!IsNewCall <=> IsNewCall
  BY SignPlatform DEF Sign!IsNewCall, IsNewCall
<1> QED
  BY <1>1, <1>2, <1>5, <1>6, <1>7

\* So are those that no instruction has a part in.
LEMMA SignOutside ==
  /\ Sign!RejectApdu <=> RejectApdu
  /\ Sign!ApduDuringUi <=> ApduDuringUi
  /\ Sign!UserRejects <=> UserRejects
  /\ Sign!LockDevice <=> LockDevice
  /\ Sign!UnlockDevice <=> UnlockDevice
<1>1. Sign!MainLoopErrors = MainLoopErrors
  BY SignActions
     DEF Sign!MainLoopErrors, MainLoopErrors, Sign!ERR_MALFORMED_REQUEST_HEADER,
         ERR_MALFORMED_REQUEST_HEADER, Sign!ERR_BAD_CLA, ERR_BAD_CLA,
         Sign!ERR_UNKNOWN_INS, ERR_UNKNOWN_INS, Sign!ERR_STILL_IN_CALL,
         ERR_STILL_IN_CALL, Sign!ERR_INVALID_REQUEST_PARAMETERS,
         ERR_INVALID_REQUEST_PARAMETERS, Sign!ERR_INVALID_STATE, ERR_INVALID_STATE,
         Sign!ERR_INVALID_DATA, ERR_INVALID_DATA, Sign!ERR_REJECTED_BY_USER,
         ERR_REJECTED_BY_USER, Sign!ERR_REJECTED_BY_POLICY, ERR_REJECTED_BY_POLICY,
         Sign!ERR_DEVICE_LOCKED, ERR_DEVICE_LOCKED
<1>2. Sign!RejectApdu <=> RejectApdu
  BY <1>1, SignPlatform, SignActions DEF Sign!RejectApdu, RejectApdu
<1>3. Sign!ApduDuringUi <=> ApduDuringUi
  BY SignPlatform, SignActions
     DEF Sign!ApduDuringUi, ApduDuringUi, Sign!ASSERT_IO_STATE, ASSERT_IO_STATE
<1>4. Sign!UserRejects <=> UserRejects
  BY SignPlatform, SignActions
     DEF Sign!UserRejects, UserRejects, Sign!AwaitsButton, AwaitsButton, Sign!ButtonAsserts,
         ButtonAsserts, Sign!RejectThen, RejectThen, Sign!ERR_REJECTED_BY_USER,
         ERR_REJECTED_BY_USER, Sign!ASSERT_BUTTON, ASSERT_BUTTON
<1>5. (Sign!LockDevice <=> LockDevice) /\ (Sign!UnlockDevice <=> UnlockDevice)
  BY SignPlatform DEF Sign!LockDevice, LockDevice, Sign!UnlockDevice, UnlockDevice
<1> QED
  BY <1>2, <1>3, <1>4, <1>5

\* A step that moves SignTx on is one that moves the application on.
LEMMA SignMoves ==
  \A ins, step, next : Sign!Moves(ins, step, next) <=> Moves(ins, step, next)
<1>1. \A ins : Sign!RespondsFor(ins) <=> RespondsFor(ins)
  BY SignPlatform, SignActions DEF Sign!RespondsFor, RespondsFor
<1>2. \A ins, kind, what, callback :
        Sign!Show(ins, Sign!Screen(kind, what, callback))
          <=> Show(ins, Screen(kind, what, callback))
  BY DEF Sign!Show, Show, Sign!Screen, Screen
<1>3. \A callback, head, step :
        /\ Sign!Owner(callback) = Owner(callback)
        /\ Sign!TurnOf(head) = TurnOf(head)
        /\ Sign!TurnAt(step) = TurnAt(step)
  BY DEF Sign!Owner, Owner, Sign!TurnOf, TurnOf, Sign!TurnAt, TurnAt
<1>4. \A ins, step, next : Sign!AsksFor(ins, step, next) <=> AsksFor(ins, step, next)
  BY <1>2, <1>3 DEF Sign!AsksFor, AsksFor
<1>5. Sign!Stops <=> Stops
  BY SignPlatform, SignActions DEF Sign!Stops, Stops
<1> QED
  BY <1>1, <1>4, <1>5, SignPlatform DEF Sign!Moves, Moves

\* AttestUtxo runs on the same platform,
LEMMA AttestPlatform ==
  /\ Attest!INS_NONE = INS_NONE /\ Attest!NotCrashed = NotCrashed
  /\ Attest!SUCCESS = SUCCESS /\ Attest!AutoRespond = AutoRespond
  /\ Attest!NoData = NoData /\ Attest!NoReply = NoReply /\ Attest!Menu = Menu
  /\ Attest!On <=> On
  /\ Attest!Sending <=> Sending
  BY DEF Attest!INS_NONE, INS_NONE, Attest!NotCrashed, NotCrashed, Attest!NoCode,
         NoCode, Attest!SUCCESS, SUCCESS, Attest!NoData, NoData, Attest!NoReply,
         NoReply, Attest!Menu, Menu, Attest!Screen, Screen, Attest!Says, Says,
         Attest!NoAddress, NoAddress, Attest!On, On, Attest!Sending, Sending,
         Attest!AutoRespond, AutoRespond, Attest!ERR_MALFORMED_REQUEST_HEADER,
         ERR_MALFORMED_REQUEST_HEADER, Attest!ERR_BAD_CLA, ERR_BAD_CLA,
         Attest!ERR_UNKNOWN_INS, ERR_UNKNOWN_INS, Attest!ERR_STILL_IN_CALL,
         ERR_STILL_IN_CALL, Attest!ERR_INVALID_REQUEST_PARAMETERS,
         ERR_INVALID_REQUEST_PARAMETERS, Attest!ERR_INVALID_STATE, ERR_INVALID_STATE,
         Attest!ERR_INVALID_DATA, ERR_INVALID_DATA, Attest!ERR_REJECTED_BY_USER,
         ERR_REJECTED_BY_USER, Attest!ERR_REJECTED_BY_POLICY, ERR_REJECTED_BY_POLICY,
         Attest!ERR_DEVICE_LOCKED, ERR_DEVICE_LOCKED

\* and its operators are the same steps of the platform.
LEMMA AttestActions ==
  /\ \A ins, code, data, then :
       Attest!Respond(ins, code, data, then) <=> Respond(ins, code, data, then)
  /\ \A cause : Attest!Crash(cause) <=> Crash(cause)
  /\ \A then : Attest!Transmitted(then) <=> Transmitted(then)
  /\ \A ins : Attest!Accepts(ins) <=> Accepts(ins)
  /\ Attest!IsNewCall <=> IsNewCall
<1>1. \A ins, code, data, then :
        Attest!Respond(ins, code, data, then) <=> Respond(ins, code, data, then)
  BY DEF Attest!Respond, Respond, Attest!IoStateInside, IoStateInside
<1>2. \A cause : Attest!Crash(cause) <=> Crash(cause)
  BY DEF Attest!Crash, Crash
<1>3. Attest!BusyScreen = BusyScreen
  BY DEF Attest!BusyScreen, BusyScreen, Attest!Screen, Screen, Attest!Says, Says, Attest!NoAddress,
         NoAddress
<1>4. \A then : Attest!ScreenAfter(then) = ScreenAfter(then)
  BY <1>3, AttestPlatform DEF Attest!ScreenAfter, ScreenAfter
<1>5. \A then : Attest!Transmitted(then) <=> Transmitted(then)
  BY <1>4, AttestPlatform DEF Attest!Transmitted, Transmitted
<1>6. \A ins : Attest!Accepts(ins) <=> Accepts(ins)
  BY AttestPlatform DEF Attest!Accepts, Accepts
<1>7. Attest!IsNewCall <=> IsNewCall
  BY AttestPlatform DEF Attest!IsNewCall, IsNewCall
<1> QED
  BY <1>1, <1>2, <1>5, <1>6, <1>7

\* So are those that no instruction has a part in.
LEMMA AttestOutside ==
  /\ Attest!RejectApdu <=> RejectApdu
  /\ Attest!ApduDuringUi <=> ApduDuringUi
  /\ Attest!UserRejects <=> UserRejects
  /\ Attest!LockDevice <=> LockDevice
  /\ Attest!UnlockDevice <=> UnlockDevice
<1>1. Attest!MainLoopErrors = MainLoopErrors
  BY AttestActions
     DEF Attest!MainLoopErrors, MainLoopErrors, Attest!ERR_MALFORMED_REQUEST_HEADER,
         ERR_MALFORMED_REQUEST_HEADER, Attest!ERR_BAD_CLA, ERR_BAD_CLA,
         Attest!ERR_UNKNOWN_INS, ERR_UNKNOWN_INS, Attest!ERR_STILL_IN_CALL,
         ERR_STILL_IN_CALL, Attest!ERR_INVALID_REQUEST_PARAMETERS,
         ERR_INVALID_REQUEST_PARAMETERS, Attest!ERR_INVALID_STATE, ERR_INVALID_STATE,
         Attest!ERR_INVALID_DATA, ERR_INVALID_DATA, Attest!ERR_REJECTED_BY_USER,
         ERR_REJECTED_BY_USER, Attest!ERR_REJECTED_BY_POLICY, ERR_REJECTED_BY_POLICY,
         Attest!ERR_DEVICE_LOCKED, ERR_DEVICE_LOCKED
<1>2. Attest!RejectApdu <=> RejectApdu
  BY <1>1, AttestPlatform, AttestActions DEF Attest!RejectApdu, RejectApdu
<1>3. Attest!ApduDuringUi <=> ApduDuringUi
  BY AttestPlatform, AttestActions
     DEF Attest!ApduDuringUi, ApduDuringUi, Attest!ASSERT_IO_STATE, ASSERT_IO_STATE
<1>4. Attest!UserRejects <=> UserRejects
  BY AttestPlatform, AttestActions
     DEF Attest!UserRejects, UserRejects, Attest!AwaitsButton, AwaitsButton, Attest!ButtonAsserts,
         ButtonAsserts, Attest!RejectThen, RejectThen, Attest!ERR_REJECTED_BY_USER,
         ERR_REJECTED_BY_USER, Attest!ASSERT_BUTTON, ASSERT_BUTTON
<1>5. (Attest!LockDevice <=> LockDevice) /\ (Attest!UnlockDevice <=> UnlockDevice)
  BY AttestPlatform DEF Attest!LockDevice, LockDevice, Attest!UnlockDevice, UnlockDevice
<1> QED
  BY <1>2, <1>3, <1>4, <1>5

\* and so does PublicKeys,
LEMMA KeysPlatform ==
  /\ Keys!INS_NONE = INS_NONE /\ Keys!NotCrashed = NotCrashed
  /\ Keys!SUCCESS = SUCCESS /\ Keys!AutoRespond = AutoRespond
  /\ Keys!NoData = NoData /\ Keys!NoReply = NoReply /\ Keys!Menu = Menu
  /\ Keys!On <=> On
  /\ Keys!Sending <=> Sending
  /\ Keys!Idle <=> Idle
  BY DEF Keys!INS_NONE, INS_NONE, Keys!NotCrashed, NotCrashed, Keys!NoCode, NoCode,
         Keys!SUCCESS, SUCCESS, Keys!NoData, NoData, Keys!NoReply, NoReply,
         Keys!Menu, Menu, Keys!Screen, Screen, Keys!Says, Says, Keys!NoAddress,
         NoAddress, Keys!On, On, Keys!Sending, Sending, Keys!Idle, Idle,
         Keys!ErrorReply, ErrorReply, Keys!AutoRespond, AutoRespond,
         Keys!ERR_MALFORMED_REQUEST_HEADER, ERR_MALFORMED_REQUEST_HEADER,
         Keys!ERR_BAD_CLA, ERR_BAD_CLA, Keys!ERR_UNKNOWN_INS, ERR_UNKNOWN_INS,
         Keys!ERR_STILL_IN_CALL, ERR_STILL_IN_CALL,
         Keys!ERR_INVALID_REQUEST_PARAMETERS, ERR_INVALID_REQUEST_PARAMETERS,
         Keys!ERR_INVALID_STATE, ERR_INVALID_STATE, Keys!ERR_INVALID_DATA,
         ERR_INVALID_DATA, Keys!ERR_REJECTED_BY_USER, ERR_REJECTED_BY_USER,
         Keys!ERR_REJECTED_BY_POLICY, ERR_REJECTED_BY_POLICY, Keys!ERR_DEVICE_LOCKED,
         ERR_DEVICE_LOCKED

\* and its operators are the same steps of the platform.
LEMMA KeysActions ==
  /\ \A ins, code, data, then :
       Keys!Respond(ins, code, data, then) <=> Respond(ins, code, data, then)
  /\ \A cause : Keys!Crash(cause) <=> Crash(cause)
  /\ \A then : Keys!Transmitted(then) <=> Transmitted(then)
  /\ \A ins : Keys!Accepts(ins) <=> Accepts(ins)
  /\ Keys!IsNewCall <=> IsNewCall
<1>1. \A ins, code, data, then :
        Keys!Respond(ins, code, data, then) <=> Respond(ins, code, data, then)
  BY DEF Keys!Respond, Respond, Keys!IoStateInside, IoStateInside
<1>2. \A cause : Keys!Crash(cause) <=> Crash(cause)
  BY DEF Keys!Crash, Crash
<1>3. Keys!BusyScreen = BusyScreen
  BY DEF Keys!BusyScreen, BusyScreen, Keys!Screen, Screen, Keys!Says, Says, Keys!NoAddress,
         NoAddress
<1>4. \A then : Keys!ScreenAfter(then) = ScreenAfter(then)
  BY <1>3, KeysPlatform DEF Keys!ScreenAfter, ScreenAfter
<1>5. \A then : Keys!Transmitted(then) <=> Transmitted(then)
  BY <1>4, KeysPlatform DEF Keys!Transmitted, Transmitted
<1>6. \A ins : Keys!Accepts(ins) <=> Accepts(ins)
  BY KeysPlatform DEF Keys!Accepts, Accepts
<1>7. Keys!IsNewCall <=> IsNewCall
  BY KeysPlatform DEF Keys!IsNewCall, IsNewCall
<1> QED
  BY <1>1, <1>2, <1>5, <1>6, <1>7

\* So are those that no instruction has a part in.
LEMMA KeysOutside ==
  /\ Keys!RejectApdu <=> RejectApdu
  /\ Keys!ApduDuringUi <=> ApduDuringUi
  /\ Keys!UserRejects <=> UserRejects
  /\ Keys!LockDevice <=> LockDevice
  /\ Keys!UnlockDevice <=> UnlockDevice
<1>1. Keys!MainLoopErrors = MainLoopErrors
  BY KeysActions
     DEF Keys!MainLoopErrors, MainLoopErrors, Keys!ERR_MALFORMED_REQUEST_HEADER,
         ERR_MALFORMED_REQUEST_HEADER, Keys!ERR_BAD_CLA, ERR_BAD_CLA,
         Keys!ERR_UNKNOWN_INS, ERR_UNKNOWN_INS, Keys!ERR_STILL_IN_CALL,
         ERR_STILL_IN_CALL, Keys!ERR_INVALID_REQUEST_PARAMETERS,
         ERR_INVALID_REQUEST_PARAMETERS, Keys!ERR_INVALID_STATE, ERR_INVALID_STATE,
         Keys!ERR_INVALID_DATA, ERR_INVALID_DATA, Keys!ERR_REJECTED_BY_USER,
         ERR_REJECTED_BY_USER, Keys!ERR_REJECTED_BY_POLICY, ERR_REJECTED_BY_POLICY,
         Keys!ERR_DEVICE_LOCKED, ERR_DEVICE_LOCKED
<1>2. Keys!RejectApdu <=> RejectApdu
  BY <1>1, KeysPlatform, KeysActions DEF Keys!RejectApdu, RejectApdu
<1>3. Keys!ApduDuringUi <=> ApduDuringUi
  BY KeysPlatform, KeysActions
     DEF Keys!ApduDuringUi, ApduDuringUi, Keys!ASSERT_IO_STATE, ASSERT_IO_STATE
<1>4. Keys!UserRejects <=> UserRejects
  BY KeysPlatform, KeysActions
     DEF Keys!UserRejects, UserRejects, Keys!AwaitsButton, AwaitsButton, Keys!ButtonAsserts,
         ButtonAsserts, Keys!RejectThen, RejectThen, Keys!ERR_REJECTED_BY_USER,
         ERR_REJECTED_BY_USER, Keys!ASSERT_BUTTON, ASSERT_BUTTON
<1>5. (Keys!LockDevice <=> LockDevice) /\ (Keys!UnlockDevice <=> UnlockDevice)
  BY KeysPlatform DEF Keys!LockDevice, LockDevice, Keys!UnlockDevice, UnlockDevice
<1> QED
  BY <1>2, <1>3, <1>4, <1>5

\* A step that moves PublicKeys on is one that moves the application on.
LEMMA KeysMoves ==
  \A ins, step, next : Keys!Moves(ins, step, next) <=> Moves(ins, step, next)
<1>1. \A ins : Keys!RespondsFor(ins) <=> RespondsFor(ins)
  BY KeysPlatform, KeysActions DEF Keys!RespondsFor, RespondsFor
<1>2. \A ins, kind, what, callback :
        Keys!Show(ins, Keys!Screen(kind, what, callback))
          <=> Show(ins, Screen(kind, what, callback))
  BY DEF Keys!Show, Show, Keys!Screen, Screen
<1>3. \A callback, head, step :
        /\ Keys!Owner(callback) = Owner(callback)
        /\ Keys!TurnOf(head) = TurnOf(head)
        /\ Keys!TurnAt(step) = TurnAt(step)
  BY DEF Keys!Owner, Owner, Keys!TurnOf, TurnOf, Keys!TurnAt, TurnAt
<1>4. \A ins, step, next : Keys!AsksFor(ins, step, next) <=> AsksFor(ins, step, next)
  BY <1>2, <1>3 DEF Keys!AsksFor, AsksFor
<1>5. Keys!Stops <=> Stops
  BY KeysPlatform, KeysActions DEF Keys!Stops, Stops
<1> QED
  BY <1>1, <1>4, <1>5, KeysPlatform DEF Keys!Moves, Moves

-----------------------------------------------------------------------------
(***************************************************************************)
(* What is kept of each instruction.                                       *)
(***************************************************************************)

\* The invariant of an open call says more than what is kept of it,
LEMMA CallsAreKept ==
  /\ SignCall => SignKept
  /\ AttestCall => AttestKept
  /\ KeysCall => KeysKept
<1>1. SignCall => SignKept
  BY DEF SignCall, SignKept, Sign!Inv, Sign!CallTypeOK, Sign!HistoryInv, Sign!WorthInv
<1>2. AttestCall => AttestKept
  BY DEF AttestCall, AttestKept, Attest!Inv, Attest!TypeOK
<1>3. KeysCall => KeysKept
  BY DEF KeysCall, KeysKept, Keys!Inv, Keys!TypeOK, Keys!Context, Keys!Ghost, Keys!Flows
<1> QED
  BY <1>1, <1>2, <1>3

\* and so does a context that has been zeroed.
LEMMA ZeroesAreKept ==
  /\ NoSigning => SignKept'
  /\ NoAttesting => AttestKept' /\ parsing' = FALSE
  /\ NoExport => KeysKept'
<1>1. ASSUME NoSigning PROVE SignKept'
  <2>1. /\ signCtx' = Sign!ZeroContext /\ signGhost' = Sign!ZeroGhost
        /\ Sign!ZeroContext \in Sign!Context /\ Sign!ZeroGhost \in Sign!Ghost
    BY <1>1, Sign!ZeroContextType, ParametersAssumption DEF NoSigning
  <2>2. /\ Sign!ZeroContext.txHash = Sign!ZeroHash
        /\ Sign!ZeroGhost.confirmedHash = Sign!ZeroHash
        /\ Sign!ZeroGhost.signatures <= Sign!ZeroGhost.announced.inputs
    BY DEF Sign!ZeroContext, Sign!ZeroGhost
  <2> QED
    BY <2>1, <2>2
       DEF SignKept, Sign!HashIsWholeTransaction, Sign!UserSawTransaction, Sign!FeeIsExact,
           Sign!ConfirmedWorthOk
<1>2. ASSUME NoAttesting PROVE AttestKept' /\ parsing' = FALSE
  <2>1. /\ parser' = Attest!ZeroParser /\ magic' = FALSE /\ hashed' = <<>>
        /\ toSend' = <<>> /\ parsing' = FALSE
    BY <1>2 DEF NoAttesting
  <2>2. /\ Attest!ZeroParser \in Attest!Parser
        /\ Attest!ZeroParser.unread = <<>> /\ Attest!ZeroParser.bufferPos = 0
    BY Attest!EmptyParsers, ParametersAssumption
  <2>3. Len(<<>>) = 0 /\ <<>> \in Seq(Attest!Byte) /\ 0 + 0 <= STREAM_BUFFER_SIZE
    BY ParametersAssumption DEF Attest!ParserAssumption
  <2> QED
    BY <2>1, <2>2, <2>3 DEF AttestKept
<1>3. ASSUME NoExport PROVE KeysKept'
  BY <1>3, Keys!ZeroTypes, ParametersAssumption DEF NoExport, KeysKept
<1> QED
  BY <1>1, <1>2, <1>3

\* What is left alone is kept.
LEMMA UntouchedAreKept ==
  /\ SignKept /\ UNCHANGED signVars => SignKept'
  /\ AttestKept /\ UNCHANGED attestVars => AttestKept'
  /\ KeysKept /\ UNCHANGED keysVars => KeysKept'
<1>1. ASSUME SignKept, UNCHANGED signVars PROVE SignKept'
  <2>1. signCtx' = signCtx /\ signGhost' = signGhost
    BY <1>1 DEF signVars
  <2>2. Sign!TxScreens' = Sign!TxScreens
    BY <2>1 DEF Sign!TxScreens
  <2>3. Sign!FeeShown' = Sign!FeeShown
    BY <2>2 DEF Sign!FeeShown
  <2> QED
    BY <1>1, <2>1, <2>2, <2>3
       DEF SignKept, Sign!HashIsWholeTransaction, Sign!UserSawTransaction, Sign!FeeIsExact
<1>2. ASSUME AttestKept, UNCHANGED attestVars PROVE AttestKept'
  BY <1>2 DEF AttestKept, attestVars
<1>3. ASSUME KeysKept, UNCHANGED keysVars PROVE KeysKept'
  BY <1>3 DEF KeysKept, keysVars
<1> QED
  BY <1>1, <1>2, <1>3

-----------------------------------------------------------------------------
(***************************************************************************)
(* Between calls, and when a device that is on waits for a request.        *)
(***************************************************************************)

\* What is, or is not, under transmission between calls.
LEMMA BetweenCalls ==
  ASSUME Idle
  PROVE  /\ reply \in [code: {NoCode} \cup AutoRespond, data: {NoData},
                       then: {"none", "idle"}]
         /\ Sending => reply.then = "idle" /\ reply.code # SUCCESS
         /\ Sending <=> awaiting
         /\ Sending <=> ioState # "IO"
         /\ ioState \in {"IO", "NONE"}
         /\ ~Sending => reply = NoReply
         /\ display = Menu /\ Menu.kind = "menu"
<1>1. Sign!NoCode = NoCode
  BY DEF Sign!NoCode, NoCode
<1>2. Menu.kind = "menu"
  BY DEF Menu, Screen
<1>3. display = Menu
  BY DEF Idle
<1> QED
  BY <1>1, <1>2, <1>3, SignPlatform, Sign!BetweenCallsReply, ParametersAssumption

\* Then every instruction is where its invariant lets it start.
LEMMA IdleSign ==
  ASSUME Kept, ParsingInv, On, currentInstruction = INS_NONE, Idle
  PROVE  SignCall
<1>1. Sign!On /\ Sign!Idle /\ currentInstruction = Sign!INS_NONE
  BY SignPlatform
<1>2. Sign!Inv
  BY <1>1, Sign!BetweenCallsInv, ParametersAssumption DEF Kept, SignKept, ParsingInv
<1>3. Sign!HistoryInv /\ Sign!WorthInv
  BY <1>1, Sign!BetweenCallsHistory, ParametersAssumption DEF Kept, SignKept
<1> QED
  BY <1>2, <1>3 DEF SignCall

\* So is the export of keys,
LEMMA IdleKeys ==
  ASSUME Kept, ParsingInv, On, currentInstruction = INS_NONE, Idle
  PROVE  KeysCall
<1>1. Keys!On /\ Keys!Idle /\ currentInstruction = Keys!INS_NONE
  BY KeysPlatform
<1>2. Keys!Inv
  BY <1>1, Keys!BetweenCallsInv, ParametersAssumption DEF Kept, KeysKept, ParsingInv
<1>3. ~Asking
  BY BetweenCalls DEF Asking
<1> QED
  BY <1>2, <1>3 DEF KeysCall

\* and the attestation, whose parser is not running.
LEMMA IdleAttest ==
  ASSUME Kept, ParsingInv, On, currentInstruction = INS_NONE, Idle
  PROVE  AttestCall
<1>1. ~parsing /\ ~Attest!InCall
  BY DEF ParsingInv, Attest!InCall, INS_NONE, Attest!ATTEST_UTXO
<1>2. reply \in [code: {Attest!NoCode, Attest!SUCCESS} \cup Attest!AutoRespond,
                 data: {Attest!NoData} \cup Attest!CertificateData,
                 then: {"none", "idle", "busy", "nothing"}]
  <2>1. Attest!NoCode = NoCode
    BY DEF Attest!NoCode, NoCode
  <2> HIDE DEF AutoRespond, NoData
  <2> QED
    BY <2>1, BetweenCalls, AttestPlatform
<1>3. Attest!TypeOK
  BY <1>1, <1>2, BetweenCalls, AttestPlatform
     DEF Attest!TypeOK, Kept, AttestKept, ParsingInv, On, Attest!ATTEST_UTXO
<1>4. Attest!ControlInv
  BY <1>1, BetweenCalls, AttestPlatform DEF Attest!ControlInv
<1>5. reply.data.kind = "none"
  BY BetweenCalls DEF NoData
<1>6. /\ Attest!ParserInv /\ Attest!CertificateInv
      /\ Attest!LeftoverIsPartialToken
  BY <1>1, <1>5, AttestPlatform
     DEF Attest!ParserInv, Attest!CertificateInv, Attest!LeftoverIsPartialToken,
         INS_NONE, Attest!ATTEST_UTXO
<1> QED
  BY <1>1, <1>3, <1>4, <1>6, BetweenCalls DEF AttestCall, Attest!Inv

-----------------------------------------------------------------------------
(***************************************************************************)
(* The steps of a call.                                                    *)
(***************************************************************************)

\* An open call is that of one instruction, and before any request to an instruction
\* its invariant holds.
LEMMA OpenCalls ==
  ASSUME AppInv, On
  PROVE  /\ currentInstruction \in {INS_NONE, Sign!SIGN_TX} => SignCall
         /\ currentInstruction \in {INS_NONE, Attest!ATTEST_UTXO} => AttestCall
         /\ currentInstruction \in {INS_NONE} \cup Keys!Instructions => KeysCall
         /\ currentInstruction \in {INS_NONE, Sign!SIGN_TX, Attest!ATTEST_UTXO}
                                     \cup Keys!Instructions
         /\ currentInstruction = INS_NONE => Idle
<1>1. /\ currentInstruction = INS_NONE => Idle
      /\ currentInstruction = Sign!SIGN_TX => SignCall
      /\ currentInstruction = Attest!ATTEST_UTXO => AttestCall
      /\ currentInstruction \in Keys!Instructions => KeysCall
      /\ currentInstruction \in {INS_NONE, Sign!SIGN_TX, Attest!ATTEST_UTXO}
                                     \cup Keys!Instructions
  BY DEF AppInv, CallInv, INS_NONE, Sign!SIGN_TX, Attest!ATTEST_UTXO, Keys!Instructions,
         Keys!GET_VERSION, Keys!GET_EXT_PUB_KEY, Keys!DERIVE_ADDRESS
<1>2. currentInstruction = INS_NONE => SignCall /\ AttestCall /\ KeysCall
  BY <1>1, IdleSign, IdleAttest, IdleKeys DEF AppInv
<1> QED
  BY <1>1, <1>2

\* A step of SignTx keeps its invariant, and confirms certified inputs only.
LEMMA SignStep ==
  ASSUME SignCall, CertificatesInv, [Sign!Next]_(Sign!vars), UNCHANGED certificates
  PROVE  SignCall' /\ SignKept' /\ CertificatesInv'
<1>1. /\ Sign!Inv' /\ Sign!HistoryInv' /\ Sign!WorthInv'
      /\ Sign!ConfirmationStep
  BY Sign!NextHistory, Sign!NextWorth, ParametersAssumption DEF SignCall
<1>2. SignCall'
  BY <1>1 DEF SignCall
<1>3. SignKept'
  <2>1. (SignCall => SignKept)'
    BY CallsAreKept, PTL
  <2> QED
    BY <1>2, <2>1
<1>4. InputsGenuine(signGhost'.confirmedHash)
  <2>1. CASE signGhost'.confirmedHash = signGhost.confirmedHash
    BY <2>1 DEF CertificatesInv
  <2>2. CASE signGhost'.confirmedHash = Sign!ZeroHash
    BY <2>2 DEF InputsGenuine, Items, Sign!ZeroHash
  <2>3. CASE Sign!ConfirmsHashed
    <3>1. /\ Sign!On /\ currentInstruction = Sign!SIGN_TX
          /\ signGhost'.confirmedHash = signCtx.hashed
      BY <2>3 DEF Sign!ConfirmsHashed, Sign!Live
    <3>2. \A k \in DOMAIN signCtx.hashed :
            signCtx.hashed[k].item = "input" => signCtx.hashed[k].utxo \in certificates
      BY <3>1 DEF SignCall, Sign!HistoryInv, Sign!InputsAreCertified
    <3> QED
      BY <3>1, <3>2 DEF InputsGenuine, Items, CertificatesInv
  <2> QED
    BY <1>1, <2>1, <2>2, <2>3 DEF Sign!ConfirmationStep
<1> QED
  BY <1>2, <1>3, <1>4 DEF CertificatesInv

\* A step of PublicKeys keeps its invariant.
LEMMA KeysStep ==
  ASSUME KeysCall, [Keys!Next]_(Keys!vars)
  PROVE  Keys!Inv' /\ KeysKept'
<1>1. Keys!Inv'
  BY Keys!NextInv, ParametersAssumption DEF KeysCall
<1> QED
  BY <1>1 DEF KeysKept, Keys!Inv, Keys!TypeOK, Keys!Context, Keys!Ghost, Keys!Flows

\* So does a step of AttestUtxo, and the device stays on.
LEMMA AttestStep ==
  ASSUME AttestCall, [Attest!Next]_(Attest!vars)
  PROVE  Attest!Inv' /\ AttestKept' /\ On'
<1>1. Attest!Inv'
  BY Attest!NextInv, ParametersAssumption DEF AttestCall
<1>2. (Attest!On <=> On)'
  BY AttestPlatform, PTL
<1> QED
  BY <1>1, <1>2 DEF AttestKept, Attest!Inv, Attest!TypeOK, Attest!ControlInv

\* No answer is the lack of one, and no error is SUCCESS.
LEMMA Codes ==
  /\ SUCCESS # NoCode
  /\ \A e \in AutoRespond : e # NoCode /\ e # SUCCESS
  BY DEF AutoRespond, NoCode, SUCCESS, ERR_MALFORMED_REQUEST_HEADER, ERR_BAD_CLA,
         ERR_UNKNOWN_INS, ERR_STILL_IN_CALL, ERR_INVALID_REQUEST_PARAMETERS,
         ERR_INVALID_STATE, ERR_INVALID_DATA, ERR_REJECTED_BY_USER, ERR_REJECTED_BY_POLICY,
         ERR_DEVICE_LOCKED

\* What a step that moves a call on does to the platform.
LEMMA Moved ==
  ASSUME NEW ins, NEW step, NEW next, Moves(ins, step, next), ParsingInv
  PROVE  /\ On /\ ~Sending
         /\ On' => currentInstruction' = ins
         /\ On' /\ Asking' => Owner(display'.callback) = ins
         /\ locked' = locked /\ awaiting' \in BOOLEAN
<1>1. On /\ ~Sending
  BY DEF Moves
<1>2. CASE RespondsFor(ins)
  <2>1. PICK code \in {SUCCESS} \cup AutoRespond : \E data, then : Respond(ins, code, data, then)
    BY <1>2 DEF RespondsFor
  <2>2. /\ reply'.code = code /\ currentInstruction' = ins /\ locked' = locked
        /\ awaiting' = TRUE
    BY <2>1 DEF Respond
  <2>3. code # NoCode
    BY Codes
  <2> QED
    BY <1>1, <2>2, <2>3 DEF Asking, Sending
<1>3. CASE AsksFor(ins, step, next)
  BY <1>1, <1>3 DEF AsksFor, Show, Screen
<1>4. CASE Stops
  BY <1>1, <1>4 DEF Stops, Crash, On, ParsingInv
<1> QED
  BY <1>1, <1>2, <1>3, <1>4 DEF Moves

-----------------------------------------------------------------------------
(***************************************************************************)
(* Requests and buttons of SignTx and of PublicKeys.                       *)
(***************************************************************************)

\* A request to SignTx is a step of SignTx that moves its call on.
LEMMA SignRequestStep ==
  ASSUME AppInv, SignRequest
  PROVE  /\ SignCall /\ Sign!Next
         /\ UNCHANGED certificates /\ ~parsing
         /\ Accepts(Sign!SIGN_TX)
         /\ IF IsNewCall THEN NoAttesting /\ NoExport ELSE UNCHANGED <<attestVars, keysVars>>
         /\ \E step : Moves(Sign!SIGN_TX, step, signCtx'.uiStep)
<1>1. /\ \/ \E p2 \in {0, 1}, sizeOk \in BOOLEAN, i \in WireCounts, o \in WireCounts :
              Sign!HandleInit(p2, sizeOk, [inputs |-> i, outputs |-> o])
         \/ \E p2 \in {0, 1}, form \in {"utxo", "malformed"}, u \in WireUtxos :
              Sign!HandleInput(p2, form, u)
         \/ \E p2 \in {0, 1}, n \in WireAmounts, d \in Destinations :
              Sign!HandleOutput(p2, n, d)
         \/ \E p2 \in {0, 1}, sizeOk \in BOOLEAN : Sign!HandleConfirm(p2, sizeOk)
         \/ \E p2 \in {0, 1}, w \in WireWitnesses : Sign!HandleWitness(p2, w)
         \/ Sign!HandleUnknownP1
      /\ ~parsing /\ UNCHANGED certificates
      /\ IF IsNewCall THEN NoAttesting /\ NoExport ELSE UNCHANGED <<attestVars, keysVars>>
  BY DEF SignRequest, Signs
<1>2. Sign!Next
  BY <1>1 DEF Sign!Next
<1>3. Accepts(Sign!SIGN_TX)
  <2>1. Sign!Accepts(Sign!SIGN_TX)
    BY <1>1
       DEF Sign!HandleInit, Sign!HandleInput, Sign!HandleOutput, Sign!HandleConfirm,
           Sign!HandleWitness, Sign!HandleUnknownP1
  <2> QED
    BY <2>1, SignActions
<1>4. On /\ currentInstruction \in {INS_NONE, Sign!SIGN_TX}
  BY <1>3 DEF Accepts
<1>5. SignCall
  BY <1>4, OpenCalls
<1>6. SignKept'
  BY <1>1, <1>2, <1>5, SignStep DEF AppInv
<1>7. \E step : Moves(Sign!SIGN_TX, step, signCtx'.uiStep)
  <2>1. \/ \E p2, sizeOk, counts : Sign!HandleInit(p2, sizeOk, counts)
        \/ \E p2, form, u : Sign!HandleInput(p2, form, u)
        \/ \E p2, n, d : Sign!HandleOutput(p2, n, d)
        \/ \E p2, sizeOk : Sign!HandleConfirm(p2, sizeOk)
        \/ \E p2, w : Sign!HandleWitness(p2, w)
        \/ Sign!HandleUnknownP1
    BY <1>1
  <2>2. signCtx' \in Sign!Context
    BY <1>6 DEF SignKept
  <2>3. \E step : Sign!Moves(Sign!SIGN_TX, step, signCtx'.uiStep)
    BY <2>1, <2>2, Sign!RequestMoves, ParametersAssumption
  <2> QED
    BY <2>3, SignMoves
<1> QED
  BY <1>1, <1>2, <1>3, <1>5, <1>7

\* A request to PublicKeys is one of PublicKeys.
LEMMA ExportRequestStep ==
  ASSUME AppInv, ExportRequest
  PROVE  /\ KeysCall /\ Keys!Next
         /\ UNCHANGED certificates /\ ~parsing
         /\ IF IsNewCall THEN NoSigning /\ NoAttesting ELSE UNCHANGED <<signVars, attestVars>>
         /\ \E ins \in Keys!Instructions : \E step :
              Accepts(ins) /\ Moves(ins, step, keysCtx'.uiStep)
<1>1. /\ \/ \E paramsOk \in BOOLEAN, w \in WirePaths :
              \/ Keys!HandleExport(paramsOk, w)
              \/ Keys!HandleReturn(paramsOk, w)
              \/ Keys!HandleDisplay(paramsOk, w)
         \/ \E paramsOk \in BOOLEAN : Keys!HandleGetVersion(paramsOk)
      /\ ~parsing /\ UNCHANGED certificates
      /\ IF IsNewCall THEN NoSigning /\ NoAttesting ELSE UNCHANGED <<signVars, attestVars>>
  BY DEF ExportRequest, Exports
<1>2. Keys!Next
  BY <1>1 DEF Keys!Next
<1>3. \E ins \in Keys!Instructions : Accepts(ins)
  <2>1. \E ins \in Keys!Instructions : Keys!Accepts(ins)
    BY <1>1
       DEF Keys!HandleExport, Keys!HandleReturn, Keys!HandleDisplay, Keys!HandleGetVersion,
           Keys!Instructions
  <2> QED
    BY <2>1, KeysActions
<1>4. On /\ currentInstruction \in {INS_NONE} \cup Keys!Instructions
  BY <1>3 DEF Accepts
<1>5. KeysCall
  BY <1>4, OpenCalls
<1>6. keysCtx' \in Keys!Context
  BY <1>2, <1>5, KeysStep DEF KeysKept
<1>7. \E ins \in Keys!Instructions : \E step :
        Accepts(ins) /\ Moves(ins, step, keysCtx'.uiStep)
  <2>1. \/ \E paramsOk, w : \/ Keys!HandleExport(paramsOk, w)
                            \/ Keys!HandleReturn(paramsOk, w)
                            \/ Keys!HandleDisplay(paramsOk, w)
        \/ \E paramsOk : Keys!HandleGetVersion(paramsOk)
    BY <1>1
  <2>2. \E ins \in Keys!Instructions : \E step :
          Keys!Accepts(ins) /\ Keys!Moves(ins, step, keysCtx'.uiStep)
    BY <1>6, <2>1, Keys!RequestMoves, ParametersAssumption
  <2> QED
    BY <2>2, KeysMoves, KeysActions
<1> QED
  BY <1>1, <1>2, <1>5, <1>7

\* Only a call of SignTx or of PublicKeys has a screen with buttons.
LEMMA WhoseButton ==
  ASSUME AppInv, NEW kinds \in SUBSET {"text", "prompt"}, AwaitsButton(kinds)
  PROVE  /\ On /\ ~locked /\ ~Sending /\ ioState = "UI" /\ Asking
         /\ \/ currentInstruction = Sign!SIGN_TX /\ SignCall
            \/ currentInstruction \in Keys!Instructions /\ KeysCall
<1>1. On /\ ~locked /\ display.kind \in {"text", "prompt"} /\ ~display.run
  BY DEF AwaitsButton
<1>2. currentInstruction # INS_NONE
  BY <1>1, OpenCalls, BetweenCalls
<1>3. currentInstruction # Attest!ATTEST_UTXO
  <2>1. BusyScreen.kind = "busy" /\ Attest!BusyScreen = BusyScreen /\ Menu.kind = "menu"
    BY DEF BusyScreen, Menu, Screen, Attest!BusyScreen, Attest!Screen, Attest!Says, Says,
           Attest!NoAddress, NoAddress
  <2>2. SUFFICES ASSUME AttestCall PROVE FALSE
    BY <1>1, OpenCalls
  <2>3. display \in {Menu, BusyScreen}
    BY <2>1, <2>2, AttestPlatform DEF AttestCall, Attest!Inv, Attest!TypeOK
  <2> QED
    BY <1>1, <2>1, <2>3
<1>4. CASE currentInstruction = Sign!SIGN_TX
  <2>1. SignCall
    BY <1>1, <1>4, OpenCalls
  <2>2. Sign!ControlInv
    BY <2>1 DEF SignCall, Sign!Inv
  <2>3. ~Sending /\ ioState = "UI"
    BY <1>1, <2>2, SignPlatform DEF Sign!ControlInv, Sign!OneAnswerPerRequest
  <2> QED
    BY <1>1, <1>4, <2>1, <2>3 DEF Asking
<1>5. CASE currentInstruction \in Keys!Instructions
  <2>1. KeysCall
    BY <1>1, <1>5, OpenCalls
  <2>2. Keys!ControlInv
    BY <2>1 DEF KeysCall, Keys!Inv
  <2>3. ~Sending /\ ioState = "UI"
    BY <1>1, <2>2, KeysPlatform DEF Keys!ControlInv, Keys!OneAnswerPerRequest
  <2> QED
    BY <1>1, <1>5, <2>1, <2>3 DEF Asking
<1> QED
  BY <1>1, <1>2, <1>3, <1>4, <1>5, OpenCalls

\* A button under one of its screens is a step of the instruction whose call is open.
LEMMA ButtonStep ==
  ASSUME AppInv, UserConfirms
  PROVE  /\ ~locked /\ Asking
         /\ ~parsing /\ UNCHANGED <<attestVars, certificates>>
         /\ \/ /\ currentInstruction = Sign!SIGN_TX /\ SignCall /\ Sign!Next
               /\ UNCHANGED keysVars
               /\ Moves(Sign!SIGN_TX, signCtx.uiStep, signCtx'.uiStep)
            \/ /\ currentInstruction \in Keys!Instructions /\ KeysCall /\ Keys!Next
               /\ UNCHANGED signVars
               /\ Moves(currentInstruction, keysCtx.uiStep, keysCtx'.uiStep)
<1>1. ~parsing /\ UNCHANGED <<attestVars, certificates>>
  BY DEF UserConfirms
<1>2. AwaitsButton({"text", "prompt"})
  <2>1. Sign!AwaitsButton({"text", "prompt"}) \/ Keys!AwaitsButton({"text", "prompt"})
    BY DEF UserConfirms, Sign!UserConfirms, Keys!UserConfirms
  <2> QED
    BY <2>1, SignPlatform, KeysPlatform
       DEF Sign!AwaitsButton, Keys!AwaitsButton, AwaitsButton
<1>3. /\ ~locked /\ Asking
      /\ \/ currentInstruction = Sign!SIGN_TX /\ SignCall
         \/ currentInstruction \in Keys!Instructions /\ KeysCall
  BY <1>2, WhoseButton
<1>4. CASE currentInstruction = Sign!SIGN_TX /\ SignCall
  <2>1. display.callback \notin ExportFlows
    BY <1>4 DEF SignCall, Sign!Inv, Sign!CallTypeOK, Sign!Flows, ExportFlows
  <2>2. Sign!UserConfirms /\ UNCHANGED keysVars
    BY <2>1 DEF UserConfirms
  <2>3. Sign!Next
    BY <2>2 DEF Sign!Next
  <2>4. signCtx' \in Sign!Context
    BY <1>1, <1>4, <2>3, SignStep DEF AppInv, SignKept
  <2>5. Sign!Moves(Sign!SIGN_TX, signCtx.uiStep, signCtx'.uiStep)
    BY <1>4, <2>2, <2>4, Sign!ButtonMoves, ParametersAssumption DEF SignCall
  <2> QED
    BY <1>1, <1>3, <1>4, <2>2, <2>3, <2>5, SignMoves
<1>5. CASE currentInstruction \in Keys!Instructions /\ KeysCall
  <2>1. display.callback \notin SignFlows
    BY <1>5 DEF KeysCall, Keys!Inv, Keys!TypeOK, Sign!Flows, SignFlows
  <2>2. Keys!UserConfirms /\ UNCHANGED signVars
    BY <2>1 DEF UserConfirms
  <2>3. Keys!Next
    BY <2>2 DEF Keys!Next
  <2>4. keysCtx' \in Keys!Context
    BY <1>5, <2>3, KeysStep DEF KeysKept
  <2>5. Keys!Moves(Keys!Owner(display.callback), keysCtx.uiStep, keysCtx'.uiStep)
    BY <1>5, <2>2, <2>4, Keys!ButtonMoves, ParametersAssumption DEF KeysCall
  <2>6. Keys!Owner(display.callback) = currentInstruction
    BY <1>3, <1>5 DEF KeysCall, Keys!Owner, Owner
  <2> QED
    BY <1>1, <1>3, <1>5, <2>2, <2>3, <2>5, <2>6, KeysMoves
<1> QED
  BY <1>3, <1>4, <1>5

-----------------------------------------------------------------------------
(***************************************************************************)
(* The steps of the attestation.                                           *)
(***************************************************************************)

\* They answer, or go on parsing.
AttestReplies ==
  /\ parsing' = FALSE
  /\ \E code \in {SUCCESS} \cup AutoRespond : \E data, then :
       /\ code # SUCCESS => then = "idle"
       /\ Respond(Attest!ATTEST_UTXO, code, data, then)

AttestWorks ==
  /\ parsing' = TRUE
  /\ ioState' = "NONE" /\ currentInstruction' = Attest!ATTEST_UTXO
  /\ UNCHANGED <<crashed, display, reply, locked>>

AttestMoves == On /\ ~Sending /\ ~locked /\ (AttestReplies \/ AttestWorks)

\* An answer of the attestation is one of the application.
LEMMA AttestAnswers == Attest!Answers => AttestReplies
  BY AttestPlatform, AttestActions DEF Attest!Answers, AttestReplies

\* A request to AttestUtxo is one of its steps.
LEMMA AttestRequestStep ==
  ASSUME AppInv, AttestRequest
  PROVE  /\ AttestCall /\ Attest!Next
         /\ UNCHANGED certificates /\ ~parsing
         /\ Accepts(Attest!ATTEST_UTXO)
         /\ IF IsNewCall THEN NoSigning /\ NoExport ELSE UNCHANGED <<signVars, keysVars>>
         /\ AttestMoves
<1>1. /\ \/ \E p2 \in {0, 1}, sizeOk \in BOOLEAN, i \in Indexes, s \in Streams :
              Attest!HandleInit(p2, sizeOk, i, s)
         \/ \E p2 \in {0, 1}, n \in 0 .. MaxChunk : Attest!HandleData(p2, n)
         \/ Attest!HandleUnknownP1
      /\ UNCHANGED certificates
      /\ IF IsNewCall THEN NoSigning /\ NoExport ELSE UNCHANGED <<signVars, keysVars>>
  BY DEF AttestRequest, Attests
<1>2. Attest!Next
  BY <1>1 DEF Attest!Next
<1>3. Accepts(Attest!ATTEST_UTXO) /\ ~parsing
  <2>1. Attest!Accepts(Attest!ATTEST_UTXO) /\ ~parsing
    BY <1>1 DEF Attest!HandleInit, Attest!HandleData, Attest!HandleUnknownP1
  <2> QED
    BY <2>1, AttestActions
<1>4. On /\ ~Sending /\ ~locked /\ ioState = "IO"
      /\ currentInstruction \in {INS_NONE, Attest!ATTEST_UTXO}
  BY <1>3 DEF Accepts
<1>5. AttestCall
  BY <1>4, OpenCalls
<1>6. Attest!Inv /\ parsing \in BOOLEAN
  BY <1>5 DEF AttestCall, Attest!Inv, Attest!TypeOK
<1>7. Attest!Answers \/ Attest!Works
  BY <1>1, <1>6, Attest!HandleInitMoves, Attest!HandleDataMoves, Attest!HandleUnknownP1Moves,
     ParametersAssumption
<1>8. Attest!Works => AttestWorks
  BY <1>4, AttestPlatform, AttestActions
     DEF Attest!Works, AttestWorks, Attest!IoStateInside, IsNewCall
<1>9. AttestMoves
  BY <1>4, <1>7, <1>8, AttestAnswers DEF AttestMoves
<1> QED
  BY <1>1, <1>2, <1>3, <1>5, <1>9

\* In the parser loop the call is open and nothing else goes on.
LEMMA InTheLoop ==
  ASSUME AppInv, parsing
  PROVE  /\ On /\ ~Sending /\ ~locked /\ ioState = "NONE"
         /\ currentInstruction = Attest!ATTEST_UTXO /\ AttestCall
<1>1. On /\ ~locked /\ currentInstruction = Attest!ATTEST_UTXO
  BY DEF AppInv, ParsingInv
<1>2. AttestCall
  BY <1>1, OpenCalls
<1>3. ~Sending
  BY <1>2, AttestPlatform DEF AttestCall, Attest!Inv, Attest!ControlInv
<1> QED
  BY <1>1, <1>2, <1>3 DEF AttestCall

\* So does a turn of the parser loop, and the last one.
LEMMA ParseOnStep ==
  ASSUME AppInv, ParseOn
  PROVE  /\ AttestCall /\ Attest!Next
         /\ UNCHANGED <<signVars, keysVars, certificates>>
         /\ AttestMoves
<1>1. Attest!KeepParsing /\ UNCHANGED <<signVars, keysVars, certificates>>
  BY DEF ParseOn
<1>2. Attest!Next
  BY <1>1 DEF Attest!Next
<1>3. parsing
  BY <1>1 DEF Attest!KeepParsing
<1>4. Attest!Inv
  BY <1>3, InTheLoop DEF AttestCall
<1>5. Attest!Answers \/ Attest!Continues
  BY <1>1, <1>4, Attest!KeepParsingMoves, ParametersAssumption
<1>6. Attest!Continues => AttestWorks
  BY <1>3, InTheLoop DEF Attest!Continues, Attest!platformVars, AttestWorks
<1>7. AttestMoves
  BY <1>3, <1>5, <1>6, InTheLoop, AttestAnswers DEF AttestMoves
<1> QED
  BY <1>1, <1>2, <1>3, <1>7, InTheLoop

\* The last one may certify an output.
LEMMA FinishParsingStep ==
  ASSUME AppInv, FinishParsing
  PROVE  /\ AttestCall /\ Attest!Next
         /\ UNCHANGED <<signVars, keysVars>>
         /\ AttestMoves
         /\ reply'.data = NoData \/ reply'.data = Attest!Certificate
<1>1. Attest!Finish /\ UNCHANGED <<signVars, keysVars>>
  BY DEF FinishParsing
<1>2. Attest!Next
  BY <1>1 DEF Attest!Next
<1>3. parsing
  BY <1>1 DEF Attest!Finish
<1>4. Attest!Answers /\ (reply'.data = NoData \/ reply'.data = Attest!Certificate)
  BY <1>1, Attest!FinishMoves, AttestPlatform, ParametersAssumption
<1>5. AttestMoves
  BY <1>3, <1>4, InTheLoop, AttestAnswers DEF AttestMoves
<1> QED
  BY <1>1, <1>2, <1>3, <1>4, <1>5, InTheLoop

\* After all of them the call is still open, and the parser runs or has answered.
LEMMA AttestMoved ==
  ASSUME AttestCall, Attest!Next, AttestMoves
  PROVE  /\ AttestCall' /\ AttestKept' /\ ParsingInv'
         /\ On' /\ currentInstruction' = Attest!ATTEST_UTXO
<1>1. Attest!Inv' /\ AttestKept' /\ On'
  BY AttestStep
<1>2. /\ ~Sending' => ioState' = IF parsing' THEN "NONE" ELSE "IO"
      /\ Sending' /\ reply'.code # SUCCESS => reply'.then = "idle"
      /\ currentInstruction' = Attest!ATTEST_UTXO
      /\ locked' = FALSE
  <2>1. CASE AttestReplies
    <3>1. PICK code \in {SUCCESS} \cup AutoRespond : \E data, then :
            /\ code # SUCCESS => then = "idle"
            /\ Respond(Attest!ATTEST_UTXO, code, data, then)
      BY <2>1 DEF AttestReplies
    <3>2. PICK data, then : /\ code # SUCCESS => then = "idle"
                            /\ Respond(Attest!ATTEST_UTXO, code, data, then)
      BY <3>1
    <3>3. /\ reply' = [code |-> code, data |-> data, then |-> then]
          /\ currentInstruction' = Attest!ATTEST_UTXO /\ locked' = locked
      BY <3>2 DEF Respond
    <3>4. code # NoCode
      BY Codes
    <3>5. ~locked /\ locked \in BOOLEAN
      BY DEF AttestMoves, AttestCall, Attest!Inv, Attest!TypeOK
    <3> QED
      BY <3>2, <3>3, <3>4, <3>5 DEF Sending
  <2>2. CASE AttestWorks
    <3>1. ~locked /\ locked \in BOOLEAN /\ ~Sending
      BY DEF AttestMoves, AttestCall, Attest!Inv, Attest!TypeOK
    <3> QED
      BY <2>2, <3>1 DEF AttestWorks, Sending
  <2> QED
    BY <2>1, <2>2 DEF AttestMoves
<1>3. AttestCall'
  BY <1>1, <1>2 DEF AttestCall
<1>4. awaiting' \in BOOLEAN /\ parsing' \in BOOLEAN
  BY <1>1 DEF Attest!Inv, Attest!TypeOK
<1> QED
  BY <1>1, <1>2, <1>3, <1>4 DEF ParsingInv

\* A certificate is about an output of a transaction.
LEMMA FinishCertifies ==
  ASSUME AppInv, FinishParsing
  PROVE  CertificatesInv'
<1> DEFINE data == reply'.data
           u == [hash |-> data.hash, index |-> data.index, amount |-> data.amount]
<1>1. /\ attest_writeHmac(data) /\ signGhost' = signGhost
  BY DEF FinishParsing, signVars
<1>2. data = NoData \/ data = Attest!Certificate
  BY FinishParsingStep
<1>3. InputsGenuine(signGhost'.confirmedHash)
  BY <1>1 DEF AppInv, CertificatesInv
<1>4. \A v \in certificates : Genuine(v)
  BY DEF AppInv, CertificatesInv
<1>5. CASE data = NoData
  BY <1>1, <1>3, <1>4, <1>5 DEF attest_writeHmac, CertificatesInv
<1>6. CASE data # NoData
  <2>1. data.kind = "certificate"
    BY <1>2, <1>6 DEF Attest!Certificate
  <2>2. Sending'
    <3>1. AttestReplies \/ AttestWorks
      BY FinishParsingStep DEF AttestMoves
    <3>2. parsing' = FALSE
      BY DEF FinishParsing, Attest!Finish
    <3>3. PICK code \in {SUCCESS} \cup AutoRespond : \E d, then :
            Respond(Attest!ATTEST_UTXO, code, d, then)
      BY <3>1, <3>2 DEF AttestReplies, AttestWorks
    <3>4. reply'.code = code /\ code # NoCode
      BY <3>3, Codes DEF Respond
    <3> QED
      BY <3>4 DEF Sending
  <2>3. Attest!Inv'
    BY FinishParsingStep, AttestStep
  <2>4. (Attest!Sending <=> Sending)'
    BY AttestPlatform, PTL
  <2>5. \E tx \in Attest!AllTransactions :
          /\ data.hash = Attest!EncodeTx(tx)
          /\ Attest!Attestable(tx, data.index)
          /\ data.amount = tx.outputs[data.index + 1].amount
          /\ \E s \in Streams : Attest!IsPrefix(Attest!EncodeTx(tx), s)
    BY <2>1, <2>2, <2>3, <2>4 DEF Attest!Inv, Attest!CertificateInv
  <2> HIDE DEF data
  <2>6. Genuine(u)
    BY <2>5 DEF Genuine
  <2>7. certificates' = certificates \cup {u}
    BY <1>1, <1>6 DEF attest_writeHmac
  <2> HIDE DEF u
  <2> QED
    BY <1>3, <1>4, <2>6, <2>7 DEF CertificatesInv
<1> QED
  BY <1>5, <1>6

-----------------------------------------------------------------------------
(***************************************************************************)
(* The inductive invariant.                                                *)
(***************************************************************************)

\* The certificates, as long as no new one is made and SignTx keeps or zeroes what
\* the user has confirmed.
LEMMA CertificatesStay ==
  ASSUME CertificatesInv, UNCHANGED certificates, UNCHANGED signVars \/ NoSigning
  PROVE  CertificatesInv'
<1>1. CASE UNCHANGED signVars
  BY <1>1 DEF CertificatesInv, signVars
<1>2. CASE NoSigning
  <2>1. signGhost'.confirmedHash = <<>>
    BY <1>2 DEF NoSigning, Sign!ZeroGhost, Sign!ZeroHash
  <2>2. InputsGenuine(<<>>)
    BY DEF InputsGenuine, Items
  <2> QED
    BY <2>1, <2>2 DEF CertificatesInv
<1> QED
  BY <1>1, <1>2

\* A request to SignTx.
LEMMA SignRequestInv ==
  ASSUME AppInv, SignRequest
  PROVE  AppInv'
<1>1. /\ SignCall /\ Sign!Next /\ UNCHANGED certificates /\ ~parsing
      /\ IF IsNewCall THEN NoAttesting /\ NoExport ELSE UNCHANGED <<attestVars, keysVars>>
  BY SignRequestStep
<1>2. PICK step : Moves(Sign!SIGN_TX, step, signCtx'.uiStep)
  BY SignRequestStep
<1>3. SignCall' /\ SignKept' /\ CertificatesInv'
  BY <1>1, SignStep DEF AppInv
<1>4. AttestKept' /\ KeysKept' /\ parsing' = FALSE
  <2>1. CASE IsNewCall
    BY <1>1, <2>1, ZeroesAreKept
  <2>2. CASE ~IsNewCall
    BY <1>1, <2>2, UntouchedAreKept DEF AppInv, Kept, ParsingInv, attestVars
  <2> QED
    BY <2>1, <2>2
<1>5. (On' => currentInstruction' = Sign!SIGN_TX) /\ locked' = locked /\ awaiting' \in BOOLEAN
  BY <1>2, Moved DEF AppInv
<1>6. CallInv'
  BY <1>3, <1>5 DEF CallInv
<1>7. ParsingInv'
  BY <1>4, <1>5 DEF AppInv, ParsingInv
<1> QED
  BY <1>3, <1>4, <1>6, <1>7 DEF AppInv, Kept

\* A request to PublicKeys.
LEMMA ExportRequestInv ==
  ASSUME AppInv, ExportRequest
  PROVE  AppInv'
<1>1. /\ KeysCall /\ Keys!Next /\ UNCHANGED certificates /\ ~parsing
      /\ IF IsNewCall THEN NoSigning /\ NoAttesting ELSE UNCHANGED <<signVars, attestVars>>
  BY ExportRequestStep
<1>2. PICK ins \in Keys!Instructions : \E step : Moves(ins, step, keysCtx'.uiStep)
  BY ExportRequestStep
<1>3. Keys!Inv' /\ KeysKept'
  BY <1>1, KeysStep
<1>4. SignKept' /\ AttestKept' /\ parsing' = FALSE /\ CertificatesInv'
  <2>1. CASE IsNewCall
    BY <1>1, <2>1, ZeroesAreKept, CertificatesStay DEF AppInv
  <2>2. CASE ~IsNewCall
    BY <1>1, <2>2, UntouchedAreKept, CertificatesStay DEF AppInv, Kept, ParsingInv, attestVars
  <2> QED
    BY <2>1, <2>2
<1>5. /\ On' => currentInstruction' = ins
      /\ On' /\ Asking' => Owner(display'.callback) = ins
      /\ locked' = locked /\ awaiting' \in BOOLEAN
  BY <1>2, Moved DEF AppInv
<1>6. On' => KeysCall'
  BY <1>3, <1>5 DEF KeysCall
<1>7. CallInv'
  BY <1>2, <1>5, <1>6 DEF CallInv
<1>8. ParsingInv'
  BY <1>4, <1>5 DEF AppInv, ParsingInv
<1> QED
  BY <1>3, <1>4, <1>7, <1>8 DEF AppInv, Kept

\* A request to AttestUtxo.
LEMMA AttestRequestInv ==
  ASSUME AppInv, AttestRequest
  PROVE  AppInv'
<1>1. /\ AttestCall /\ Attest!Next /\ UNCHANGED certificates /\ AttestMoves
      /\ IF IsNewCall THEN NoSigning /\ NoExport ELSE UNCHANGED <<signVars, keysVars>>
  BY AttestRequestStep
<1>2. /\ AttestCall' /\ AttestKept' /\ ParsingInv'
      /\ On' /\ currentInstruction' = Attest!ATTEST_UTXO
  BY <1>1, AttestMoved
<1>3. SignKept' /\ KeysKept' /\ CertificatesInv'
  <2>1. CASE IsNewCall
    BY <1>1, <2>1, ZeroesAreKept, CertificatesStay DEF AppInv
  <2>2. CASE ~IsNewCall
    BY <1>1, <2>2, UntouchedAreKept, CertificatesStay DEF AppInv, Kept
  <2> QED
    BY <2>1, <2>2
<1> QED
  BY <1>2, <1>3 DEF AppInv, Kept, CallInv

\* The parser loop.
LEMMA ParsingSteps ==
  ASSUME AppInv, ParseOn \/ FinishParsing
  PROVE  AppInv'
<1>1. /\ AttestCall /\ Attest!Next /\ AttestMoves
      /\ UNCHANGED <<signVars, keysVars>>
  BY ParseOnStep, FinishParsingStep
<1>2. /\ AttestCall' /\ AttestKept' /\ ParsingInv'
      /\ On' /\ currentInstruction' = Attest!ATTEST_UTXO
  BY <1>1, AttestMoved
<1>3. SignKept' /\ KeysKept'
  BY <1>1, UntouchedAreKept DEF AppInv, Kept
<1>4. CertificatesInv'
  <2>1. CASE ParseOn
    BY <1>1, <2>1, ParseOnStep, CertificatesStay DEF AppInv
  <2>2. CASE FinishParsing
    BY <2>2, FinishCertifies
  <2> QED
    BY <2>1, <2>2
<1> QED
  BY <1>2, <1>3, <1>4 DEF AppInv, Kept, CallInv

\* A button.
LEMMA UserConfirmsInv ==
  ASSUME AppInv, UserConfirms
  PROVE  AppInv'
<1>1. ~parsing /\ UNCHANGED <<attestVars, certificates>>
  BY ButtonStep
<1>2. AttestKept' /\ parsing' = FALSE
  BY <1>1, UntouchedAreKept DEF AppInv, Kept, ParsingInv, attestVars
<1>3. CASE /\ currentInstruction = Sign!SIGN_TX /\ SignCall /\ Sign!Next
           /\ UNCHANGED keysVars
           /\ Moves(Sign!SIGN_TX, signCtx.uiStep, signCtx'.uiStep)
  <2>1. SignCall' /\ SignKept' /\ CertificatesInv' /\ KeysKept'
    BY <1>1, <1>3, SignStep, UntouchedAreKept DEF AppInv, Kept
  <2>2. /\ On' => currentInstruction' = Sign!SIGN_TX
        /\ locked' = locked /\ awaiting' \in BOOLEAN
    BY <1>3, Moved DEF AppInv
  <2>3. CallInv' /\ ParsingInv'
    BY <1>2, <2>1, <2>2 DEF CallInv, AppInv, ParsingInv
  <2> QED
    BY <1>2, <2>1, <2>3 DEF AppInv, Kept
<1>4. CASE /\ currentInstruction \in Keys!Instructions /\ KeysCall /\ Keys!Next
           /\ UNCHANGED signVars
           /\ Moves(currentInstruction, keysCtx.uiStep, keysCtx'.uiStep)
  <2>1. Keys!Inv' /\ KeysKept'
    BY <1>4, KeysStep
  <2>2. SignKept' /\ CertificatesInv'
    BY <1>1, <1>4, UntouchedAreKept, CertificatesStay DEF AppInv, Kept
  <2>3. /\ On' => currentInstruction' = currentInstruction
        /\ On' /\ Asking' => Owner(display'.callback) = currentInstruction
        /\ locked' = locked /\ awaiting' \in BOOLEAN
    BY <1>4, Moved DEF AppInv
  <2>4. On' => KeysCall'
    BY <2>1, <2>3 DEF KeysCall
  <2>5. CallInv'
    BY <1>4, <2>3, <2>4 DEF CallInv
  <2>6. ParsingInv'
    BY <1>2, <2>3 DEF AppInv, ParsingInv
  <2> QED
    BY <1>2, <2>1, <2>2, <2>5, <2>6 DEF AppInv, Kept
<1> QED
  BY <1>3, <1>4, ButtonStep

\* The steps no instruction has a part in.
Outside == RejectApdu \/ ApduDuringUi \/ UserRejects \/ LockDevice \/ UnlockDevice

\* They answer with an error, stop the device, or leave all but the lock alone.
LEMMA OutsideIs ==
  ASSUME AppInv, Outside
  PROVE  /\ On
         /\ \/ /\ ~Sending
               /\ \E e \in AutoRespond : Respond(currentInstruction, e, NoData, "idle")
            \/ ~On' /\ UNCHANGED <<locked, awaiting>>
            \/ /\ locked' \in BOOLEAN
               /\ UNCHANGED <<crashed, ioState, currentInstruction, display, reply, awaiting>>
<1>1. CASE RejectApdu
  BY <1>1 DEF RejectApdu, MainLoopErrors, AutoRespond
<1>2. CASE ApduDuringUi
  <2>1. ASSERT_IO_STATE # NotCrashed
    BY DEF ASSERT_IO_STATE, NotCrashed
  <2> QED
    BY <1>2, <2>1 DEF ApduDuringUi, Crash, On
<1>3. CASE UserRejects
  <2>1. On /\ ~Sending /\ ioState = "UI"
    BY <1>3, WhoseButton DEF UserRejects
  <2>2. Respond(currentInstruction, ERR_REJECTED_BY_USER, NoData, "idle")
    BY <1>3, <2>1 DEF UserRejects, RejectThen, ButtonAsserts
  <2>3. ERR_REJECTED_BY_USER \in AutoRespond
    BY DEF AutoRespond
  <2> QED
    BY <2>1, <2>2, <2>3
<1>4. CASE LockDevice \/ UnlockDevice
  BY <1>4 DEF LockDevice, UnlockDevice
<1> QED
  BY <1>1, <1>2, <1>3, <1>4 DEF Outside

\* The open call, if any, goes on or ends.
LEMMA OutsideCall ==
  ASSUME AppInv, Outside, ~parsing, UNCHANGED <<signVars, attestVars, keysVars, certificates>>
  PROVE  CallInv'
<1> SUFFICES ASSUME On' PROVE CallInv'
  BY DEF CallInv
<1>1. /\ On /\ currentInstruction' = currentInstruction
      /\ \/ /\ ~Sending
            /\ \E e \in AutoRespond : Respond(currentInstruction, e, NoData, "idle")
         \/ UNCHANGED <<crashed, ioState, currentInstruction, display, reply, awaiting>>
  BY OutsideIs DEF Respond
<1>2. CASE currentInstruction = INS_NONE
  <2>1. Idle
    BY <1>1, <1>2, OpenCalls
  <2>2. CASE /\ ~Sending
             /\ \E e \in AutoRespond : Respond(currentInstruction, e, NoData, "idle")
    <3>1. ioState = "IO" /\ display = Menu
      BY <2>1, <2>2, BetweenCalls
    <3>2. [Menu EXCEPT !.run = TRUE] = Menu
      BY DEF Menu, Screen, Says
    <3>3. PICK e \in AutoRespond : Respond(currentInstruction, e, NoData, "idle")
      BY <2>2
    <3>4. reply' = ErrorReply(e) /\ ioState' = "NONE" /\ awaiting' /\ display' = Menu
      BY <3>1, <3>2, <3>3 DEF Respond, ErrorReply, IoStateInside
    <3>5. Idle'
      BY <3>3, <3>4 DEF Idle
    <3> QED
      BY <1>1, <1>2, <3>5 DEF CallInv
  <2>3. CASE UNCHANGED <<crashed, ioState, currentInstruction, display, reply, awaiting>>
    <3>1. Idle'
      BY <2>1, <2>3 DEF Idle
    <3> QED
      BY <1>1, <1>2, <3>1 DEF CallInv
  <2> QED
    BY <1>1, <2>2, <2>3
<1>3. CASE currentInstruction = Sign!SIGN_TX
  <2>1. Sign!PlatformStep
    BY SignOutside DEF Sign!PlatformStep, Outside, Sign!signTxVars, signVars
  <2>2. SignCall'
    BY <1>1, <1>3, <2>1, OpenCalls, SignStep DEF Sign!Next, AppInv
  <2> QED
    BY <1>1, <1>3, <2>2 DEF CallInv
<1>4. CASE currentInstruction = Attest!ATTEST_UTXO
  <2>1. AttestCall
    BY <1>1, <1>4, OpenCalls
  <2>2. ~UserRejects
    <3>1. SUFFICES ASSUME UserRejects PROVE FALSE
      OBVIOUS
    <3>2. currentInstruction \in {Sign!SIGN_TX} \cup Keys!Instructions
      BY <3>1, WhoseButton DEF UserRejects
    <3> QED
      BY <1>4, <3>2
         DEF Attest!ATTEST_UTXO, Sign!SIGN_TX, Keys!Instructions, Keys!GET_VERSION,
             Keys!GET_EXT_PUB_KEY, Keys!DERIVE_ADDRESS
  <2>3. ~ApduDuringUi
    BY <2>1 DEF AttestCall, ApduDuringUi
  <2>4. Attest!PlatformStep
    BY <2>2, <2>3, AttestOutside DEF Attest!PlatformStep, Outside, Attest!attestVars, attestVars
  <2>5. Attest!Inv'
    BY <2>1, <2>4, AttestStep DEF Attest!Next
  <2>6. AttestCall'
    <3>1. parsing' = FALSE
      BY <2>1 DEF AttestCall, Attest!Inv, Attest!TypeOK, attestVars
    <3>2. CASE /\ ~Sending
               /\ \E e \in AutoRespond : Respond(currentInstruction, e, NoData, "idle")
      <4>1. Sending' /\ reply'.then = "idle"
        BY <3>2, Codes DEF Respond, Sending
      <4> QED
        BY <2>5, <4>1 DEF AttestCall
    <3>3. CASE UNCHANGED <<crashed, ioState, currentInstruction, display, reply, awaiting>>
      BY <2>1, <2>5, <3>1, <3>3 DEF AttestCall, Sending
    <3> QED
      BY <1>1, <3>2, <3>3
  <2> QED
    BY <1>1, <1>4, <2>6 DEF CallInv
<1>5. CASE currentInstruction \in Keys!Instructions
  <2>1. KeysCall
    BY <1>1, <1>5, OpenCalls
  <2>2. Keys!PlatformStep
    BY KeysOutside DEF Keys!PlatformStep, Outside, Keys!publicKeysVars, keysVars
  <2>3. Keys!Inv'
    BY <2>1, <2>2, KeysStep DEF Keys!Next
  <2>4. Asking' => Owner(display'.callback) = currentInstruction'
    <3>1. CASE /\ ~Sending
               /\ \E e \in AutoRespond : Respond(currentInstruction, e, NoData, "idle")
      BY <3>1, Codes DEF Respond, Sending, Asking
    <3>2. CASE UNCHANGED <<crashed, ioState, currentInstruction, display, reply, awaiting>>
      BY <2>1, <3>2 DEF KeysCall, Asking, Sending, On
    <3> QED
      BY <1>1, <3>1, <3>2
  <2> QED
    BY <1>1, <1>5, <2>3, <2>4 DEF CallInv, KeysCall
<1> QED
  BY <1>1, <1>2, <1>3, <1>4, <1>5, OpenCalls

\* The contexts and the certificates stay.
LEMMA OutsideInv ==
  ASSUME AppInv, Outside, ~parsing, UNCHANGED <<signVars, attestVars, keysVars, certificates>>
  PROVE  AppInv'
<1>1. Kept' /\ CertificatesInv'
  BY UntouchedAreKept, CertificatesStay DEF AppInv, Kept
<1>2. locked' \in BOOLEAN /\ awaiting' \in BOOLEAN
  BY OutsideIs DEF Respond, AppInv, ParsingInv
<1>3. ParsingInv'
  BY <1>2 DEF AppInv, ParsingInv, attestVars
<1> QED
  BY <1>1, <1>3, OutsideCall DEF AppInv

\* The steps of the platform that the application has.
LEMMA PlatformStepsInv ==
  ASSUME AppInv, UserRejectsPrompt \/ PlatformStep \/ Unlock
  PROVE  AppInv'
<1>1. Outside /\ UNCHANGED <<signVars, attestVars, keysVars, certificates>>
  BY DEF UserRejectsPrompt, PlatformStep, Unlock, Outside
<1>2. ~parsing
  <2>1. CASE UserRejectsPrompt
    <3>1. currentInstruction # Attest!ATTEST_UTXO
      <4>1. currentInstruction \in {Sign!SIGN_TX} \cup Keys!Instructions
        BY <2>1, WhoseButton DEF UserRejectsPrompt, UserRejects
      <4> QED
        BY <4>1
           DEF Attest!ATTEST_UTXO, Sign!SIGN_TX, Keys!Instructions, Keys!GET_VERSION,
               Keys!GET_EXT_PUB_KEY, Keys!DERIVE_ADDRESS
    <3> QED
      BY <3>1 DEF AppInv, ParsingInv
  <2>2. CASE PlatformStep
    BY <2>2 DEF PlatformStep
  <2>3. CASE Unlock
    BY <2>3 DEF Unlock, UnlockDevice, AppInv, ParsingInv
  <2> QED
    BY <2>1, <2>2, <2>3
<1> QED
  BY <1>1, <1>2, OutsideInv

\* The end of a transmission.
LEMMA TransmittedIs ==
  ASSUME NEW then, Transmitted(then)
  PROVE  /\ On /\ On' /\ Sending /\ ~Sending' /\ reply' = NoReply /\ ioState' = "IO"
         /\ awaiting' = FALSE /\ locked' = locked
         /\ then = "idle" => currentInstruction' = INS_NONE /\ Idle'
         /\ then # "idle" => currentInstruction' = currentInstruction
<1>1. NoReply.code = NoCode
  BY DEF NoReply
<1>2. then = "idle" => display' = Menu
  BY DEF Transmitted, ScreenAfter
<1> QED
  BY <1>1, <1>2 DEF Transmitted, On, Sending, Idle

\* After it the call goes on, or the application is between calls.
LEMMA SendDoneInv ==
  ASSUME AppInv, SendDone
  PROVE  AppInv'
<1>1. UNCHANGED certificates
  BY DEF SendDone
<1>2. CASE /\ currentInstruction = Sign!SIGN_TX
           /\ Sign!SendDone
           /\ UNCHANGED <<attestVars, keysVars>>
  <2>1. PICK then : Transmitted(then)
    BY <1>2, SignActions DEF Sign!SendDone
  <2>2. SignCall
    BY <1>2, <2>1, TransmittedIs, OpenCalls
  <2>3. SignCall' /\ SignKept' /\ CertificatesInv'
    BY <1>1, <1>2, <2>2, SignStep DEF AppInv, Sign!Next
  <2>4. AttestKept' /\ KeysKept' /\ parsing' = parsing
    BY <1>2, UntouchedAreKept DEF AppInv, Kept, attestVars
  <2>5. CallInv'
    BY <1>2, <2>1, <2>3, TransmittedIs DEF CallInv
  <2>6. ParsingInv'
    <3>1. ~parsing
      BY <1>2 DEF AppInv, ParsingInv, Sign!SIGN_TX, Attest!ATTEST_UTXO
    <3> QED
      BY <2>1, <2>4, <3>1, TransmittedIs DEF AppInv, ParsingInv
  <2> QED
    BY <2>3, <2>4, <2>5, <2>6 DEF AppInv, Kept
<1>3. CASE /\ currentInstruction = Attest!ATTEST_UTXO
           /\ Attest!SendDone
           /\ UNCHANGED <<signVars, keysVars>>
  <2>1. PICK then : Transmitted(then)
    BY <1>3, AttestActions DEF Attest!SendDone
  <2>2. AttestCall /\ Sending /\ ~parsing /\ parsing \in BOOLEAN /\ parsing' = parsing
    <3>1. AttestCall /\ Sending
      BY <1>3, <2>1, TransmittedIs, OpenCalls
    <3>2. ~parsing
      BY <3>1, AttestPlatform DEF AttestCall, Attest!Inv, Attest!ControlInv
    <3> QED
      BY <1>3, <3>1, <3>2 DEF AppInv, ParsingInv, Attest!SendDone, Attest!attestVars
  <2>3. Attest!Inv' /\ AttestKept'
    BY <1>3, <2>2, AttestStep DEF Attest!Next
  <2>4. AttestCall'
    BY <2>1, <2>2, <2>3, TransmittedIs DEF AttestCall
  <2>5. CallInv'
    BY <1>3, <2>1, <2>4, TransmittedIs DEF CallInv
  <2>6. ParsingInv'
    BY <2>1, <2>2, TransmittedIs DEF AppInv, ParsingInv
  <2>7. SignKept' /\ KeysKept' /\ CertificatesInv'
    BY <1>1, <1>3, UntouchedAreKept, CertificatesStay DEF AppInv, Kept
  <2> QED
    BY <2>3, <2>5, <2>6, <2>7 DEF AppInv, Kept
<1>4. CASE /\ currentInstruction \notin {Sign!SIGN_TX, Attest!ATTEST_UTXO}
           /\ Keys!SendDone
           /\ UNCHANGED <<signVars, attestVars>>
  <2>1. Transmitted(reply.then)
    BY <1>4, KeysActions DEF Keys!SendDone
  <2>2. KeysCall /\ currentInstruction \in {INS_NONE} \cup Keys!Instructions
    BY <1>4, <2>1, TransmittedIs, OpenCalls
  <2>3. Keys!Inv' /\ KeysKept'
    BY <1>4, <2>2, KeysStep DEF Keys!Next
  <2>4. KeysCall'
    <3>1. ~Asking'
      BY <2>1, TransmittedIs DEF Asking
    <3> QED
      BY <2>3, <3>1 DEF KeysCall
  <2>5. currentInstruction = INS_NONE => reply.then = "idle"
    BY <2>1, TransmittedIs, OpenCalls, BetweenCalls
  <2>6. CallInv'
    BY <2>1, <2>2, <2>4, <2>5, TransmittedIs DEF CallInv
  <2>7. ParsingInv'
    <3>1. ~parsing /\ parsing' = parsing
      BY <1>4 DEF AppInv, ParsingInv, attestVars
    <3> QED
      BY <2>1, <3>1, TransmittedIs DEF AppInv, ParsingInv
  <2>8. SignKept' /\ AttestKept' /\ CertificatesInv'
    BY <1>1, <1>4, UntouchedAreKept, CertificatesStay DEF AppInv, Kept
  <2> QED
    BY <2>3, <2>6, <2>7, <2>8 DEF AppInv, Kept
<1> QED
  BY <1>2, <1>3, <1>4 DEF SendDone

\* The application starts over, with a new key.
LEMMA StartOverInv ==
  ASSUME AppInv, StartOver
  PROVE  AppInv'
<1>1. /\ ~parsing /\ toSend' = <<>> /\ certificates' = {}
      /\ UNCHANGED <<signVars, keysVars, parser, magic, hashed, parsing>>
      /\ Boot /\ (locked' = locked \/ locked' = FALSE)
  BY DEF StartOver, IoReset, Restart, attestKey_initialize
<1>2. On' /\ currentInstruction' = INS_NONE /\ Idle'
  BY <1>1 DEF Boot, On, Idle
<1>3. SignKept' /\ KeysKept'
  BY <1>1, UntouchedAreKept DEF AppInv, Kept
<1>4. AttestKept'
  BY <1>1 DEF AppInv, Kept, AttestKept
<1>5. CertificatesInv'
  BY <1>1 DEF AppInv, CertificatesInv, signVars
<1>6. CallInv'
  BY <1>2 DEF CallInv
<1>7. ParsingInv'
  BY <1>1 DEF AppInv, ParsingInv, Boot
<1> QED
  BY <1>3, <1>4, <1>5, <1>6, <1>7 DEF AppInv, Kept

\* Nothing happens.
LEMMA StutterInv ==
  ASSUME AppInv, UNCHANGED vars
  PROVE  AppInv'
<1>1. /\ UNCHANGED <<signVars, attestVars, keysVars, certificates>>
      /\ UNCHANGED <<crashed, ioState, currentInstruction, display, reply, locked, awaiting>>
  BY DEF vars, platformVars
<1>2. Kept' /\ CertificatesInv'
  BY <1>1, UntouchedAreKept, CertificatesStay DEF AppInv, Kept
<1>3. ParsingInv'
  BY <1>1 DEF AppInv, ParsingInv, attestVars, On
<1>4. CallInv'
  <2>1. SUFFICES ASSUME On' PROVE CallInv'
    BY DEF CallInv
  <2>2. On /\ currentInstruction' = currentInstruction
    BY <1>1, <2>1 DEF On
  <2>3. CASE currentInstruction = INS_NONE
    <3>1. Idle'
      BY <1>1, <2>2, <2>3, OpenCalls DEF Idle
    <3> QED
      BY <2>2, <2>3, <3>1 DEF CallInv
  <2>4. CASE currentInstruction = Sign!SIGN_TX
    <3>1. UNCHANGED Sign!vars
      BY <1>1 DEF Sign!vars, Sign!platformVars, Sign!signTxVars, signVars
    <3>2. SignCall'
      BY <1>1, <2>2, <2>4, <3>1, OpenCalls, SignStep DEF AppInv
    <3> QED
      BY <2>2, <2>4, <3>2 DEF CallInv
  <2>5. CASE currentInstruction = Attest!ATTEST_UTXO
    <3>1. UNCHANGED Attest!vars
      BY <1>1 DEF Attest!vars, Attest!platformVars, Attest!attestVars, attestVars
    <3>2. AttestCall
      BY <2>2, <2>5, OpenCalls
    <3>3. Attest!Inv'
      BY <3>1, <3>2, AttestStep
    <3>4. AttestCall'
      BY <1>1, <3>2, <3>3 DEF AttestCall, Sending, attestVars
    <3> QED
      BY <2>2, <2>5, <3>4 DEF CallInv
  <2>6. CASE currentInstruction \in Keys!Instructions
    <3>1. UNCHANGED Keys!vars
      BY <1>1 DEF Keys!vars, Keys!platformVars, Keys!publicKeysVars, keysVars
    <3>2. KeysCall
      BY <2>2, <2>6, OpenCalls
    <3>3. Keys!Inv'
      BY <3>1, <3>2, KeysStep
    <3>4. KeysCall'
      BY <1>1, <3>2, <3>3 DEF KeysCall, Asking, Sending, On
    <3> QED
      BY <2>2, <2>6, <3>4 DEF CallInv
  <2> QED
    BY <2>2, <2>3, <2>4, <2>5, <2>6, OpenCalls
<1> QED
  BY <1>2, <1>3, <1>4 DEF AppInv

\* How it starts.
LEMMA InitAppInv == Init => AppInv
<1> SUFFICES ASSUME Init PROVE AppInv
  OBVIOUS
<1>1. /\ crashed = NotCrashed /\ ioState = "IO" /\ currentInstruction = INS_NONE
      /\ display = Menu /\ reply = NoReply /\ locked = FALSE /\ awaiting = FALSE
      /\ signCtx = Sign!ZeroContext /\ signGhost = Sign!ZeroGhost
      /\ parser = Attest!ZeroParser /\ magic = FALSE /\ hashed = <<>>
      /\ parsing = FALSE /\ toSend = <<>>
      /\ keysCtx = Keys!ZeroContext /\ keysGhost = Keys!ZeroGhost
      /\ certificates = {}
  BY DEF Init, PlatformInit
<1>2. Idle
  BY <1>1 DEF Idle
<1>3. SignKept
  <2>1. Sign!ZeroContext \in Sign!Context /\ Sign!ZeroGhost \in Sign!Ghost
    BY Sign!ZeroContextType, ParametersAssumption
  <2>2. /\ Sign!ZeroContext.txHash = Sign!ZeroHash
        /\ Sign!ZeroGhost.confirmedHash = Sign!ZeroHash
        /\ Sign!ZeroGhost.signatures <= Sign!ZeroGhost.announced.inputs
    BY DEF Sign!ZeroContext, Sign!ZeroGhost
  <2> QED
    BY <1>1, <2>1, <2>2
       DEF SignKept, Sign!HashIsWholeTransaction, Sign!UserSawTransaction, Sign!FeeIsExact,
           Sign!ConfirmedWorthOk
<1>4. AttestKept
  <2>1. /\ Attest!ZeroParser \in Attest!Parser
        /\ Attest!ZeroParser.unread = <<>> /\ Attest!ZeroParser.bufferPos = 0
    BY Attest!EmptyParsers, ParametersAssumption
  <2>2. Len(<<>>) = 0 /\ <<>> \in Seq(Attest!Byte) /\ 0 + 0 <= STREAM_BUFFER_SIZE
    BY ParametersAssumption DEF Attest!ParserAssumption
  <2> QED
    BY <1>1, <2>1, <2>2 DEF AttestKept
<1>5. KeysKept
  BY <1>1, Keys!ZeroTypes, ParametersAssumption DEF KeysKept
<1>6. CertificatesInv
  <2>1. signGhost.confirmedHash = <<>>
    BY <1>1 DEF Sign!ZeroGhost, Sign!ZeroHash
  <2> QED
    BY <1>1, <2>1 DEF CertificatesInv, InputsGenuine, Items
<1> QED
  BY <1>1, <1>2, <1>3, <1>4, <1>5, <1>6 DEF AppInv, Kept, CallInv, ParsingInv

\* Every step keeps it.
LEMMA NextAppInv == AppInv /\ [Next]_vars => AppInv'
<1> SUFFICES ASSUME AppInv, [Next]_vars PROVE AppInv'
  OBVIOUS
<1>1. CASE UNCHANGED vars
  BY <1>1, StutterInv
<1>2. CASE Next
  BY <1>2, SignRequestInv, AttestRequestInv, ExportRequestInv, ParsingSteps, UserConfirmsInv,
     PlatformStepsInv, SendDoneInv, StartOverInv
     DEF Next, Step
<1> QED
  BY <1>1, <1>2

\* In whatever order the host calls the instructions, the open call satisfies all
\* that is proved of it on its own, and every certificate and every input of the
\* hash the user has confirmed is about an output of a transaction (handlers.c,
\* main.c: one union of contexts, zeroed for each call; attestKey.c).
THEOREM AppInvariant == Spec => []AppInv
  BY InitAppInv, NextAppInv, PTL DEF Spec

-----------------------------------------------------------------------------
(***************************************************************************)
(* The fee.                                                                *)
(***************************************************************************)

\* A sum is the same in both modules.
LEMMA SameSum == \A f : Sign!SumFunction(f) = SumFunction(f)
  BY DEF Sign!SumFunction, SumFunction, Sign!SumFunctionOnSet, SumFunctionOnSet,
         Sign!FoldFunctionOnSet, FoldFunctionOnSet, Sign!MapThenFoldSet, MapThenFoldSet

\* Provided that Transactions are all the transactions the host can send, the fee
\* the user confirms is what the inputs are worth in the transactions they come from
\* less the outputs, unless an output amount wraps the 64-bit sum: the two
\* instructions and the key they share do what doc/ins_attest_utxo.md has them for.
THEOREM FeesAreTrue ==
  ASSUME Attest!TransactionsAreAll
  PROVE  Spec => []ConfirmedFeeIsTrue
<1> DEFINE h == signGhost.confirmedHash
<1>1. AppInv => ConfirmedFeeIsTrue
  <2> SUFFICES ASSUME AppInv, h # Sign!ZeroHash, Sign!OutputsDoNotWrap(h)
               PROVE  /\ \A k \in Items(h, "input") : IsTrue(h[k].utxo)
                      /\ Sign!FeeShown + SumFunction([k \in Items(h, "output") |-> h[k].amount])
                           = SumFunction([k \in Items(h, "input") |-> h[k].utxo.amount])
    BY DEF ConfirmedFeeIsTrue
  <2>1. ASSUME NEW k \in Items(h, "input") PROVE IsTrue(h[k].utxo)
    <3>1. Genuine(h[k].utxo)
      BY <2>1 DEF AppInv, CertificatesInv, InputsGenuine
    <3>2. PICK tx \in Attest!AllTransactions :
            /\ h[k].utxo.hash = Attest!EncodeTx(tx)
            /\ Attest!Attestable(tx, h[k].utxo.index)
            /\ h[k].utxo.amount = tx.outputs[h[k].utxo.index + 1].amount
            /\ \E s \in Streams : Attest!IsPrefix(Attest!EncodeTx(tx), s)
      BY <3>1 DEF Genuine
    <3>3. tx \in Transactions
      BY <3>2 DEF Attest!TransactionsAreAll
    <3> QED
      BY <3>2, <3>3 DEF IsTrue
  <2>2. /\ Sign!Named(h)
        /\ signGhost.exactIn = SumFunction(Sign!InputAmounts(h))
        /\ signGhost.exactOut = SumFunction(Sign!OutputAmounts(h))
    BY SameSum DEF AppInv, Kept, SignKept, Sign!ConfirmedWorthOk, Sign!WorthOk
  <2>3. /\ signGhost.exactIn > signGhost.exactOut
        /\ Sign!FeeShown = signGhost.exactIn - signGhost.exactOut
    BY DEF AppInv, Kept, SignKept, Sign!FeeIsExact
  <2>4. signGhost.exactIn \in Nat /\ signGhost.exactOut \in Nat
    BY DEF AppInv, Kept, SignKept, Sign!Ghost
  <2>5. Sign!OutputAmounts(h) = [k \in Items(h, "output") |-> h[k].amount]
    BY DEF Sign!OutputAmounts, Sign!Items, Items
  <2>6. Sign!InputAmounts(h) = [k \in Items(h, "input") |-> h[k].utxo.amount]
    <3>1. Sign!Items(h, "input") = Items(h, "input")
      BY DEF Sign!Items, Items
    <3>2. \A k \in Items(h, "input") : h[k].utxo \in WireUtxos
      BY <2>2, <3>1 DEF Sign!Named
    <3>3. \A k \in Items(h, "input") : [u \in WireUtxos |-> u.amount][h[k].utxo] = h[k].utxo.amount
      BY <3>2
    <3> QED
      BY <3>1, <3>3 DEF Sign!InputAmounts
  <2>7. Sign!FeeShown + signGhost.exactOut = signGhost.exactIn
    BY <2>3, <2>4
  <2> QED
    BY <2>1, <2>2, <2>5, <2>6, <2>7
<1> QED
  BY <1>1, AppInvariant, PTL

-----------------------------------------------------------------------------
(***************************************************************************)
(* The application follows the protocol between a host and a user.         *)
(***************************************************************************)

\* What the outside sees, case by case.
LEMMA PhaseIs ==
  ASSUME NEW cause, NEW rep, NEW io
  PROVE  /\ cause # NotCrashed => PhaseOf(cause, rep, io) = "down"
         /\ cause = NotCrashed /\ rep.code # NoCode => PhaseOf(cause, rep, io) = "sending"
         /\ cause = NotCrashed /\ rep.code = NoCode /\ io = "IO" =>
              PhaseOf(cause, rep, io) = "ready"
         /\ cause = NotCrashed /\ rep.code = NoCode /\ io = "UI" =>
              PhaseOf(cause, rep, io) = "asking"
         /\ cause = NotCrashed /\ rep.code = NoCode /\ io = "NONE" =>
              PhaseOf(cause, rep, io) = "working"
<1>1. CASE cause # NotCrashed
  BY <1>1 DEF PhaseOf
<1>2. CASE cause = NotCrashed /\ rep.code # NoCode
  BY <1>2 DEF PhaseOf
<1>3. CASE cause = NotCrashed /\ rep.code = NoCode /\ io = "IO"
  BY <1>3 DEF PhaseOf
<1>4. CASE cause = NotCrashed /\ rep.code = NoCode /\ io = "UI"
  BY <1>4 DEF PhaseOf
<1>5. CASE cause = NotCrashed /\ rep.code = NoCode /\ io = "NONE"
  BY <1>5 DEF PhaseOf
<1> QED
  BY <1>1, <1>2, <1>3, <1>4, <1>5

\* The phase of a state,
LEMMA PhaseNow ==
  /\ ~On => Phase = "down"
  /\ On /\ Sending => Phase = "sending"
  /\ On /\ ~Sending /\ ioState = "IO" => Phase = "ready"
  /\ On /\ ~Sending /\ ioState = "UI" => Phase = "asking"
  /\ On /\ ~Sending /\ ioState = "NONE" => Phase = "working"
  BY PhaseIs DEF Phase, On, Sending

\* which it always has,
LEMMA PhaseKnown ==
  ASSUME AppInv
  PROVE  On => Phase \in {"sending", "ready", "asking", "working"}
<1> SUFFICES ASSUME On, ~Sending PROVE ioState \in {"IO", "UI", "NONE"}
  BY PhaseNow
<1>1. CASE currentInstruction = INS_NONE
  BY <1>1, OpenCalls, BetweenCalls
<1>2. CASE currentInstruction = Sign!SIGN_TX
  <2>1. Sign!OneAnswerPerRequest /\ awaiting \in BOOLEAN
    BY <1>2, OpenCalls DEF SignCall, Sign!Inv, Sign!ControlInv, AppInv, ParsingInv
  <2> QED
    BY <2>1, SignPlatform DEF Sign!OneAnswerPerRequest
<1>3. CASE currentInstruction = Attest!ATTEST_UTXO
  BY <1>3, OpenCalls DEF AttestCall
<1>4. CASE currentInstruction \in Keys!Instructions
  <2>1. Keys!OneAnswerPerRequest /\ awaiting \in BOOLEAN
    BY <1>4, OpenCalls DEF KeysCall, Keys!Inv, Keys!ControlInv, AppInv, ParsingInv
  <2> QED
    BY <2>1, KeysPlatform DEF Keys!OneAnswerPerRequest
<1> QED
  BY <1>1, <1>2, <1>3, <1>4, OpenCalls

\* and the one of the next.
LEMMA PhaseNext ==
  /\ ~On' => Phase' = "down"
  /\ On' /\ Sending' => Phase' = "sending"
  /\ On' /\ ~Sending' /\ ioState' = "IO" => Phase' = "ready"
  /\ On' /\ ~Sending' /\ ioState' = "UI" => Phase' = "asking"
  /\ On' /\ ~Sending' /\ ioState' = "NONE" => Phase' = "working"
  BY PhaseIs DEF Phase, On, Sending

\* What is remembered of the questions.
LEMMA Remembered ==
  ASSUME Remember
  PROVE  /\ Phase' \in {"ready", "down"} => asked' = {}
         /\ Phase' = "asking" =>
              asked' = asked \cup {[kind |-> display'.kind, what |-> display'.what]}
         /\ Phase' \in {"sending", "working"} => asked' = asked
<1> DEFINE next == PhaseOf(crashed', reply', ioState')
<1>1. Phase' = next
  BY DEF Phase
<1>2. asked' = CASE next \in {"ready", "down"} -> {}
                 [] next = "asking" ->
                      asked \cup {[kind |-> display'.kind, what |-> display'.what]}
                 [] OTHER -> asked
  BY DEF Remember
<1> HIDE DEF next
<1>3. CASE next \in {"ready", "down"}
  BY <1>1, <1>2, <1>3
<1>4. CASE next = "asking"
  BY <1>1, <1>2, <1>4
<1>5. CASE next \in {"sending", "working"}
  BY <1>1, <1>2, <1>5
<1> QED
  BY <1>1, <1>3, <1>4, <1>5

\* What the abstract protocol sees of a state, besides phase and questions.
call == IF On THEN currentInstruction ELSE INS_NONE
answer == IF On THEN reply.code ELSE NoCode

\* A new question is one in the protocol.
LEMMA ShowAsks ==
  ASSUME On, ~Sending, Remember, NEW ins, NEW kind \in {"text", "prompt"}, NEW what,
         NEW callback, [kind |-> kind, what |-> what] \notin asked,
         Show(ins, Screen(kind, what, callback))
  PROVE  /\ Protocol!Ask /\ Phase' = "asking"
         /\ Question' = [kind |-> kind, what |-> what]
         /\ asked' = asked \cup {[kind |-> kind, what |-> what]}
         /\ call' = ins /\ locked' = locked /\ On'
<1>1. /\ display' = Screen(kind, what, callback) /\ ioState' = "UI"
      /\ currentInstruction' = ins /\ UNCHANGED <<crashed, reply, locked>>
  BY DEF Show
<1>2. On' /\ ~Sending'
  BY <1>1 DEF On, Sending
<1>3. Phase' = "asking"
  BY <1>1, <1>2, PhaseNext
<1>4. display'.kind = kind /\ display'.what = what
  BY <1>1 DEF Screen
<1>5. Question' = [kind |-> kind, what |-> what]
  BY <1>3, <1>4 DEF Question
<1>6. asked' = asked \cup {[kind |-> kind, what |-> what]}
  BY <1>3, <1>4, Remembered
<1>7. [kind |-> kind, what |-> what] # NoQuestion
  BY DEF NoQuestion
<1>8. reply'.code = NoCode
  BY <1>2 DEF Sending
<1>9. Protocol!Ask
  BY <1>2, <1>3, <1>5, <1>6, <1>7, <1>8 DEF Protocol!Ask, Protocol!NoAnswer, NoCode
<1> QED
  BY <1>1, <1>2, <1>3, <1>5, <1>6, <1>9 DEF call

\* An answer is one in the protocol.
LEMMA RespondAnswers ==
  ASSUME On, Remember, NEW ins, NEW code, NEW data, NEW then, code # NoCode,
         Respond(ins, code, data, then)
  PROVE  /\ Protocol!Answer /\ Phase' = "sending"
         /\ call' = ins /\ answer' = code /\ locked' = locked
<1>1. /\ reply' = [code |-> code, data |-> data, then |-> then]
      /\ currentInstruction' = ins /\ UNCHANGED <<crashed, locked>>
  BY DEF Respond
<1>2. On' /\ Sending' /\ reply'.code = code
  BY <1>1 DEF On, Sending
<1>3. Phase' = "sending"
  BY <1>2, PhaseNext
<1>4. asked' = asked
  BY <1>3, Remembered
<1>5. Question' = NoQuestion
  BY <1>3 DEF Question
<1>6. Protocol!Answer
  BY <1>2, <1>3, <1>4, <1>5 DEF Protocol!Answer, Protocol!NoAnswer, NoCode
<1> QED
  BY <1>1, <1>2, <1>3, <1>6 DEF call, answer

\* A device that stops fails in the protocol.
LEMMA StopFails ==
  ASSUME AppInv, On, Remember, Stops
  PROVE  Protocol!Fail /\ AskedInv'
<1>1. ~On' /\ locked' = locked
  BY DEF Stops, Crash, On
<1>2. Phase' = "down" /\ asked' = {}
  BY <1>1, PhaseNext, Remembered
<1>3. Phase # "down"
  BY PhaseKnown
<1>4. Question' = NoQuestion
  BY <1>2 DEF Question
<1>5. Protocol!Fail
  BY <1>1, <1>2, <1>3, <1>4
     DEF Protocol!Fail, Protocol!Forgotten, Protocol!NoAnswer, NoCode
<1> QED
  BY <1>2, <1>5 DEF AskedInv

\* Turns are numbers.
LEMMA Turns == \A head, step : TurnOf(head) \in Nat /\ TurnAt(step) \in Nat
  BY DEF TurnOf, TurnAt

-----------------------------------------------------------------------------
\* How the protocol lets a step go on with a call of ins.
Proceeds(ins) ==
  \/ (Protocol!Ask \/ Protocol!Answer) /\ call' = ins /\ locked' = locked
  \/ Protocol!Fail

\* A step of SignTx or of PublicKeys answers, or asks a question whose turn comes
\* after those of all questions before it.
LEMMA MovesProceed ==
  ASSUME AppInv, Remember, NEW ins, NEW step, NEW next, Moves(ins, step, next),
         On' => next = OpenStep',
         \A q \in asked : TurnOf(q.what.head) < TurnAt(step)
  PROVE  Proceeds(ins) /\ AskedInv'
<1>1. On /\ ~Sending
  BY DEF Moves
<1>2. CASE RespondsFor(ins)
  <2>1. PICK code \in {SUCCESS} \cup AutoRespond : \E data, then : Respond(ins, code, data, then)
    BY <1>2 DEF RespondsFor
  <2>2. PICK data, then : Respond(ins, code, data, then)
    BY <2>1
  <2>3. code # NoCode
    BY Codes
  <2>4. /\ Protocol!Answer /\ Phase' = "sending"
        /\ call' = ins /\ locked' = locked
    BY <1>1, <2>2, <2>3, RespondAnswers
  <2> QED
    BY <2>4 DEF Proceeds, AskedInv
<1>3. CASE AsksFor(ins, step, next)
  <2>1. PICK kind \in {"text", "prompt"} : \E what, callback :
          /\ Show(ins, Screen(kind, what, callback))
          /\ TurnAt(step) <= TurnOf(what.head)
          /\ TurnOf(what.head) < TurnAt(next)
    BY <1>3 DEF AsksFor
  <2>2. PICK what, callback :
          /\ Show(ins, Screen(kind, what, callback))
          /\ TurnAt(step) <= TurnOf(what.head)
          /\ TurnOf(what.head) < TurnAt(next)
    BY <2>1
  <2> DEFINE new == [kind |-> kind, what |-> what]
  <2>3. new.what.head = what.head
    OBVIOUS
  <2>4. /\ TurnAt(step) \in Nat /\ TurnAt(next) \in Nat
        /\ \A head : TurnOf(head) \in Nat
    BY Turns
  <2>5. new \notin asked
    BY <2>2, <2>3, <2>4
  <2>6. /\ Protocol!Ask /\ Phase' = "asking" /\ Question' = new /\ asked' = asked \cup {new}
        /\ call' = ins /\ locked' = locked /\ On'
    BY <1>1, <2>2, <2>5, ShowAsks
  <2>7. \A q \in asked' : TurnOf(q.what.head) < TurnAt(next)
    <3>1. \A q \in asked : TurnOf(q.what.head) < TurnAt(next)
      <4>1. ASSUME NEW q \in asked PROVE TurnOf(q.what.head) < TurnAt(next)
        <5>1. TurnOf(q.what.head) < TurnAt(step)
          BY <4>1
        <5> QED
          BY <2>2, <2>4, <5>1
      <4> QED
        BY <4>1
    <3>2. TurnOf(new.what.head) < TurnAt(next)
      BY <2>2, <2>3
    <3> QED
      BY <2>6, <3>1, <3>2
  <2>8. Question' \in asked'
    BY <2>6
  <2>9. AskedInv'
    BY <2>6, <2>7, <2>8 DEF AskedInv
  <2> QED
    BY <2>6, <2>9 DEF Proceeds
<1>4. CASE Stops
  BY <1>1, <1>4, StopFails DEF Proceeds
<1> QED
  BY <1>2, <1>3, <1>4 DEF Moves

\* A request that opens a call or belongs to the open one.
LEMMA RequestProceeds ==
  ASSUME AppInv, AskedInv, Remember, NEW ins, ins # INS_NONE, Accepts(ins),
         NEW step, NEW next, Moves(ins, step, next), On' => next = OpenStep'
  PROVE  Protocol!Next /\ AskedInv'
<1>1. /\ On /\ ~Sending /\ ioState = "IO" /\ ~locked
      /\ currentInstruction \in {INS_NONE, ins}
  BY DEF Accepts
<1>2. Phase = "ready" /\ asked = {}
  BY <1>1, PhaseNow DEF AskedInv
<1>3. Proceeds(ins) /\ AskedInv'
  BY <1>2, MovesProceed
<1>4. call \in {INS_NONE, ins}
  BY <1>1 DEF call
<1>5. CASE (Protocol!Ask \/ Protocol!Answer) /\ call' = ins /\ locked' = locked
  <2>1. Protocol!Request
    BY <1>1, <1>2, <1>4, <1>5 DEF Protocol!Request, call
  <2> QED
    BY <1>3, <2>1 DEF Protocol!Next
<1> QED
  BY <1>3, <1>5 DEF Proceeds, Protocol!Next

\* No instruction's name is that of no call, and no two are the same.
LEMMA Names ==
  /\ Sign!SIGN_TX \notin {INS_NONE, Attest!ATTEST_UTXO} \cup Keys!Instructions
  /\ Attest!ATTEST_UTXO \notin {INS_NONE} \cup Keys!Instructions
  /\ INS_NONE \notin Keys!Instructions
  BY DEF INS_NONE, Sign!SIGN_TX, Attest!ATTEST_UTXO, Keys!Instructions,
         Keys!GET_VERSION, Keys!GET_EXT_PUB_KEY, Keys!DERIVE_ADDRESS

\* Each step is a step of the protocol, or none, and the history stays true.
FollowsStep == [Protocol!Next]_(Protocol!vars)
Follows == FollowsStep /\ AskedInv'

\* Requests to SignTx,
LEMMA SignRequestFollows ==
  ASSUME AppInv, AskedInv, Remember, SignRequest
  PROVE  Follows
<1>1. PICK step : Moves(Sign!SIGN_TX, step, signCtx'.uiStep)
  BY SignRequestStep
<1>2. On' => signCtx'.uiStep = OpenStep'
  <2>1. On' => currentInstruction' = Sign!SIGN_TX
    BY <1>1, Moved DEF AppInv
  <2> QED
    BY <2>1 DEF OpenStep
<1>3. Protocol!Next /\ AskedInv'
  BY <1>1, <1>2, SignRequestStep, RequestProceeds, Names
<1> QED
  BY <1>3 DEF Follows, FollowsStep

\* to PublicKeys,
LEMMA ExportRequestFollows ==
  ASSUME AppInv, AskedInv, Remember, ExportRequest
  PROVE  Follows
<1>1. PICK ins \in Keys!Instructions : \E step :
        Accepts(ins) /\ Moves(ins, step, keysCtx'.uiStep)
  BY ExportRequestStep
<1>2. PICK step : Accepts(ins) /\ Moves(ins, step, keysCtx'.uiStep)
  BY <1>1
<1>3. On' => keysCtx'.uiStep = OpenStep'
  <2>1. On' => currentInstruction' = ins
    BY <1>2, Moved DEF AppInv
  <2>2. ins # Sign!SIGN_TX
    BY Names
  <2> QED
    BY <2>1, <2>2 DEF OpenStep
<1>4. Protocol!Next /\ AskedInv'
  BY <1>2, <1>3, RequestProceeds, Names
<1> QED
  BY <1>4 DEF Follows, FollowsStep

\* A step of AttestUtxo works on or answers.
LEMMA AttestProceeds ==
  ASSUME AppInv, Remember, AttestMoves
  PROVE  /\ Protocol!Work \/ Protocol!Answer
         /\ call' = Attest!ATTEST_UTXO /\ locked' = locked /\ AskedInv'
<1>1. On /\ ~Sending
  BY DEF AttestMoves
<1>2. CASE AttestReplies
  <2>1. PICK code \in {SUCCESS} \cup AutoRespond : \E data, then :
          Respond(Attest!ATTEST_UTXO, code, data, then)
    BY <1>2 DEF AttestReplies
  <2>2. PICK data, then : Respond(Attest!ATTEST_UTXO, code, data, then)
    BY <2>1
  <2>3. code # NoCode
    BY Codes
  <2>4. /\ Protocol!Answer /\ Phase' = "sending"
        /\ call' = Attest!ATTEST_UTXO /\ locked' = locked
    BY <1>1, <2>2, <2>3, RespondAnswers
  <2> QED
    BY <2>4 DEF AskedInv
<1>3. CASE AttestWorks
  <2>1. /\ ioState' = "NONE" /\ currentInstruction' = Attest!ATTEST_UTXO
        /\ UNCHANGED <<crashed, reply, locked>>
    BY <1>3 DEF AttestWorks
  <2>2. On' /\ ~Sending'
    BY <1>1, <2>1 DEF On, Sending
  <2>3. Phase' = "working" /\ asked' = asked
    BY <2>1, <2>2, PhaseNext, Remembered
  <2>4. Question' = NoQuestion
    BY <2>3 DEF Question
  <2>5. reply'.code = NoCode
    BY <2>2 DEF Sending
  <2>6. Protocol!Work
    BY <2>2, <2>3, <2>4, <2>5 DEF Protocol!Work, Protocol!NoAnswer, NoCode
  <2> QED
    BY <2>1, <2>2, <2>3, <2>6 DEF AskedInv, call
<1> QED
  BY <1>2, <1>3 DEF AttestMoves

\* and to AttestUtxo,
LEMMA AttestRequestFollows ==
  ASSUME AppInv, AskedInv, Remember, AttestRequest
  PROVE  Follows
<1>1. AttestMoves /\ Accepts(Attest!ATTEST_UTXO)
  BY AttestRequestStep
<1>2. /\ Protocol!Work \/ Protocol!Answer
      /\ call' = Attest!ATTEST_UTXO /\ locked' = locked /\ AskedInv'
  BY <1>1, AttestProceeds
<1>3. /\ On /\ ~Sending /\ ioState = "IO" /\ ~locked
      /\ currentInstruction \in {INS_NONE, Attest!ATTEST_UTXO}
  BY <1>1 DEF Accepts
<1>4. Phase = "ready"
  BY <1>3, PhaseNow
<1>5. call \in {INS_NONE, Attest!ATTEST_UTXO} /\ Attest!ATTEST_UTXO # INS_NONE
  BY <1>3, Names DEF call
<1>6. Protocol!Request
  BY <1>2, <1>3, <1>4, <1>5 DEF Protocol!Request, call
<1> QED
  BY <1>2, <1>6 DEF Follows, FollowsStep, Protocol!Next

\* whose parser goes on with the request.
LEMMA ParsingFollows ==
  ASSUME AppInv, AskedInv, Remember, ParseOn \/ FinishParsing
  PROVE  Follows
<1>1. AttestMoves
  BY ParseOnStep, FinishParsingStep
<1>2. /\ Protocol!Work \/ Protocol!Answer
      /\ call' = Attest!ATTEST_UTXO /\ locked' = locked /\ AskedInv'
  BY <1>1, AttestProceeds
<1>3. parsing
  BY DEF ParseOn, FinishParsing, Attest!KeepParsing, Attest!Finish
<1>4. On /\ ~Sending /\ ioState = "NONE" /\ currentInstruction = Attest!ATTEST_UTXO
  BY <1>3, InTheLoop
<1>5. Phase = "working" /\ call = Attest!ATTEST_UTXO
  BY <1>4, PhaseNow DEF call
<1>6. Protocol!GoOn
  BY <1>2, <1>5 DEF Protocol!GoOn, call
<1> QED
  BY <1>2, <1>6 DEF Follows, FollowsStep, Protocol!Next

\* The user agrees.
LEMMA ButtonFollows ==
  ASSUME AppInv, AskedInv, Remember, UserConfirms
  PROVE  Follows
<1>1. ~locked /\ On /\ Phase = "asking"
  BY ButtonStep, PhaseNow DEF Asking
<1>2. \A q \in asked : TurnOf(q.what.head) < TurnAt(OpenStep)
  BY <1>1 DEF AskedInv
<1>3. Proceeds(currentInstruction) /\ AskedInv'
  <2>1. CASE /\ currentInstruction = Sign!SIGN_TX
             /\ Moves(Sign!SIGN_TX, signCtx.uiStep, signCtx'.uiStep)
    <3>1. On' => currentInstruction' = Sign!SIGN_TX
      BY <2>1, Moved DEF AppInv
    <3>2. OpenStep = signCtx.uiStep /\ (On' => signCtx'.uiStep = OpenStep')
      BY <2>1, <3>1 DEF OpenStep
    <3> QED
      BY <1>2, <2>1, <3>2, MovesProceed
  <2>2. CASE /\ currentInstruction \in Keys!Instructions
             /\ Moves(currentInstruction, keysCtx.uiStep, keysCtx'.uiStep)
    <3>1. On' => currentInstruction' = currentInstruction
      BY <2>2, Moved DEF AppInv
    <3>2. currentInstruction # Sign!SIGN_TX
      BY <2>2, Names
    <3>3. OpenStep = keysCtx.uiStep /\ (On' => keysCtx'.uiStep = OpenStep')
      BY <3>1, <3>2 DEF OpenStep
    <3> QED
      BY <1>2, <2>2, <3>3, MovesProceed
  <2> QED
    BY <2>1, <2>2, ButtonStep
<1>4. call = currentInstruction
  BY <1>1 DEF call
<1>5. Protocol!Agree \/ Protocol!Fail
  BY <1>1, <1>3, <1>4 DEF Proceeds, Protocol!Agree, call
<1> QED
  BY <1>3, <1>5 DEF Follows, FollowsStep, Protocol!Next

\* The user rejects.
LEMMA RejectFollows ==
  ASSUME AppInv, AskedInv, Remember, UserRejectsPrompt
  PROVE  Follows
<1>1. AwaitsButton({"prompt"}) /\ UserRejects
  BY DEF UserRejectsPrompt, UserRejects
<1>2. On /\ ~locked /\ ~Sending /\ ioState = "UI" /\ display.kind = "prompt"
  BY <1>1, WhoseButton DEF AwaitsButton
<1>3. Respond(currentInstruction, ERR_REJECTED_BY_USER, NoData, "idle")
  BY <1>1, <1>2 DEF UserRejects, RejectThen, ButtonAsserts
<1>4. ERR_REJECTED_BY_USER # NoCode
  BY DEF ERR_REJECTED_BY_USER, NoCode
<1>5. /\ Protocol!Answer /\ Phase' = "sending"
      /\ call' = currentInstruction /\ answer' = ERR_REJECTED_BY_USER /\ locked' = locked
  BY <1>2, <1>3, <1>4, RespondAnswers
<1>6. Phase = "asking"
  BY <1>2, PhaseNow
<1>7. Question.kind = "prompt"
  BY <1>2, <1>6 DEF Question
<1>8. Protocol!Reject
  BY <1>2, <1>5, <1>6, <1>7 DEF Protocol!Reject, call, answer
<1>9. AskedInv'
  BY <1>5 DEF AskedInv
<1> QED
  BY <1>8, <1>9 DEF Follows, FollowsStep, Protocol!Next

-----------------------------------------------------------------------------
\* An answer that is an error ends its call, whichever instruction put it together.
LEMMA ErrorsEnd ==
  ASSUME AppInv, On, Sending, reply.code # SUCCESS
  PROVE  reply.then = "idle"
<1>1. CASE currentInstruction = INS_NONE
  BY <1>1, OpenCalls, BetweenCalls
<1>2. CASE currentInstruction = Sign!SIGN_TX
  <2>1. Sign!ReplyInv
    BY <1>2, OpenCalls DEF SignCall, Sign!Inv
  <2> QED
    BY <2>1, SignPlatform DEF Sign!ReplyInv
<1>3. CASE currentInstruction = Attest!ATTEST_UTXO
  BY <1>3, OpenCalls DEF AttestCall
<1>4. CASE currentInstruction \in Keys!Instructions
  <2>1. Keys!ReplyInv
    BY <1>4, OpenCalls DEF KeysCall, Keys!Inv
  <2> QED
    BY <2>1, KeysPlatform DEF Keys!ReplyInv
<1> QED
  BY <1>1, <1>2, <1>3, <1>4, OpenCalls

\* What is done after a transmission is what the answer was put together with, but
\* for that of a witness.
LEMMA SendDoneIs ==
  ASSUME SendDone
  PROVE  \E then : Transmitted(then) /\ (reply.then = "idle" => then = "idle")
<1>1. CASE Sign!SendDone
  <2>1. Sign!Transmitted(IF reply.then # "witness" THEN reply.then
                         ELSE IF Sign!LastWitness(signCtx) THEN "idle" ELSE "busy")
    BY <1>1 DEF Sign!SendDone
  <2>2. Transmitted(IF reply.then # "witness" THEN reply.then
                    ELSE IF Sign!LastWitness(signCtx) THEN "idle" ELSE "busy")
    BY <2>1, SignActions
  <2> QED
    BY <2>2
<1>2. CASE Attest!SendDone \/ Keys!SendDone
  BY <1>2, AttestActions, KeysActions DEF Attest!SendDone, Keys!SendDone
<1> QED
  BY <1>1, <1>2 DEF SendDone

\* The answer is delivered.
LEMMA SendDoneFollows ==
  ASSUME AppInv, AskedInv, Remember, SendDone
  PROVE  Follows
<1>1. PICK then : Transmitted(then) /\ (reply.then = "idle" => then = "idle")
  BY SendDoneIs
<1>2. /\ On /\ On' /\ Sending /\ ~Sending' /\ reply' = NoReply /\ ioState' = "IO"
      /\ locked' = locked
      /\ then = "idle" => currentInstruction' = INS_NONE
      /\ then # "idle" => currentInstruction' = currentInstruction
  BY <1>1, TransmittedIs
<1>3. Phase = "sending" /\ Phase' = "ready" /\ asked' = {}
  BY <1>2, PhaseNow, PhaseNext, Remembered
<1>4. reply'.code = NoCode
  BY <1>2 DEF NoReply
<1>5. answer = reply.code /\ call = currentInstruction /\ call' = currentInstruction'
  BY <1>2 DEF answer, call
<1>6. call' \in IF answer = SUCCESS THEN {call, INS_NONE} ELSE {INS_NONE}
  BY <1>1, <1>2, <1>5, ErrorsEnd
<1>7. Question = NoQuestion /\ Question' = NoQuestion
  BY <1>3 DEF Question
<1>8. Protocol!Deliver
  BY <1>2, <1>3, <1>4, <1>6, <1>7
     DEF Protocol!Deliver, Protocol!NoAnswer, NoCode, answer, call
<1> QED
  BY <1>3, <1>8 DEF Follows, FollowsStep, Protocol!Next, AskedInv

\* A step that leaves all but the lock alone leaves the history alone.
LEMMA HistoryStays ==
  ASSUME AppInv, AskedInv, Remember, On,
         UNCHANGED <<crashed, reply, ioState, display, currentInstruction>>,
         UNCHANGED <<signVars, keysVars>>
  PROVE  /\ Phase' = Phase /\ asked' = asked /\ Question' = Question /\ AskedInv'
         /\ call' = call /\ answer' = answer
<1>1. Phase' = Phase
  BY DEF Phase
<1>2. Question' = Question
  BY <1>1 DEF Question
<1>3. Phase \in {"sending", "ready", "asking", "working"}
  BY PhaseKnown
<1>4. asked' = asked
  <2>1. CASE Phase = "asking"
    <3>1. Question \in asked /\ Question = [kind |-> display.kind, what |-> display.what]
      BY <2>1 DEF AskedInv, Question
    <3> QED
      BY <1>1, <2>1, <3>1, Remembered
  <2>2. CASE Phase # "asking"
    BY <1>1, <1>3, <2>2, Remembered DEF AskedInv
  <2> QED
    BY <2>1, <2>2
<1>5. OpenStep' = OpenStep
  BY DEF OpenStep, signVars, keysVars
<1>6. AskedInv'
  BY <1>1, <1>2, <1>4, <1>5 DEF AskedInv
<1> QED
  BY <1>1, <1>2, <1>4, <1>6 DEF call, answer, On

\* What the platform does on its own.
LEMMA OutsideFollows ==
  ASSUME AppInv, AskedInv, Remember, PlatformStep \/ Unlock
  PROVE  Follows
<1>1. UNCHANGED <<signVars, keysVars>>
  BY DEF PlatformStep, Unlock
<1>2. CASE LockDevice \/ UnlockDevice
  <2>1. /\ On /\ locked' # locked
        /\ UNCHANGED <<crashed, reply, ioState, display, currentInstruction>>
    BY <1>2 DEF LockDevice, UnlockDevice
  <2>2. /\ Phase' = Phase /\ asked' = asked /\ Question' = Question /\ AskedInv'
        /\ call' = call /\ answer' = answer
    BY <1>1, <2>1, HistoryStays
  <2>3. Phase # "down"
    BY <2>1, PhaseKnown
  <2>4. Protocol!LockOrUnlock
    BY <2>1, <2>2, <2>3 DEF Protocol!LockOrUnlock, call, answer
  <2> QED
    BY <2>2, <2>4 DEF Follows, FollowsStep, Protocol!Next
<1>3. CASE RejectApdu
  <2>1. PICK e \in MainLoopErrors : Respond(currentInstruction, e, NoData, "idle")
    BY <1>3 DEF RejectApdu
  <2>2. On /\ ~Sending /\ ioState = "IO"
    BY <1>3 DEF RejectApdu
  <2>3. e # NoCode /\ e # SUCCESS /\ (locked => e = ERR_DEVICE_LOCKED)
    BY DEF MainLoopErrors, NoCode, SUCCESS, ERR_DEVICE_LOCKED, ERR_MALFORMED_REQUEST_HEADER,
           ERR_BAD_CLA, ERR_UNKNOWN_INS, ERR_STILL_IN_CALL
  <2>4. /\ Protocol!Answer /\ Phase' = "sending" /\ call' = currentInstruction
        /\ answer' = e /\ locked' = locked
    BY <2>1, <2>2, <2>3, RespondAnswers
  <2>5. Phase = "ready" /\ call = currentInstruction
    BY <2>2, PhaseNow DEF call
  <2>6. Protocol!Request
    BY <2>3, <2>4, <2>5 DEF Protocol!Request, call, answer
  <2> QED
    BY <2>4, <2>6 DEF Follows, FollowsStep, Protocol!Next, AskedInv
<1>4. CASE ApduDuringUi
  <2>1. On /\ Stops
    BY <1>4 DEF ApduDuringUi, Stops, ASSERT_IO_STATE, NotCrashed
  <2> QED
    BY <2>1, StopFails DEF Follows, FollowsStep, Protocol!Next
<1> QED
  BY <1>2, <1>3, <1>4 DEF PlatformStep, Unlock

\* main starts over.
LEMMA StartOverFollows ==
  ASSUME AppInv, Remember, StartOver
  PROVE  Follows
<1>1. Boot
  BY DEF StartOver, IoReset, Restart
<1>2. /\ crashed' = NotCrashed /\ ioState' = "IO" /\ currentInstruction' = INS_NONE
      /\ reply' = NoReply
  BY <1>1 DEF Boot
<1>3. On' /\ ~Sending' /\ reply'.code = NoCode
  BY <1>2 DEF On, Sending, NoReply
<1>4. Phase' = "ready" /\ asked' = {}
  BY <1>2, <1>3, PhaseNext, Remembered
<1>5. Question' = NoQuestion
  BY <1>4 DEF Question
<1>6. Protocol!Forgotten
  BY <1>2, <1>3, <1>4, <1>5 DEF Protocol!Forgotten, Protocol!NoAnswer, NoCode
<1>7. AskedInv'
  BY <1>4 DEF AskedInv
<1>8. CASE IoReset
  <2>1. On /\ locked' = locked
    BY <1>8 DEF IoReset
  <2>2. Phase # "down"
    BY <2>1, PhaseKnown
  <2> QED
    BY <1>4, <1>6, <1>7, <2>1, <2>2 DEF Protocol!Reset, Protocol!Next, FollowsStep, Follows
<1>9. CASE Restart
  <2>1. ~On /\ ~locked'
    BY <1>9 DEF Restart
  <2>2. Phase = "down"
    BY <2>1, PhaseNow
  <2> QED
    BY <1>4, <1>6, <1>7, <2>1, <2>2 DEF Protocol!Restart, Protocol!Next, FollowsStep, Follows
<1> QED
  BY <1>8, <1>9 DEF StartOver

\* The first state is one of the protocol.
LEMMA InitFollows == Init => Protocol!Init /\ AskedInv
<1> SUFFICES ASSUME Init PROVE Protocol!Init /\ AskedInv
  OBVIOUS
<1>1. /\ crashed = NotCrashed /\ ioState = "IO" /\ currentInstruction = INS_NONE
      /\ reply = NoReply /\ ~locked /\ asked = {}
  BY DEF Init, PlatformInit
<1>2. On /\ ~Sending /\ reply.code = NoCode
  BY <1>1 DEF On, Sending, NoReply
<1>3. Phase = "ready"
  BY <1>1, <1>2, PhaseNow
<1>4. Question = NoQuestion
  BY <1>3 DEF Question
<1>5. Protocol!Init
  BY <1>1, <1>2, <1>3, <1>4 DEF Protocol!Init, Protocol!NoAnswer, NoCode
<1> QED
  BY <1>1, <1>3, <1>5 DEF AskedInv

\* Every step follows the protocol.
LEMMA NextFollows == AppInv /\ AskedInv /\ [Next]_vars => FollowsStep /\ AskedInv'
<1> SUFFICES ASSUME AppInv, AskedInv, [Next]_vars PROVE FollowsStep /\ AskedInv'
  OBVIOUS
<1>1. CASE Next
  <2>1. Follows
    BY <1>1, SignRequestFollows, AttestRequestFollows, ExportRequestFollows, ParsingFollows,
       ButtonFollows, RejectFollows, SendDoneFollows, OutsideFollows, StartOverFollows
       DEF Next, Step
  <2> QED
    BY <2>1 DEF Follows
<1>2. CASE UNCHANGED vars
  <2>1. /\ UNCHANGED <<crashed, reply, ioState, display, currentInstruction, locked, asked>>
        /\ UNCHANGED <<signVars, keysVars>>
    BY <1>2 DEF vars, platformVars
  <2>2. Phase' = Phase /\ OpenStep' = OpenStep
    BY <2>1 DEF Phase, OpenStep, signVars, keysVars
  <2>3. Question' = Question
    BY <2>1, <2>2 DEF Question
  <2>4. UNCHANGED Protocol!vars
    BY <2>1, <2>2, <2>3 DEF Protocol!vars, On
  <2>5. AskedInv'
    BY <2>1, <2>2, <2>3 DEF AskedInv
  <2> QED
    BY <2>4, <2>5 DEF FollowsStep
<1> QED
  BY <1>1, <1>2

\* Whatever the host calls and the user presses, the application is one device of
\* CallProtocol: no instruction's question or answer turns up in another's call, no
\* question is asked twice for one request, every question is moved away by the
\* user alone, and an error ends the call (handlers.c, main.c, uiHelpers.c).
THEOREM KeepsProtocol == Spec => FollowsProtocol
<1>1. Init => AppInv /\ AskedInv /\ Protocol!Init
  BY InitAppInv, InitFollows
<1>2. AppInv /\ AskedInv /\ [Next]_vars => AppInv' /\ AskedInv' /\ FollowsStep
  BY NextAppInv, NextFollows
<1>3. AppInv /\ AskedInv /\ [Next]_vars => [Protocol!Next]_(Protocol!vars)
  BY <1>2 DEF FollowsStep
<1> QED
  BY <1>1, <1>2, <1>3, PTL DEF Spec, FollowsProtocol, Protocol!Spec
=============================================================================
