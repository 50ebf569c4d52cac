------------------------------- MODULE Client -------------------------------
(***************************************************************************)
(* The et command (cmd/et): what one invocation acquires on its way to a   *)
(* session, how it gives everything back however it ends, and the status   *)
(* it exits with.  Bootstrap and Session are the two long calls of         *)
(* connect: their steps are taken while it is in them.  The dial is in     *)
(* module Connect; here it ends one way or the other.                      *)
(*                                                                         *)
(* Session's "cause" is connect's context, which Run's derives from, its   *)
(* "strands" says that the platform is Windows, and its "console" is the   *)
(* console's handle; "mode" (Bootstrap) is the terminal's mode.            *)
(***************************************************************************)
EXTENDS Session, Bootstrap, Integers

CONSTANT CodeOf   \* the number each exit status stands for

(* An exit status is none of the errors connect returns. *)
ASSUME CodeAssumption ==
  /\ CodeOf \in [Codes -> Int]
  /\ Codes \cap {"console", "bootstrap", "dial", "start", "raw", "panic"} = {}

VARIABLES
  phase,    \* where connect is
  defers,   \* the deferred calls registered, innermost first
  onbreak,  \* a Ctrl+Break handler is registered
  conn,     \* "none", "open", "closed"
  err,      \* what connect returns
  modeErr,  \* setting the mode Open found has failed
  status    \* the process exit status, or -1

own == <<phase, defers, onbreak, conn, err, modeErr, status>>
clientVars == <<vars, bootVars, own>>

windows == strands

ClientInit ==
  /\ Init /\ term /\ BootInit
  /\ phase = "args" /\ defers = <<>> /\ onbreak = FALSE /\ conn = "none"
  /\ err = "none" /\ modeErr = FALSE /\ status = -1
-----------------------------------------------------------------------------
Defers(d) == defers' = <<d>> \o defers

(* connect returns e: its deferred calls run. *)
Returns(e) == err' = e /\ phase' = "unwind"

Exits(code) == status' = code /\ phase' = "exited"

(* parseArgs: help or a version ends here, and so does a bad command line. *)
Arguments ==
  /\ phase = "args"
  /\ \/ \E code \in {0, 2} : Exits(code)
     \/ phase' = "log" /\ UNCHANGED status
  /\ UNCHANGED <<vars, bootVars, defers, onbreak, conn, err, modeErr>>

(* newLogger: a log file that cannot be found or opened ends here. *)
OpensLog ==
  /\ phase = "log"
  /\ \/ Exits(255) /\ UNCHANGED defers
     \/ phase' = "open" /\ Defers("log") /\ UNCHANGED status
  /\ UNCHANGED <<vars, bootVars, onbreak, conn, err, modeErr>>

Opens ==
  /\ phase = "open"
  /\ \/ phase' = "boot" /\ Defers("console") /\ UNCHANGED err
     \/ Returns("console") /\ UNCHANGED defers
  /\ UNCHANGED <<vars, bootVars, onbreak, conn, modeErr, status>>

InBoot(A) == phase = "boot" /\ A /\ UNCHANGED <<vars, own>>

Boots ==
  \/ InBoot(BootRefuses(Done)) \/ InBoot(BootStarts(Done)) \/ InBoot(Ssh)
  \/ InBoot(BootInterrupts(Done, windows)) \/ InBoot(BootKills) \/ InBoot(BootJoins)
  \/ InBoot(BootReturns(Done))

Booted ==
  /\ phase = "boot" /\ boot \in {"credentials", "cancelled", "failed"}
  /\ IF boot = "credentials" THEN phase' = "resolve" /\ UNCHANGED err
     ELSE Returns(IF boot = "cancelled" THEN cause ELSE "bootstrap")
  /\ UNCHANGED <<vars, bootVars, defers, onbreak, conn, modeErr, status>>

(* resolveHost: "ssh -G" answers, or fails, or resolveTimeout or ctx ends   *)
(* it; the name as typed serves then, and connect goes on.                 *)
Resolves ==
  /\ phase = "resolve" /\ phase' = "dial"
  /\ UNCHANGED <<vars, bootVars, defers, onbreak, conn, err, modeErr, status>>

Dials ==
  /\ phase = "dial"
  /\ \/ phase' = "start" /\ conn' = "open" /\ Defers("conn") /\ UNCHANGED err
     \/ Returns("dial") /\ UNCHANGED <<defers, conn>>
  /\ UNCHANGED <<vars, bootVars, onbreak, modeErr, status>>

(* session.Start: the payload cannot be sent, the response does not come   *)
(* in time, is not an INITIAL_RESPONSE, or rejects the session.            *)
Starts ==
  /\ phase = "start"
  /\ \/ phase' = "onbreak" /\ UNCHANGED err
     \/ Returns("start")
  /\ UNCHANGED <<vars, bootVars, defers, onbreak, conn, modeErr, status>>

RegistersBreak ==
  /\ phase = "onbreak" /\ phase' = "raw"
  /\ onbreak' = TRUE /\ Defers("onbreak")
  /\ UNCHANGED <<vars, bootVars, conn, err, modeErr, status>>

(* A MakeRaw that fails may have changed a mode and not undone it. *)
MakesRaw ==
  /\ phase = "raw"
  /\ \/ mode' = "raw" /\ phase' = "run" /\ Defers("restore") /\ UNCHANGED err
     \/ mode' \in {mode, "raw"} /\ Returns("raw") /\ UNCHANGED defers
  /\ UNCHANGED <<vars, boot, process, captured, quoted, onbreak, conn, modeErr, status>>
-----------------------------------------------------------------------------
(* restoreLocked: the mode Open found is set, or an error is met. *)
ModeSet ==
  /\ mode' \in {"base", mode} /\ modeErr' = (modeErr \/ mode' # "base")
  /\ UNCHANGED <<boot, process, captured, quoted>>

(***************************************************************************)
(* session.Run.  It closes the console itself: runStarted.                 *)
(***************************************************************************)
InRun(A) == phase = "run" /\ A /\ UNCHANGED <<bootVars, own>>

RunStartsToStop == InRun(RunStartsClose)

RunStops ==
  /\ phase = "run" /\ RunCloses
  /\ console' = "closed" => mode' = "base"
  /\ ModeSet
  /\ UNCHANGED <<phase, defers, onbreak, conn, err, status>>

Services ==
  \/ InRun(Router) \/ InRun(Output) \/ InRun(RunJoins) \/ InRun(RunReturns)
  \/ InRun(ReaderDetaches) \/ InRun(ReaderFails) \/ InRun(ReaderUnblocked)
  \/ InRun(SenderFails) \/ InRun(SenderStops) \/ InRun(ResizerStops)

(* What Run's goroutines leave behind is not looked at again. *)
RunForgets ==
  /\ router' = "done" /\ arrived' = 0 /\ routed' = 0 /\ held' = <<>>
  /\ ch' = <<>> /\ drained' = TRUE
  /\ output' = "done" /\ item' = <<>> /\ written' = <<>> /\ garbled' = FALSE
  /\ reader' = "done" /\ sender' = "done" /\ resizer' = "done"
  /\ UNCHANGED <<fixed, cause, exit, closed, console, run, bootVars, defers, onbreak, conn,
                 modeErr, status>>

Ran == phase = "run" /\ run = "returned" /\ Returns(cause) /\ RunForgets

(* A panic in connect's goroutine, inside Run but not in the console's Close. *)
Panics == phase = "run" /\ run \notin {"close", "returned"} /\ Returns("panic") /\ RunForgets
-----------------------------------------------------------------------------
(***************************************************************************)
(* The deferred calls, the last registered first.                          *)
(***************************************************************************)
Deferred(d) ==
  /\ phase = "unwind" /\ defers # <<>> /\ Head(defers) = d /\ defers' = Tail(defers)
  /\ UNCHANGED <<phase, err, status>>

(* Only while the console is open: Close has restored the mode itself. *)
Restores ==
  /\ Deferred("restore")
  /\ IF console = "open" THEN ModeSet ELSE UNCHANGED <<bootVars, modeErr>>
  /\ UNCHANGED <<vars, onbreak, conn>>

ForgetsBreak ==
  /\ Deferred("onbreak") /\ onbreak' = FALSE
  /\ UNCHANGED <<vars, bootVars, modeErr, conn>>

ClosesConn ==
  /\ Deferred("conn") /\ conn' = "closed"
  /\ UNCHANGED <<vars, bootVars, modeErr, onbreak>>

RunStarted == run = "returned" \/ err = "panic"

(* Faulty: the console is left to Run even if Run was never called. *)
LeavesConsole ==
  /\ Deferred("console")
  /\ UNCHANGED <<vars, bootVars, modeErr, onbreak, conn>>

ClosesConsole ==
  /\ Deferred("console")
  /\ IF RunStarted THEN UNCHANGED <<console, bootVars, modeErr>>
     ELSE /\ ModeSet
          /\ console' \in IF mode' = "base" THEN {"closed", "failed"} ELSE {"failed"}
  /\ UNCHANGED <<fixed, cause, routing, queue, writing, others, run, onbreak, conn>>

ClosesLog ==
  /\ Deferred("log") /\ status # -1
  /\ UNCHANGED <<vars, bootVars, modeErr, onbreak, conn>>

Byte(n) == n % 256    \* what os.Exit leaves of a status on Unix

(* Faulty: any status goes to os.Exit. *)
exitCodeAny(e) ==
  CASE e = "ended" \/ e = "detached" -> 0
    [] e \in Codes -> CodeOf[e]
    [] OTHER -> 255

(* nil, an ExitError, ErrDetached, any other error *)
exitCode(e) ==
  CASE e = "ended" \/ e = "detached" -> 0
    [] e \in Codes -> IF CodeOf[e] \in 0 .. 255 THEN CodeOf[e] ELSE 255
    [] OTHER -> 255

(* connect has returned and its caller prints and picks the status. *)
PicksStatus ==
  /\ phase = "unwind" /\ status = -1 /\ defers \in {<<>>, <<"log">>} /\ err # "panic"
  /\ status' = Byte(exitCode(err))
  /\ UNCHANGED <<vars, bootVars, phase, defers, onbreak, conn, err, modeErr>>

(* A panic runs every deferred call and ends the process with status 2. *)
Dies ==
  /\ phase = "unwind" /\ status = -1 /\ defers \in {<<>>, <<"log">>} /\ err = "panic"
  /\ status' = 2
  /\ UNCHANGED <<vars, bootVars, phase, defers, onbreak, conn, err, modeErr>>

Ends ==
  /\ phase = "unwind" /\ defers = <<>> /\ status # -1 /\ phase' = "exited"
  /\ UNCHANGED <<vars, bootVars, defers, onbreak, conn, err, modeErr, status>>

Unwinds ==
  \/ Restores \/ ForgetsBreak \/ ClosesConn \/ ClosesConsole \/ ClosesLog
  \/ PicksStatus \/ Dies \/ Ends
-----------------------------------------------------------------------------
(***************************************************************************)
(* Signals.  Ctrl+Break is one until connect registers its handler, and    *)
(* again once that is gone.                                                *)
(***************************************************************************)
Cancels(c) ==
  /\ phase # "exited" /\ ~Done /\ Cancel(c)
  /\ UNCHANGED <<fixed, routing, queue, writing, others, console, run, bootVars, own>>

Signalled == Cancels("signal")

(* ctrlHandler *)
CtrlBreak == windows /\ Cancels(IF onbreak THEN "detached" ELSE "signal")

Exited == phase = "exited" /\ UNCHANGED clientVars

ClientNext ==
  \/ Arguments \/ OpensLog \/ Opens \/ Boots \/ Booted \/ Resolves \/ Dials \/ Starts
  \/ RegistersBreak \/ MakesRaw
  \/ Services \/ RunStartsToStop \/ RunStops \/ Ran \/ Panics \/ Unwinds
  \/ Signalled \/ CtrlBreak \/ Exited

(***************************************************************************)
(* Fairness: connect and the goroutines of Run go on where they can, and   *)
(* a call given a context that is done returns.  Nothing is assumed of     *)
(* ssh, of the user or of the server: ssh is killed after waitDelay, and   *)
(* it is only its own exit that is not awaited any longer; nor of a Write  *)
(* that Close waits for on Windows.                                        *)
(***************************************************************************)
ConnectRuns ==
  /\ WF_clientVars(Arguments \/ OpensLog) /\ WF_clientVars(Opens) /\ WF_clientVars(Booted)
  /\ WF_clientVars(Resolves \/ Dials) /\ WF_clientVars(Starts) /\ WF_clientVars(RegistersBreak)
  /\ WF_clientVars(MakesRaw) /\ WF_clientVars(Ran) /\ WF_clientVars(Unwinds)

BootRuns ==
  /\ WF_clientVars(InBoot(BootRefuses(Done) \/ BootStarts(Done)))
  /\ WF_clientVars(InBoot(BootInterrupts(Done, windows))) /\ WF_clientVars(InBoot(BootKills))
  /\ WF_clientVars(InBoot(BootJoins)) /\ WF_clientVars(InBoot(BootReturns(Done)))

RunRuns ==
  /\ WF_clientVars(InRun(RouterQueues)) /\ WF_clientVars(InRun(RouterDrained))
  /\ WF_clientVars(InRun(RouterStops))
  /\ WF_clientVars(InRun(OutputTakes \/ OutputEnds)) /\ WF_clientVars(InRun(OutputCancels))
  /\ WF_clientVars(WriteOver /\ InRun(OutputFails))
  /\ WF_clientVars(console # "closing" /\ InRun(ReaderUnblocked))
  /\ WF_clientVars(RunStartsToStop) /\ WF_clientVars(InRun(SenderStops))
  /\ WF_clientVars(InRun(ResizerStops))
  /\ WF_clientVars(RunStops \/ InRun(RunJoins \/ RunReturns))

ClientSpec == ClientInit /\ [][ClientNext]_clientVars /\ ConnectRuns /\ BootRuns /\ RunRuns
-----------------------------------------------------------------------------
(* connect has returned, or a panic has run its deferred calls. *)
Over == status # -1 /\ defers \in {<<>>, <<"log">>}

(***************************************************************************)
(* However far connect came and whatever failed, when a status or an error *)
(* is printed the terminal is back in the mode the console was opened in,  *)
(* unless setting that mode failed; after a panic too.  Nothing stays      *)
(* behind: the console and the connection are closed, the Ctrl+Break       *)
(* handler is gone.                                                        *)
(***************************************************************************)
ConsoleGivenBack ==
  Over =>
    /\ onbreak = FALSE /\ conn # "open"
    /\ (term /\ err \notin {"none", "console", "panic"}) => console # "open"
    /\ mode = "base" \/ modeErr

(***************************************************************************)
(* et succeeds only where there was nothing to connect, the user detached  *)
(* from a session that had started, or the server ended one without        *)
(* reporting a failure.  A status the process cannot carry is no success,  *)
(* and neither is a signal, or a Ctrl+Break that aborts the connect.       *)
(***************************************************************************)
StatusSound ==
  status = 0 =>
    \/ err = "none"
    \/ run = "returned" /\ cause = "detached"
    \/ run = "returned" /\ closed /\ (exit = "none" \/ CodeOf[exit] = 0)

(***************************************************************************)
(* Once its context is done the process exits, wherever that found it: in  *)
(* ssh, even one that ignores the interrupt or leaves its stdout to a      *)
(* descendant, in the dial, or in a session, whose goroutines are all      *)
(* released even where closing the console fails.  On Windows that takes a *)
(* console that does not block a Write for ever: Close waits for it.       *)
(***************************************************************************)
CancelledExits == (windows => []<>(output # "write")) => (Done ~> phase = "exited")

(***************************************************************************)
(* The server's end of the session ends the process, as long as the        *)
(* terminal does not block a Write for ever.                               *)
(***************************************************************************)
EndIsReported == []<>(output # "write") => (router = "drain" ~> phase = "exited")
=============================================================================
