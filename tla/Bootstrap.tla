------------------------------ MODULE Bootstrap ------------------------------
(***************************************************************************)
(* bootstrap.Run (internal/bootstrap): ssh starts etterminal on the server *)
(* and prints the session's credentials among the login shell's output.    *)
(* The parameter "cancelled" says whether the caller's context is done.    *)
(*                                                                         *)
(* Output is a sequence of tokens, each kept or dropped whole:             *)
(*   "noise"   anything else a login shell prints                          *)
(*   "marker"  IDPASSKEY:                                                  *)
(*   "id"      idLen alphanumerics and a slash                             *)
(*   "key"     the session's passkey: passkeyLen alphanumerics and no more *)
(*   "part"    fewer of them, or a run that goes on: a malformed id or key *)
(*   "own"     the passkey et generated, for a server that need not        *)
(*             regenerate it; anywhere but after an id also a piece of it, *)
(*             of minPiece bytes or more                                   *)
(***************************************************************************)
EXTENDS Naturals, Sequences, SequencesExt

CONSTANTS
  MaxOutput,   \* maxOutput, in tokens
  ExcerptLen,  \* excerptLen, in tokens
  MaxPrinted   \* model bound: tokens ssh and its descendants print

ASSUME BootstrapAssumption ==
  {MaxOutput, ExcerptLen} \subseteq Nat \ {0} /\ MaxPrinted \in Nat

VARIABLES
  boot,     \* where Run is; at the end, what it returns
  ssh,      \* the process: "none", "running", "interrupted", "exited"
  holder,   \* a descendant of it holds its stdout open
  out,      \* cappedBuffer.buf
  dropped,  \* cappedBuffer.dropped
  quoted,   \* the excerpt in the error Run returned
  mode      \* the terminal's mode: "base", "ssh" (a prompt's), "raw"

process == <<ssh, holder>>
captured == <<out, dropped>>
bootVars == <<boot, process, captured, quoted, mode>>

Tokens == {"noise", "marker", "id", "key", "part", "own"}
Secrets == {"key", "part", "own"}

BootInit ==
  /\ boot = "idle" /\ ssh = "none" /\ holder = FALSE
  /\ out = <<>> /\ dropped = 0 /\ quoted = <<>> /\ mode = "base"
-----------------------------------------------------------------------------
(* The position of the first marker, or past the end. *)
Cut(o) == SelectInSeq(Append(o, "marker"), LAMBDA t : t = "marker")

(* The first marker decides, whatever follows it. *)
parseCredentials(o) ==
  /\ Cut(o) + 2 <= Len(o)
  /\ o[Cut(o) + 1] = "id" /\ o[Cut(o) + 2] \in {"key", "own"}

containsPiece(o) == "own" \in ToSet(o)

Tailing(o, n) == IF Len(o) <= n THEN o ELSE SubSeq(o, Len(o) - n + 1, Len(o))

(* Faulty: the end of all the output. *)
excerptOfAll(o) == Tailing(o, ExcerptLen)

(* The end of what came before the first marker. *)
excerpt(o) == Tailing(SubSeq(o, 1, Cut(o) - 1), ExcerptLen)

(* withheldOutput stands for output that holds a piece of the passkey. *)
Shown == IF containsPiece(out) THEN <<>> ELSE out

(* The output in the error's text; ssh's status and hints are not in it. *)
describeFailure(shown) == excerpt(shown)
-----------------------------------------------------------------------------
(***************************************************************************)
(* Run, up to the start of ssh.                                            *)
(***************************************************************************)
(* validate or LookPath fails, whatever ctx; or ssh does not start, also   *)
(* because ctx is done, and that is reported first.                        *)
BootRefuses(cancelled) ==
  /\ boot = "idle" /\ boot' \in {"failed"} \cup (IF cancelled THEN {"cancelled"} ELSE {})
  /\ UNCHANGED <<process, captured, quoted, mode>>

BootStarts(cancelled) ==
  /\ boot = "idle" /\ ~cancelled
  /\ boot' = "run" /\ ssh' = "running"
  /\ UNCHANGED <<holder, captured, quoted, mode>>
-----------------------------------------------------------------------------
(***************************************************************************)
(* ssh, with the terminal as its own; cappedBuffer.Write takes its output. *)
(***************************************************************************)
Alive == ssh \in {"running", "interrupted"}

(* etterminal prints its passkey after the marker. *)
SshPrints ==
  /\ boot = "run" /\ (Alive \/ holder) /\ Len(out) + dropped < MaxPrinted
  /\ \E t \in Tokens :
       /\ t \in {"key", "part"} => "marker" \in ToSet(out) \/ dropped > 0
       /\ IF Len(out) < MaxOutput THEN out' = Append(out, t) /\ dropped' = dropped
          ELSE out' = out /\ dropped' = dropped + 1
  /\ UNCHANGED <<boot, process, quoted, mode>>

(* A password prompt turns echo off, and on again once answered. *)
SshPrompts ==
  /\ Alive /\ mode' \in {"base", "ssh"}
  /\ UNCHANGED <<boot, process, captured, quoted>>

(***************************************************************************)
(* It exits, whatever its status, or a signal ends it, with a descendant   *)
(* left on its stdout or not.                                              *)
(***************************************************************************)
SshExits ==
  /\ Alive /\ ssh' = "exited" /\ holder' \in BOOLEAN
  /\ UNCHANGED <<boot, captured, quoted, mode>>

HolderEnds ==
  /\ holder /\ holder' = FALSE
  /\ UNCHANGED <<boot, ssh, captured, quoted, mode>>

Ssh == SshPrints \/ SshPrompts \/ SshExits \/ HolderEnds
-----------------------------------------------------------------------------
(***************************************************************************)
(* exec.Cmd: Cancel, then waitDelay; after the exit, stdout or waitDelay.  *)
(***************************************************************************)
Killed == ssh' = "exited" /\ holder' \in BOOLEAN

(* Interrupt, or on Windows, where it cannot be delivered, kill. *)
BootInterrupts(cancelled, windows) ==
  /\ boot = "run" /\ cancelled /\ ssh = "running"
  /\ IF windows THEN Killed ELSE ssh' = "interrupted" /\ UNCHANGED holder
  /\ UNCHANGED <<boot, captured, quoted, mode>>

(* Faulty: an ssh that ignores the interrupt is waited for. *)
BootNeverKills == FALSE /\ UNCHANGED bootVars

BootKills ==
  /\ boot = "run" /\ ssh = "interrupted" /\ Killed
  /\ UNCHANGED <<boot, captured, quoted, mode>>

(* Stdout closes, or waitDelay passes; a descendant may keep running. *)
BootJoins ==
  /\ boot = "run" /\ ssh = "exited" /\ boot' = "verdict"
  /\ UNCHANGED <<process, captured, quoted, mode>>

(* The captured output and the process are not looked at again. *)
BootForgets ==
  /\ ssh' = "none" /\ holder' = FALSE /\ out' = <<>> /\ dropped' = 0
  /\ UNCHANGED mode

(* Credentials count whatever ssh's exit status; cancellation wins. *)
BootReturns(cancelled) ==
  /\ boot = "verdict"
  /\ boot' = (IF cancelled THEN "cancelled"
              ELSE IF parseCredentials(out) THEN "credentials" ELSE "failed")
  /\ quoted' = (IF boot' = "failed" THEN describeFailure(Shown) ELSE <<>>)
  /\ BootForgets

BootNext(cancelled, windows) ==
  \/ BootRefuses(cancelled) \/ BootStarts(cancelled) \/ Ssh
  \/ BootInterrupts(cancelled, windows) \/ BootKills \/ BootJoins \/ BootReturns(cancelled)
-----------------------------------------------------------------------------
(***************************************************************************)
(* The error text never quotes passkey material: not what follows a        *)
(* marker, however malformed, and not the passkey et generated where the   *)
(* server's shell echoed the command, whichever tokens the cap dropped.    *)
(***************************************************************************)
KeyNotQuoted == ToSet(quoted) \cap Secrets = {}
=============================================================================
