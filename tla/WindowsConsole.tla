--------------------------- MODULE WindowsConsole ---------------------------
(***************************************************************************)
(* console.Console on Windows (internal/console/console_windows.go): its   *)
(* reader, its writer, the caller that switches modes, and callers of      *)
(* Close, over the console's input buffer, which other processes share.    *)
(*                                                                         *)
(* mu is held only inside the steps below, wmu from WriteStarts to the     *)
(* end of the Write.  A key is its number, decoded to one byte, and what   *)
(* is written is a count of UTF-16 units: module Codecs has both           *)
(* conversions.  A Read into an empty slice does nothing.                  *)
(***************************************************************************)
EXTENDS Naturals, Sequences, SequencesExt

CONSTANTS
  Closers,     \* callers of Close
  Returns,     \* the keys that are carriage returns
  WriteUnits,  \* writeUnits
  MaxKeys,     \* model bound: keys the user types
  MaxWrite,    \* model bound: units of one Write
  MaxWakes,    \* closeWait / wakeEvery
  MaxSwitches  \* model bound: calls of MakeRaw

ASSUME ConsoleAssumption ==
  /\ Returns \subseteq Nat \ {0} /\ WriteUnits \in Nat \ {0, 1}
  /\ {MaxKeys, MaxWrite, MaxWakes, MaxSwitches} \subseteq Nat

VARIABLES
  closing, reading, exited,  \* the flags, and the token in the channel
  reader,        \* where Read is
  batch,         \* what ReadConsoleW returned
  pending, got,  \* decoded bytes not yet returned, and those returned
  buffer,        \* the console's input buffer
  typed, taken,  \* keys typed; keys another process took or a flush dropped
  inMode, outMode, switches,
  left,          \* units the Write in progress has yet to write; 0: none runs
  closer,        \* where each call of Close is
  wakes, failed, \* of the first Close: injections, and whether it met an error
  restored       \* the first Close has restored the modes

flags == <<closing, reading, exited>>
input == <<reader, batch, pending, got>>
keys == <<buffer, typed, taken>>
modes == <<inMode, outMode, switches>>
close == <<closer, wakes, failed, restored>>
vars == <<flags, input, keys, modes, left, close>>

Wake == 0   \* the Enter record Close injects

(* Open recorded the modes as the baseline. *)
Init ==
  /\ closing = FALSE /\ reading = FALSE /\ exited = FALSE
  /\ reader = "idle" /\ batch = <<>> /\ pending = <<>> /\ got = <<>>
  /\ buffer = <<>> /\ typed = 0 /\ taken = {}
  /\ inMode = "base" /\ outMode = "base" /\ switches = 0
  /\ left = 0
  /\ closer = [c \in Closers |-> "idle"] /\ wakes = 0 /\ failed = FALSE
  /\ restored = FALSE
-----------------------------------------------------------------------------
(***************************************************************************)
(* The console host, shared with other processes.                          *)
(***************************************************************************)
UserTypes ==
  /\ typed < MaxKeys
  /\ typed' = typed + 1 /\ buffer' = Append(buffer, typed')
  /\ UNCHANGED <<flags, input, taken, modes, left, close>>

OtherProcessTakes ==
  /\ buffer # <<>>
  /\ taken' = taken \cup {Head(buffer)} /\ buffer' = Tail(buffer)
  /\ UNCHANGED <<flags, input, typed, modes, left, close>>

(* ssh.exe runs between Open and MakeRaw and may leave a mode changed. *)
SshLeavesMode ==
  /\ switches = 0 /\ ~closing /\ inMode' = "ssh"
  /\ UNCHANGED <<flags, input, keys, outMode, switches, left, close>>

(* In line mode ReadConsoleW returns only up to a carriage return. *)
LineEnds == {i \in DOMAIN buffer : buffer[i] \in Returns \cup {Wake}}
Deliverable ==
  IF inMode = "raw" THEN DOMAIN buffer
  ELSE {i \in LineEnds : \A j \in LineEnds : i <= j}
-----------------------------------------------------------------------------
(***************************************************************************)
(* Read, which the session's reader calls again and again.                 *)
(***************************************************************************)
Enters ==
  /\ reading' = TRUE /\ reader' = "console"
  /\ UNCHANGED <<closing, exited, batch, pending, got, keys, modes, left, close>>

(* Faulty: the closing flag is not looked at under mu. *)
ReadEntersBlindly == reader = "idle" /\ pending = <<>> /\ Enters

ReadEnters == reader = "idle" /\ ~closing /\ pending = <<>> /\ Enters

ReadFindsPending ==
  /\ reader = "idle" /\ ~closing /\ pending # <<>> /\ reader' = "copy"
  /\ UNCHANGED <<flags, batch, pending, got, keys, modes, left, close>>

ReadRefused ==
  /\ reader = "idle" /\ closing /\ reader' = "closed"
  /\ UNCHANGED <<flags, batch, pending, got, keys, modes, left, close>>

ConsoleDelivers ==
  /\ reader = "console"
  /\ \E n \in Deliverable :
       batch' = SubSeq(buffer, 1, n) /\ buffer' = SubSeq(buffer, n + 1, Len(buffer))
  /\ reader' = "back"
  /\ UNCHANGED <<flags, pending, got, typed, taken, modes, left, close>>

(* No units, which Read retries, or an error; the caller reads again. *)
ConsoleReturnsNothing ==
  /\ reader = "console" /\ reader' = "back"
  /\ UNCHANGED <<flags, batch, pending, got, keys, modes, left, close>>

KeepsBatch ==
  /\ reading' = FALSE /\ reader' = "idle" /\ pending' = batch /\ batch' = <<>>
  /\ UNCHANGED <<closing, exited, got, keys, modes, left, close>>

(* Faulty: the flag read before the console read decides. *)
ReadDecodesLate == reader = "back" /\ KeepsBatch

ReadDecodes == reader = "back" /\ ~closing /\ KeepsBatch

ReadDiscards ==
  /\ reader = "back" /\ closing
  /\ reading' = FALSE /\ exited' = TRUE /\ reader' = "closed"
  /\ taken' = taken \cup ToSet(batch) /\ batch' = <<>>
  /\ UNCHANGED <<closing, pending, got, buffer, typed, modes, left, close>>

ReadCopies ==
  /\ reader = "copy"
  /\ \E n \in 1 .. Len(pending) :
       /\ got' = got \o SubSeq(pending, 1, n)
       /\ pending' = SubSeq(pending, n + 1, Len(pending))
  /\ reader' = "idle"
  /\ UNCHANGED <<flags, batch, keys, modes, left, close>>

Read ==
  \/ ReadEnters \/ ReadFindsPending \/ ReadRefused \/ ConsoleDelivers
  \/ ConsoleReturnsNothing \/ ReadDecodes \/ ReadDiscards \/ ReadCopies
-----------------------------------------------------------------------------
(***************************************************************************)
(* Write.                                                                  *)
(***************************************************************************)
WriteStarts ==
  /\ left = 0 /\ ~closing /\ left' \in 1 .. MaxWrite
  /\ UNCHANGED <<flags, input, keys, modes, close>>

(* WriteConsoleW writes part of a chunk; units are only counted. *)
WriteChunk ==
  /\ left > 0
  /\ \E n \in 1 .. (IF left < WriteUnits THEN left ELSE WriteUnits) : left' = left - n
  /\ UNCHANGED <<flags, input, keys, modes, close>>

(* It fails, or reports nothing or too much written. *)
WriteFails ==
  /\ left > 0 /\ left' = 0
  /\ UNCHANGED <<flags, input, keys, modes, close>>

Write == WriteStarts \/ WriteChunk \/ WriteFails
-----------------------------------------------------------------------------
(***************************************************************************)
(* The modes.  MakeRaw sets both handles or neither, unless the rollback   *)
(* of the first fails; a host may refuse DISABLE_NEWLINE_AUTO_RETURN.      *)
(***************************************************************************)
MakeRaw ==
  /\ ~closing /\ switches < MaxSwitches /\ switches' = switches + 1
  /\ \/ inMode' = "raw" /\ outMode' \in {"raw", "raw, newline"}
     \/ inMode' \in {inMode, "raw", "base"} /\ outMode' = outMode
  /\ UNCHANGED <<flags, input, keys, left, close>>

(* restoreLocked: each mode is read, and set unless it is at its baseline;  *)
(* errs are the handles where either fails.                                *)
Handles == {"in", "out"}
RestoreLocked(errs) ==
  /\ inMode' = IF "in" \in errs THEN inMode ELSE "base"
  /\ outMode' = IF "out" \in errs THEN outMode ELSE "base"
  /\ switches' = switches

(* restore, kept from any MakeRaw; once Close has started it does nothing. *)
Restore ==
  /\ ~closing /\ switches > 0
  /\ \E errs \in SUBSET Handles : RestoreLocked(errs)
  /\ UNCHANGED <<flags, input, keys, left, close>>
-----------------------------------------------------------------------------
(***************************************************************************)
(* Close and wakeAndWait.                                                  *)
(***************************************************************************)
Moves(c, to) == closer' = [closer EXCEPT ![c] = to]

CloseStarts(c) ==
  /\ closer[c] = "idle"
  /\ Moves(c, IF closing THEN "wait" ELSE IF reading THEN "wake" ELSE "flush")
  /\ closing' = TRUE
  /\ UNCHANGED <<reading, exited, input, keys, modes, left, wakes, failed, restored>>

CloseWaits(c) ==
  /\ closer[c] = "wait" /\ restored /\ Moves(c, "returned")
  /\ UNCHANGED <<flags, input, keys, modes, left, wakes, failed, restored>>

(* writeConsoleInput, which may fail *)
Injects == buffer' \in {buffer, Append(buffer, Wake)}

WakeReader(c) ==
  /\ closer[c] = "wake" /\ Moves(c, "select") /\ wakes' = wakes + 1
  /\ Injects
  /\ UNCHANGED <<flags, input, typed, taken, modes, left, failed, restored>>

WakeAgain(c) ==
  /\ closer[c] = "select" /\ wakes < MaxWakes /\ Moves(c, "wake")
  /\ UNCHANGED <<flags, input, keys, modes, left, wakes, failed, restored>>

ReaderExited(c) ==
  /\ closer[c] = "select" /\ exited /\ exited' = FALSE /\ Moves(c, "flush")
  /\ UNCHANGED <<closing, reading, input, keys, modes, left, wakes, failed, restored>>

(* Faulty: the reader is waited for without a deadline. *)
NoDeadline(c) == ReaderExited(c)

WakeDeadline(c) ==
  /\ closer[c] = "select" /\ failed' = TRUE /\ Moves(c, "flush")
  /\ UNCHANGED <<flags, input, keys, modes, left, wakes, restored>>

FlushInput(c) ==
  /\ closer[c] = "flush"
  /\ \/ buffer' = <<>> /\ taken' = taken \cup ToSet(buffer) /\ failed' = failed
     \/ UNCHANGED <<buffer, taken>> /\ failed' = TRUE
  /\ Moves(c, "lock")
  /\ UNCHANGED <<flags, input, typed, modes, left, wakes, restored>>

Restores(c) ==
  /\ closer[c] = "lock"
  /\ \E errs \in SUBSET Handles : RestoreLocked(errs) /\ failed' = (failed \/ errs # {})
  /\ restored' = TRUE /\ Moves(c, "returned")
  /\ UNCHANGED <<flags, input, keys, left, wakes>>

(* Faulty: the modes are restored without wmu. *)
CloseRestoresNow(c) == Restores(c)

CloseRestores(c) == left = 0 /\ Restores(c)

Close(c) ==
  \/ CloseStarts(c) \/ CloseWaits(c) \/ WakeReader(c) \/ WakeAgain(c)
  \/ ReaderExited(c) \/ WakeDeadline(c) \/ FlushInput(c) \/ CloseRestores(c)
-----------------------------------------------------------------------------
Next ==
  \/ UserTypes \/ OtherProcessTakes \/ SshLeavesMode
  \/ Read \/ Write \/ MakeRaw \/ Restore
  \/ \E c \in Closers : Close(c)

Spec == Init /\ [][Next]_vars

(***************************************************************************)
(* Fairness: a caller of Close runs on, its deadline passes in the end,    *)
(* and the reader runs on once ReadConsoleW has returned.  Nothing is      *)
(* assumed of the console, of the user or of other processes.              *)
(***************************************************************************)
Fairness ==
  /\ WF_vars(ReadDecodes \/ ReadDiscards \/ ReadCopies)
  /\ \A c \in Closers :
       /\ WF_vars(CloseWaits(c)) /\ WF_vars(WakeReader(c)) /\ WF_vars(FlushInput(c))
       /\ WF_vars(ReaderExited(c) \/ WakeDeadline(c)) /\ WF_vars(CloseRestores(c))

FairSpec == Spec /\ Fairness
-----------------------------------------------------------------------------
(***************************************************************************)
(* Read returns the keys in the order they were typed, each once, missing  *)
(* only those another process or a flush took; and the record Close        *)
(* injects to wake the reader is never input.                              *)
(***************************************************************************)
KeysInOrder ==
  LET line == got \o pending \o batch \o buffer
  IN  /\ \A i, j \in DOMAIN line : (i < j /\ Wake \notin {line[i], line[j]}) => line[i] < line[j]
      /\ ToSet(line) \ {Wake} = (1 .. typed) \ taken
      /\ Wake \notin ToSet(got \o pending)

(***************************************************************************)
(* What a Close that reports no error leaves behind, for good: no reader   *)
(* in ReadConsoleW to take keys from the parent shell, no wake record in   *)
(* the input buffer for it to read, and both modes at their baseline,      *)
(* whatever MakeRaw, a restore or another Close was doing meanwhile.       *)
(***************************************************************************)
CleanClose ==
  (restored /\ ~failed) =>
    /\ reader # "console" /\ Wake \notin ToSet(buffer)
    /\ inMode = "base" /\ outMode = "base"

(***************************************************************************)
(* A Write in progress when Close starts finishes under the modes it       *)
(* started with: Close has not restored them, and afterwards no Write      *)
(* begins.                                                                 *)
(***************************************************************************)
NoWriteAfterRestore == restored => left = 0

(***************************************************************************)
(* Every Close returns, the second as the first, in whatever state the     *)
(* reader was caught, as long as the console does not stall a Write.       *)
(***************************************************************************)
CloseReturns ==
  []<>(left = 0) => \A c \in Closers : closer[c] # "idle" ~> closer[c] = "returned"
=============================================================================
