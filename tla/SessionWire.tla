------------------------------ MODULE SessionWire ------------------------------
(***************************************************************************)
(* The server's stdio transport: SessionStdio of src/main.rs. Three tasks  *)
(* meet over WireState and the Notify `changed':                           *)
(*  - the service's loop, which awaits receive() and the answers of the    *)
(*    calls it runs at once, and drops receive() for an answer;            *)
(*  - one send task per answer;                                            *)
(*  - the reload watcher, which freezes the wire, waits until nothing is   *)
(*    read, parsed, running or half answered, and replaces the process.    *)
(*                                                                         *)
(* A line of stdin is two chunks, so that a read may end in the middle of  *)
(* one. The server asks its client nothing, so `outgoing' stays empty.     *)
(***************************************************************************)
EXTENDS Naturals, Sequences, FiniteSets

CONSTANTS
  Lines,     \* how many lines the client writes
  Invalid    \* those that are no message

ASSUME WireAssumption == Lines \in Nat /\ Invalid \subseteq 1..Lines

VARIABLES
  sent,      \* lines the client wrote so far
  pipe,      \* chunks in the stdin pipe
  input,     \* WireState.input: chunks read and not taken yet
  taken,     \* the line receive() holds while it parses, 0 for none
  consumed,  \* the lines that left the buffer for good, in order
  call,      \* how far the call of each line is
  receiver,  \* where the service's loop is in receive()
  stirred,   \* `changed' was notified since the receiver enabled it
  freezer,   \* where the reload watcher is in freeze()
  roused,    \* the same for the watcher
  paused, reading, parsing   \* of WireState

stdin    == <<sent, pipe, input, taken, consumed>>
receives == <<receiver, stirred>>
freezes  == <<freezer, roused>>
flags    == <<paused, reading, parsing>>
wireVars == <<stdin, call, receives, freezes, flags>>

Line     == 1..Lines
Chunk    == Line \X {"head", "end"}
Chunks(n) == << <<n, "head">>, <<n, "end">> >>

IncomingUnsent == {n \in Line : call[n] \in {"running", "written"}}

(* WireState.incoming: handed to the service, answer not settled.          *)
Incoming == {n \in Line : call[n] \in {"running", "sending", "written"}}
Complete == Len(input) > 1
Quiet    == Incoming = {} /\ ~reading /\ ~parsing

(* Any number of lines may have come and been answered before.             *)
WireInit ==
  /\ sent \in 0..Lines
  /\ pipe = <<>> /\ input = <<>> /\ taken = 0
  /\ consumed = [i \in 1..sent |-> i]
  /\ call = [n \in Line |-> IF n > sent THEN "unread"
                            ELSE IF n \in Invalid THEN "invalid" ELSE "done"]
  /\ receiver = "away" /\ stirred = FALSE
  /\ freezer = "off" /\ roused = FALSE
  /\ paused = FALSE /\ reading = FALSE /\ parsing = FALSE

Notify == stirred' = TRUE /\ roused' = TRUE

ClientWrites ==
  /\ sent < Lines
  /\ sent' = sent + 1
  /\ pipe' = pipe \o Chunks(sent + 1)
  /\ UNCHANGED <<input, taken, consumed, call, receives, freezes, flags>>

-----------------------------------------------------------------------------
(* receive() *)

(* A notification is enabled before the state is looked at.                *)
Register ==
  /\ receiver = "away"
  /\ receiver' = "enabled"
  /\ stirred' = FALSE
  /\ UNCHANGED <<stdin, call, freezes, flags>>

(* Under the lock: a paused wire is left alone, a complete line is taken.  *)
Look ==
  /\ receiver = "enabled"
  /\ \/ /\ paused
        /\ receiver' = "parked"
        /\ parsing' = FALSE
        /\ UNCHANGED <<input, taken>>
     \/ /\ ~paused /\ Complete
        /\ receiver' = "parsing"
        /\ parsing' = TRUE
        /\ taken' = input[1][1]
        /\ input' = SubSeq(input, 3, Len(input))
     \/ /\ ~paused /\ ~Complete
        /\ receiver' = "toRead"
        /\ parsing' = FALSE
        /\ UNCHANGED <<input, taken>>
  /\ UNCHANGED <<sent, pipe, consumed, call, stirred, freezes, paused, reading>>

Unpark ==
  /\ receiver = "parked" /\ stirred
  /\ receiver' = "away"
  /\ UNCHANGED <<stdin, call, stirred, freezes, flags>>

ParsePutsBehind ==
  /\ receiver = "parsing"
  /\ parsing' = FALSE
  /\ Notify
  /\ receiver' = "away"
  /\ taken' = 0
  /\ IF paused /\ taken \notin Invalid
     THEN /\ input' = input \o Chunks(taken)
          /\ UNCHANGED <<consumed, call>>
     ELSE /\ consumed' = Append(consumed, taken)
          /\ call' = [call EXCEPT ![taken] =
                        IF taken \in Invalid THEN "invalid" ELSE "running"]
          /\ UNCHANGED input
  /\ UNCHANGED <<sent, pipe, freezer, paused, reading>>

(* An invalid line is dropped. A freeze that came meanwhile puts a valid   *)
(* one back in front; otherwise the service gets the request.              *)
Parse ==
  /\ receiver = "parsing"
  /\ parsing' = FALSE
  /\ Notify
  /\ receiver' = "away"
  /\ taken' = 0
  /\ IF paused /\ taken \notin Invalid
     THEN /\ input' = Chunks(taken) \o input
          /\ UNCHANGED <<consumed, call>>
     ELSE /\ consumed' = Append(consumed, taken)
          /\ call' = [call EXCEPT ![taken] =
                        IF taken \in Invalid THEN "invalid" ELSE "running"]
          /\ UNCHANGED input
  /\ UNCHANGED <<sent, pipe, freezer, paused, reading>>

(* The lock was let go in between: a freeze is looked for once more.       *)
StartRead ==
  /\ receiver = "toRead"
  /\ IF paused
     THEN receiver' = "away" /\ UNCHANGED reading
     ELSE receiver' = "reading" /\ reading' = TRUE
  /\ UNCHANGED <<stdin, call, stirred, freezes, paused, parsing>>

EndRead ==
  /\ reading' = FALSE
  /\ Notify
  /\ receiver' = "away"
  /\ UNCHANGED <<sent, taken, consumed, call, freezer, paused, parsing>>

(* The select of a read and a notification: either may win.                *)
ReadSome ==
  /\ receiver = "reading"
  /\ \E count \in 1..Len(pipe) :
       /\ input' = input \o SubSeq(pipe, 1, count)
       /\ pipe' = SubSeq(pipe, count + 1, Len(pipe))
  /\ EndRead

ReadWoken ==
  /\ receiver = "reading" /\ stirred
  /\ EndRead
  /\ UNCHANGED <<input, pipe>>

-----------------------------------------------------------------------------
(* Answers *)

(* The service takes a finished call's answer. Its loop is one task, so it *)
(* is not inside receive()'s own code; a pending receive() is dropped      *)
(* where it awaits, with WireState as it is.                               *)
TakeAnswer(n) ==
  /\ call[n] = "running"
  /\ receiver \in {"away", "parked", "reading"}
  /\ call' = [call EXCEPT ![n] = "sending"]
  /\ receiver' = "away"
  /\ UNCHANGED <<stdin, stirred, freezes, flags>>

(* send(): the bytes first, the bookkeeping after them.                    *)
WriteAnswer(n) ==
  /\ call[n] = "sending"
  /\ call' = [call EXCEPT ![n] = "written"]
  /\ UNCHANGED <<stdin, receives, freezes, flags>>

SettleSilently(n) ==
  /\ call[n] = "written"
  /\ call' = [call EXCEPT ![n] = "done"]
  /\ UNCHANGED <<stdin, receives, freezes, flags>>

Settle(n) ==
  /\ call[n] = "written"
  /\ call' = [call EXCEPT ![n] = "done"]
  /\ Notify
  /\ UNCHANGED <<stdin, receiver, freezer, flags>>

-----------------------------------------------------------------------------
(* freeze() and thaw() *)

Freeze ==
  /\ freezer = "off"
  /\ paused' = TRUE
  /\ freezer' = "looping"
  /\ Notify
  /\ UNCHANGED <<stdin, call, receiver, reading, parsing>>

FreezeEnable ==
  /\ freezer = "looping"
  /\ freezer' = "enabled"
  /\ roused' = FALSE
  /\ UNCHANGED <<stdin, call, receives, flags>>

FreezeCheck ==
  /\ freezer = "enabled"
  /\ freezer' = IF Quiet THEN "frozen" ELSE "unquiet"
  /\ UNCHANGED <<stdin, call, receives, roused, flags>>

FreezeWoken ==
  /\ freezer = "unquiet" /\ roused
  /\ freezer' = "looping"
  /\ UNCHANGED <<stdin, call, receives, roused, flags>>

(* The process image is not replaced: reading goes on.                     *)
Thaw ==
  /\ paused' = FALSE
  /\ freezer' = "off"
  /\ Notify
  /\ UNCHANGED <<stdin, call, receiver, reading, parsing>>

(* The image is replaced: only the saved input, the pipe and what was      *)
(* written survive. Calls still running or half answered are lost.         *)
Replace(savedInput) ==
  /\ input' = savedInput
  /\ taken' = 0
  /\ call' = [n \in Line |-> IF call[n] \in {"running", "sending"} THEN "lost"
                             ELSE IF call[n] = "written" THEN "done" ELSE call[n]]
  /\ receiver' = "away" /\ stirred' = FALSE
  /\ freezer' = "off" /\ roused' = FALSE
  /\ paused' = FALSE /\ reading' = FALSE /\ parsing' = FALSE
  /\ UNCHANGED <<sent, pipe, consumed>>

WireNext ==
  \/ ClientWrites
  \/ Register \/ Look \/ Unpark \/ Parse \/ StartRead \/ ReadSome \/ ReadWoken
  \/ \E n \in Line : TakeAnswer(n) \/ WriteAnswer(n) \/ Settle(n)
  \/ FreezeEnable \/ FreezeCheck \/ FreezeWoken

-----------------------------------------------------------------------------
(* Properties *)

WireTypeOK ==
  /\ sent \in 0..Lines /\ taken \in 0..Lines
  /\ pipe \in Seq(Chunk) /\ input \in Seq(Chunk) /\ consumed \in Seq(Line)
  /\ call \in [Line -> {"unread", "invalid", "running", "sending", "written",
                        "done", "lost"}]
  /\ receiver \in {"away", "enabled", "parked", "parsing", "toRead", "reading"}
  /\ freezer \in {"off", "looping", "enabled", "unquiet", "frozen"}
  /\ stirred \in BOOLEAN /\ roused \in BOOLEAN
  /\ paused \in BOOLEAN /\ reading \in BOOLEAN /\ parsing \in BOOLEAN

(* What left the buffer, what is being parsed, what waits in the buffer    *)
(* and what is still in the pipe are together the lines the client wrote,  *)
(* in order and each once: pausing a read, putting a line back in front of *)
(* the buffer and replacing the image neither lose nor repeat nor reorder  *)
(* a request.                                                              *)
LinesKeepTheirOrder ==
  /\ \A i \in 1..Len(consumed) : consumed[i] = i
  /\ LET ahead == (IF taken = 0 THEN <<>> ELSE Chunks(taken)) \o input \o pipe
         gone  == 2 * Len(consumed)
     IN /\ Len(ahead) = 2 * sent - gone
        /\ \A i \in 1..Len(ahead) :
             ahead[i] = <<(gone + i + 1) \div 2,
                          IF (gone + i) % 2 = 1 THEN "head" ELSE "end">>

(* No call is running, and no answer half sent, when the process image is  *)
(* replaced: what reached the service is answered by the image that ran it.*)
NoCallIsLost == \A n \in Line : call[n] # "lost"

(* A receive() dropped in its read leaves `reading' set.                   *)
Stranded == reading /\ receiver # "reading"

(* freeze() ends once the calls it waits for are answered, unless the      *)
(* service dropped a read meanwhile.                                       *)
FreezeSettles ==
  freezer = "looping" ~> \/ freezer \in {"frozen", "off"}
                         \/ Stranded
                         \/ \E n \in Line : call[n] = "running"
=============================================================================
