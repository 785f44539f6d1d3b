----------------------------- MODULE LifecycleLog -----------------------------
(***************************************************************************)
(* The log of ended sessions that all servers of a user share: two files   *)
(* of JSON lines, each read and appended to under its own file lock.       *)
(* Servers of the older version append every row to the legacy file. A     *)
(* newer one first moves the rows there that older readers cannot parse to *)
(* the current file, step by step under the lock of the legacy file, then  *)
(* appends its own row to the current file, and a shutdown row to both.    *)
(*                                                                         *)
(* A file keeps at most Limit rows. To append to a full one its rows are   *)
(* read, the file is emptied, all but the oldest are written back, and the *)
(* new row is written behind them. A server may be killed between any two  *)
(* steps: its locks are released, and the rows that only its memory holds  *)
(* are lost. One write of rows is a step of its own and is not cut short.  *)
(* As no file ever has more than Limit rows, the truncation of a longer    *)
(* one in read_lifecycle_tail is not reached.                              *)
(***************************************************************************)
EXTENDS Naturals, Sequences, Functions

CONSTANTS
  Servers,    \* processes that own sessions and look up those of others
  Old,        \* those that start with the older version
  Sessions,
  Owner,      \* the server of each session
  EndedByShutdown,  \* sessions that a server shutdown ends
  Restamped,  \* sessions whose end has no time of its own: each row takes now
  Limit,      \* rows a file holds
  MaxRows,    \* bound on the rows of one session
  NoRow

Nobody == "nobody"
Files == {"legacy", "current"}
Row == [session : Sessions, at : 1..MaxRows, cleanup : {"retained", "removed"}]

LogAssumption ==
  /\ Nobody \notin Servers /\ NoRow \notin Row
  /\ Old \subseteq Servers /\ Owner \in [Sessions -> Servers]
  /\ EndedByShutdown \subseteq Sessions /\ Restamped \subseteq Sessions
  /\ Limit \in Nat \ {0} /\ MaxRows \in Nat

VARIABLES
  file,       \* the rows of each file
  locked,     \* the server that holds each file's lock
  version,    \* of each server
  pc,         \* its step in append_session_lifecycle_event or in a lookup
  row,        \* the row it appends
  phase,      \* of its append: "ready", or the file "emptied" or "refilled"
  retained,   \* the rows it writes back to the file it emptied
  moving,     \* the rows it still has to move
  kept,       \* the rows it will leave in the legacy file
  asked,      \* the session it looks up
  found,      \* what it found of it so far
  rows,       \* rows written of each session
  acked,      \* rows whose append returned (history)
  dropped,    \* rows of each file that made room for others (history)
  lost,       \* rows of each file that a kill took out of it (history)
  known       \* those of the session acked when a lookup began (history)

lookupVars == <<asked, found, known>>
vars == <<file, locked, version, pc, row, phase, retained, moving, kept, lookupVars, rows,
          acked, dropped, lost>>

(* SessionLifecycleRecord::legacy_compatible.                              *)
LegacyCompatible(r) == r.session \in EndedByShutdown

SupersedesIfLater(r, previous) == r.at > previous.at

(* A later end wins. At the same time a removal is never undone by an      *)
(* older row that was moved behind it.                                     *)
Supersedes(r, previous) ==
  IF r.at # previous.at THEN r.at > previous.at
  ELSE ~(r.cleanup = "retained" /\ previous.cleanup = "removed")

Better(r, best) == IF best = NoRow THEN r ELSE IF Supersedes(r, best) THEN r ELSE best

(* lifecycle_record_from_path: the row of a session that no later one      *)
(* supersedes.                                                             *)
Latest(log, s) ==
  LET best[n \in 0..Len(log)] ==
        IF n = 0 THEN NoRow
        ELSE IF log[n].session = s THEN Better(log[n], best[n - 1]) ELSE best[n - 1]
  IN  best[Len(log)]

(* The rows that older readers can parse, or those that they cannot.       *)
Rows(log, compatible) ==
  LET some[n \in 0..Len(log)] ==
        IF n = 0 THEN <<>>
        ELSE IF LegacyCompatible(log[n]) = compatible THEN Append(some[n - 1], log[n])
        ELSE some[n - 1]
  IN  some[Len(log)]

(* What a server has in its memory of a file that it is rewriting: the     *)
(* append rewrites the file it writes to, the migration the legacy file.   *)
Target(p) == IF pc[p] = "appendLegacy" \/ version[p] = "old" THEN "legacy" ELSE "current"
InHand(p, f) ==
  IF phase[p] = "emptied" /\ Target(p) = f THEN Range(retained[p])
  ELSE IF pc[p] = "rewrite" /\ f = "legacy" THEN Range(kept[p])
  ELSE {}
Held(f) == IF locked[f] = Nobody THEN {} ELSE InHand(locked[f], f)

Init ==
  /\ file = [f \in Files |-> <<>>]
  /\ locked = [f \in Files |-> Nobody]
  /\ version = [p \in Servers |-> IF p \in Old THEN "old" ELSE "new"]
  /\ pc = [p \in Servers |-> "idle"]
  /\ row = [p \in Servers |-> NoRow]
  /\ phase = [p \in Servers |-> "ready"]
  /\ retained = [p \in Servers |-> <<>>]
  /\ moving = [p \in Servers |-> <<>>]
  /\ kept = [p \in Servers |-> <<>>]
  /\ asked = [p \in Servers |-> NoRow]
  /\ found = [p \in Servers |-> NoRow]
  /\ rows = [s \in Sessions |-> 0]
  /\ acked = {}
  /\ dropped = [f \in Files |-> {}]
  /\ lost = [f \in Files |-> {}]
  /\ known = [p \in Servers |-> {}]

-----------------------------------------------------------------------------
(* The rows of one session tell of retained workdirs until one is removed. *)
NextRow(s, cleanup) ==
  [session |-> s, at |-> IF s \in Restamped THEN rows[s] + 1 ELSE 1, cleanup |-> cleanup]

MayRecord(p, s) ==
  /\ pc[p] = "idle" /\ Owner[s] = p /\ rows[s] < MaxRows
  /\ \A r \in acked : r.session = s => r.cleanup = "retained"

(* A server of the older version knows the legacy file only.               *)
BeginAppend(p) ==
  /\ \E s \in Sessions, cleanup \in {"retained", "removed"} :
       /\ MayRecord(p, s)
       /\ row' = [row EXCEPT ![p] = NextRow(s, cleanup)]
       /\ rows' = [rows EXCEPT ![s] = @ + 1]
  /\ pc' = [pc EXCEPT ![p] = IF version[p] = "old" THEN "append" ELSE "migrate"]
  /\ UNCHANGED <<file, locked, version, phase, retained, moving, kept, lookupVars, acked,
                 dropped, lost>>

(* Its reload makes it a newer one, with its sessions.                     *)
Upgrade(p) ==
  /\ version[p] = "old" /\ pc[p] = "idle"
  /\ version' = [version EXCEPT ![p] = "new"]
  /\ UNCHANGED <<file, locked, pc, row, phase, retained, moving, kept, lookupVars, rows, acked,
                 dropped, lost>>

BeginLookup(p) ==
  /\ version[p] = "new" /\ pc[p] = "idle"
  /\ \E s \in Sessions :
       /\ asked' = [asked EXCEPT ![p] = s]
       /\ known' = [known EXCEPT ![p] = {r \in acked : r.session = s}]
  /\ found' = [found EXCEPT ![p] = NoRow]
  /\ pc' = [pc EXCEPT ![p] = "migrate"]
  /\ UNCHANGED <<file, locked, version, row, phase, retained, moving, kept, rows, acked,
                 dropped, lost>>

-----------------------------------------------------------------------------
(* append_lifecycle_record, of a row of its own or of one that it moves.   *)

Appends(p) ==
  \/ pc[p] \in {"append", "appendLegacy"}
  \/ pc[p] = "move" /\ moving[p] # <<>>
RowOf(p) == IF pc[p] = "move" THEN Head(moving[p]) ELSE row[p]

(* A full file is read and emptied, under its lock,                        *)
Empty(p) ==
  LET f == Target(p)
  IN /\ Appends(p) /\ phase[p] = "ready" /\ locked[f] = Nobody
     /\ Len(file[f]) >= Limit
     /\ retained' = [retained EXCEPT ![p] = Tail(file[f])]
     /\ dropped' = [dropped EXCEPT ![f] = @ \cup {Head(file[f])}]
     /\ file' = [file EXCEPT ![f] = <<>>]
     /\ locked' = [locked EXCEPT ![f] = p]
     /\ phase' = [phase EXCEPT ![p] = "emptied"]
     /\ UNCHANGED <<version, pc, row, moving, kept, lookupVars, rows, acked, lost>>

(* all but its oldest row are written back,                                *)
WriteBack(p) ==
  /\ phase[p] = "emptied"
  /\ file' = [file EXCEPT ![Target(p)] = retained[p]]
  /\ phase' = [phase EXCEPT ![p] = "refilled"]
  /\ UNCHANGED <<locked, version, pc, row, retained, moving, kept, lookupVars, rows, acked,
                 dropped, lost>>

(* What follows an append: the next row to move, the mirror of a shutdown  *)
(* row in the legacy file, or the caller's return.                         *)
GoOn(p) ==
  IF pc[p] = "move"
  THEN /\ moving' = [moving EXCEPT ![p] = Tail(@)]
       /\ UNCHANGED <<pc, row, acked>>
  ELSE IF Target(p) = "current" /\ LegacyCompatible(row[p])
  THEN /\ pc' = [pc EXCEPT ![p] = "appendLegacy"]
       /\ UNCHANGED <<row, moving, acked>>
  ELSE /\ acked' = acked \cup {row[p]}
       /\ row' = [row EXCEPT ![p] = NoRow]
       /\ pc' = [pc EXCEPT ![p] = "idle"]
       /\ UNCHANGED moving

(* and the row is written, at once where there is room.                    *)
AppendRow(p) ==
  LET f == Target(p)
  IN /\ Appends(p)
     /\ \/ phase[p] = "ready" /\ locked[f] = Nobody /\ Len(file[f]) < Limit
        \/ phase[p] = "refilled"
     /\ file' = [file EXCEPT ![f] = Append(@, RowOf(p))]
     /\ locked' = [locked EXCEPT ![f] = Nobody]
     /\ phase' = [phase EXCEPT ![p] = "ready"]
     /\ GoOn(p)
     /\ UNCHANGED <<version, retained, kept, lookupVars, rows, dropped, lost>>

-----------------------------------------------------------------------------
(* migrate_legacy_lifecycle_records                                        *)

After(p) == IF row[p] # NoRow THEN "append" ELSE "readLegacy"

(* Under the lock the rows are split. With none to move the file is let go *)
(* at once.                                                                *)
Split(p) ==
  LET foreign == Rows(file["legacy"], FALSE)
  IN /\ pc[p] = "migrate" /\ locked["legacy"] = Nobody
     /\ moving' = [moving EXCEPT ![p] = foreign]
     /\ kept' = [kept EXCEPT ![p] = Rows(file["legacy"], TRUE)]
     /\ IF foreign = <<>>
        THEN pc' = [pc EXCEPT ![p] = After(p)] /\ UNCHANGED locked
        ELSE pc' = [pc EXCEPT ![p] = "move"] /\ locked' = [locked EXCEPT !["legacy"] = p]
     /\ UNCHANGED <<file, version, row, phase, retained, lookupVars, rows, acked, dropped, lost>>

(* All are appended to the current file; its lock is taken to sync it, and *)
(* kept.                                                                   *)
LockCurrent(p) ==
  /\ pc[p] = "move" /\ moving[p] = <<>> /\ locked["current"] = Nobody
  /\ locked' = [locked EXCEPT !["current"] = p]
  /\ pc' = [pc EXCEPT ![p] = "truncate"]
  /\ UNCHANGED <<file, version, row, phase, retained, moving, kept, lookupVars, rows, acked,
                 dropped, lost>>

Unlocked == [f \in Files |-> Nobody]
TruncateAndUnlock(p) ==
  /\ pc[p] = "truncate"
  /\ file' = [file EXCEPT !["legacy"] = <<>>]
  /\ locked' = Unlocked
  /\ pc' = [pc EXCEPT ![p] = "rewrite"]
  /\ UNCHANGED <<version, row, phase, retained, moving, kept, lookupVars, rows, acked, dropped,
                 lost>>

(* Only then the legacy file is emptied,                                   *)
Truncate(p) ==
  /\ pc[p] = "truncate"
  /\ file' = [file EXCEPT !["legacy"] = <<>>]
  /\ pc' = [pc EXCEPT ![p] = "rewrite"]
  /\ UNCHANGED <<locked, version, row, phase, retained, moving, kept, lookupVars, rows, acked,
                 dropped, lost>>

(* and what stays is written back.                                         *)
Rewrite(p) ==
  /\ pc[p] = "rewrite"
  /\ file' = [file EXCEPT !["legacy"] = kept[p]]
  /\ locked' = Unlocked
  /\ pc' = [pc EXCEPT ![p] = After(p)]
  /\ UNCHANGED <<version, row, phase, retained, moving, kept, lookupVars, rows, acked, dropped,
                 lost>>

-----------------------------------------------------------------------------
(* previous_session_lifecycle: the two files are read one after the other. *)
ReadLegacy(p) ==
  /\ pc[p] = "readLegacy" /\ locked["legacy"] = Nobody
  /\ found' = [found EXCEPT ![p] = Latest(file["legacy"], asked[p])]
  /\ pc' = [pc EXCEPT ![p] = "readCurrent"]
  /\ UNCHANGED <<file, locked, version, row, phase, retained, moving, kept, asked, known, rows,
                 acked, dropped, lost>>

ReadCurrent(p) ==
  LET now == Latest(file["current"], asked[p])
  IN /\ pc[p] = "readCurrent" /\ locked["current"] = Nobody
     /\ found' = [found EXCEPT ![p] = IF now = NoRow THEN @ ELSE Better(now, @)]
     /\ pc' = [pc EXCEPT ![p] = "answered"]
     /\ UNCHANGED <<file, locked, version, row, phase, retained, moving, kept, asked, known, rows,
                    acked, dropped, lost>>

EndLookup(p) ==
  /\ pc[p] = "answered"
  /\ pc' = [pc EXCEPT ![p] = "idle"]
  /\ asked' = [asked EXCEPT ![p] = NoRow]
  /\ found' = [found EXCEPT ![p] = NoRow]
  /\ known' = [known EXCEPT ![p] = {}]
  /\ UNCHANGED <<file, locked, version, row, phase, retained, moving, kept, rows, acked,
                 dropped, lost>>

(* The kernel drops a killed server's locks; its memory is gone.           *)
Killed(p) ==
  /\ pc[p] # "down"
  /\ pc' = [pc EXCEPT ![p] = "down"]
  /\ row' = [row EXCEPT ![p] = NoRow]
  /\ phase' = [phase EXCEPT ![p] = "ready"]
  /\ locked' = [f \in Files |-> IF locked[f] = p THEN Nobody ELSE locked[f]]
  /\ lost' = [f \in Files |-> lost[f] \cup InHand(p, f)]
  /\ UNCHANGED <<file, version, retained, moving, kept, lookupVars, rows, acked, dropped>>

Next ==
  \E p \in Servers :
    \/ BeginAppend(p) \/ Upgrade(p) \/ BeginLookup(p)
    \/ Empty(p) \/ WriteBack(p) \/ AppendRow(p)
    \/ Split(p) \/ LockCurrent(p) \/ Truncate(p) \/ Rewrite(p)
    \/ ReadLegacy(p) \/ ReadCurrent(p) \/ EndLookup(p)
    \/ Killed(p)

Spec == Init /\ [][Next]_vars

-----------------------------------------------------------------------------
(* Properties *)

Steps == {"idle", "migrate", "move", "truncate", "rewrite", "append", "appendLegacy",
          "readLegacy", "readCurrent", "answered", "down"}

TypeOK ==
  /\ file \in [Files -> Seq(Row)]
  /\ locked \in [Files -> Servers \cup {Nobody}]
  /\ version \in [Servers -> {"old", "new"}]
  /\ pc \in [Servers -> Steps]
  /\ row \in [Servers -> Row \cup {NoRow}]
  /\ phase \in [Servers -> {"ready", "emptied", "refilled"}]
  /\ retained \in [Servers -> Seq(Row)]
  /\ moving \in [Servers -> Seq(Row)] /\ kept \in [Servers -> Seq(Row)]
  /\ asked \in [Servers -> Sessions \cup {NoRow}]
  /\ found \in [Servers -> Row \cup {NoRow}]
  /\ rows \in [Sessions -> 0..MaxRows]
  /\ acked \subseteq Row
  /\ dropped \in [Files -> SUBSET Row] /\ lost \in [Files -> SUBSET Row]
  /\ known \in [Servers -> SUBSET Row]

(* What a file has, or a server that lives will write back to it, or that  *)
(* made room for later rows.                                               *)
Retains(f) == Range(file[f]) \cup Held(f) \cup dropped[f]

(* A row that older readers can parse stays in the file they read; others  *)
(* may be moved to the current one.                                        *)
Survives(r, here) ==
  \/ r \in here["legacy"]
  \/ ~LegacyCompatible(r) /\ r \in here["current"]

(* A row whose append returned is in its file until it is the oldest of a  *)
(* full one: no migration and no rotation, beside whatever other servers   *)
(* append, loses it, unless the server that rewrites the file is killed    *)
(* between emptying it and writing it back (12595-12597, 12763-12765).     *)
RecordedRowsSurvive ==
  \A r \in acked : Survives(r, [f \in Files |-> Retains(f) \cup lost[f]])

(* Does not hold:                                                          *)
(* "the log is capped at 1 MiB and retains recent records" (README.md:788):*)
(* the same whoever is killed.                                             *)
RecentRowsRetained ==
  \A r \in acked : Survives(r, [f \in Files |-> Retains(f)])

(* A lookup answers with a row at least as new as each one whose append    *)
(* had returned when it began and that was neither dropped nor lost: no    *)
(* reader is told that a workdir is retained after it could have been told *)
(* that it is removed, whichever files the rows are in and whoever moves   *)
(* or rewrites them meanwhile.                                             *)
AnswersAreCurrent ==
  \A p \in Servers :
    pc[p] = "answered" =>
      \A r \in known[p] :
        \/ found[p] # NoRow /\ (found[p] = r \/ Supersedes(found[p], r))
        \/ \E f \in Files : r \in dropped[f] \cup lost[f]
=============================================================================
