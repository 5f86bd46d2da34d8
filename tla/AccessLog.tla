------------------------------ MODULE AccessLog ------------------------------
(***************************************************************************)
(* The access log (src/src/access_log.rs), the SIGHUP task of              *)
(* src/src/main.rs, and logrotate, whose conventions both are written for. *)
(*                                                                         *)
(* Handlers send finished entries into an unbounded channel, the SIGHUP    *)
(* task sends Reopen into the same channel, and one writer task takes the  *)
(* commands out in order.  logrotate renames the file behind the path the  *)
(* writer once opened, and then signals.  Writes and opens may fail, and   *)
(* the process may be killed and started again.                            *)
(*                                                                         *)
(* An entry is its number in the order of arrival, a file the number of    *)
(* its creation.                                                           *)
(***************************************************************************)
EXTENDS Integers, Sequences, FiniteSets

CONSTANTS
  MaxEntries,      (* bounds of the model: the entries that are appended,  *)
  MaxReopens,      (* the Reopens in the channel at a time,                *)
  MaxRotations,    (* the times logrotate renames the file,                *)
  MaxKills         (* and the times the process ends                       *)

ASSUME ConstantsAssumption ==
  {MaxEntries, MaxReopens, MaxRotations, MaxKills} \subseteq Nat

VARIABLES
  alive,           (* the process runs                                     *)
  registered,      (* the SIGHUP handler is installed                      *)
  pending,         (* a SIGHUP the task has not received yet               *)
  queue,           (* the channel of LogCmds                               *)
  writer,          (* the file the writer has open                         *)
  path,            (* the file that has the configured name, 0 for none    *)
  files,           (* files created so far                                 *)
  log,             (* what is in the files, in the order of writing        *)
  appended,        (* entries appended so far                              *)
  lost,            (* history: entries whose write failed, or that were    *)
                   (* still in the channel when the process was killed     *)
  refused,         (* history: since the latest signal or start, an        *)
                   (* attempt to reopen failed, and none succeeded after it*)
  rotations, kills

counters == <<rotations, kills>>
process == <<alive, registered, pending>>
disk == <<path, files>>
vars == <<process, queue, writer, disk, log, appended, lost, refused, counters>>

Reopen == 0                      (* LogCmd::Reopen; Append(n) is n itself  *)

Init ==
  /\ alive = TRUE
  /\ registered = FALSE
  /\ pending = FALSE
  /\ queue = << >>
  /\ writer = 1
  /\ path = 1
  /\ files = 1
  /\ log = << >>
  /\ appended = 0
  /\ lost = {}
  /\ refused = FALSE
  /\ rotations = 0 /\ kills = 0

(* The entries in the channel. *)
Queued == {queue[i] : i \in 1 .. Len(queue)} \ {Reopen}

(* A handler is through with its request. *)
AppendEntry ==
  /\ alive
  /\ appended < MaxEntries
  /\ appended' = appended + 1
  /\ queue' = Append(queue, appended')
  /\ UNCHANGED <<process, writer, disk, log, lost, refused, counters>>

-----------------------------------------------------------------------------
(* The SIGHUP task.  It is spawned before the server listens, but nothing  *)
(* says when it gets to run.                                               *)

Register ==
  /\ alive
  /\ ~registered
  /\ registered' = TRUE
  /\ UNCHANGED <<alive, pending, queue, writer, disk, log, appended, lost, refused, counters>>

Reopens == {i \in 1 .. Len(queue) : queue[i] = Reopen}

(* Mutant: Reopen is only sent when the channel has room for it at once. *)
ReceiveIfIdle ==
  /\ alive
  /\ pending
  /\ pending' = FALSE
  /\ queue' = IF queue = << >> THEN <<Reopen>> ELSE queue
  /\ UNCHANGED <<alive, registered, writer, disk, log, appended, lost, refused, counters>>

ReceiveSignal ==
  /\ alive
  /\ pending
  /\ Cardinality(Reopens) < MaxReopens
  /\ pending' = FALSE
  /\ queue' = Append(queue, Reopen)
  /\ UNCHANGED <<alive, registered, writer, disk, log, appended, lost, refused, counters>>

-----------------------------------------------------------------------------
(* The writer task. *)

Takes(command) == alive /\ queue # << >> /\ command = Head(queue)

(* Mutant: a line that is already in the file is written again. *)
WriteEntryTwice ==
  \E n \in 1 .. appended :
    /\ Takes(n)
    /\ queue' = Tail(queue)
    /\ log' = log \o [i \in 1 .. 2 |-> [file |-> writer, entry |-> n]]
    /\ UNCHANGED <<process, writer, disk, appended, lost, refused, counters>>

WriteEntry ==
  \E n \in 1 .. appended :
    /\ Takes(n)
    /\ queue' = Tail(queue)
    /\ log' = Append(log, [file |-> writer, entry |-> n])
    /\ UNCHANGED <<process, writer, disk, appended, lost, refused, counters>>

(* Mutant: a failed write is tried again after what is in the channel. *)
WriteFailsAndRetries ==
  \E n \in 1 .. appended :
    /\ Takes(n)
    /\ queue' = Append(Tail(queue), n)
    /\ UNCHANGED <<process, writer, disk, log, appended, lost, refused, counters>>

(* The write or its flush fails, the disk is full: the entry is gone. *)
WriteFails ==
  \E n \in 1 .. appended :
    /\ Takes(n)
    /\ queue' = Tail(queue)
    /\ lost' = lost \cup {n}
    /\ UNCHANGED <<process, writer, disk, log, appended, refused, counters>>

(* open(2) with O_CREAT and O_APPEND, as seen from the process. *)
Opens ==
  LET created == path = 0
  IN  /\ files' = IF created THEN files + 1 ELSE files
      /\ path' = IF created THEN files' ELSE path
      /\ writer' = path'

(* Mutant: what is left in the channel goes with the old file. *)
ReopenFileAndDrain ==
  /\ Takes(Reopen)
  /\ queue' = << >>
  /\ Opens
  /\ refused' = FALSE
  /\ UNCHANGED <<process, log, appended, lost, counters>>

ReopenFile ==
  /\ Takes(Reopen)
  /\ queue' = Tail(queue)
  /\ Opens
  /\ refused' = FALSE
  /\ UNCHANGED <<process, log, appended, lost, counters>>

(* Mutant: the writer tries again until it gets the file open. *)
ReopenRetries ==
  /\ Takes(Reopen)
  /\ refused' = TRUE
  /\ UNCHANGED <<process, queue, writer, disk, log, appended, lost, counters>>

(* The old file stays open, and nothing tries again before the next signal.*)
ReopenFails ==
  /\ Takes(Reopen)
  /\ queue' = Tail(queue)
  /\ refused' = TRUE
  /\ UNCHANGED <<process, writer, disk, log, appended, lost, counters>>

(* One turn of the writer's loop. *)
Write == WriteEntry \/ WriteFails \/ ReopenFile \/ ReopenFails

-----------------------------------------------------------------------------
(* The environment. *)

(* logrotate renames the file. *)
Rotate ==
  /\ rotations < MaxRotations
  /\ path # 0
  /\ path' = 0
  /\ rotations' = rotations + 1
  /\ UNCHANGED <<process, queue, writer, files, log, appended, lost, refused, kills>>

(* The process ends, and everything in its memory is gone. *)
Die ==
  /\ kills < MaxKills
  /\ kills' = kills + 1
  /\ alive' = FALSE
  /\ registered' = FALSE
  /\ pending' = FALSE
  /\ queue' = << >>
  /\ lost' = lost \cup Queued
  /\ UNCHANGED <<writer, disk, log, appended, refused, rotations>>

Kill == alive /\ Die

(* logrotate, or somebody, sends SIGHUP.  Signals that arrive before the   *)
(* task received the previous one merge with it.                           *)
Sighup ==
  /\ alive
  /\ registered
  /\ pending' = TRUE
  /\ refused' = FALSE
  /\ UNCHANGED <<alive, registered, queue, writer, disk, log, appended, lost, counters>>

(* A signal that arrives before the handler is installed ends the process. *)
SighupKills == alive /\ ~registered /\ Die

(* The process starts, and gets its log file open. *)
Start ==
  /\ ~alive
  /\ alive' = TRUE
  /\ Opens
  /\ refused' = FALSE
  /\ UNCHANGED <<registered, pending, queue, log, appended, lost, counters>>

Next ==
  \/ AppendEntry
  \/ Register \/ ReceiveSignal
  \/ Write
  \/ Rotate \/ Sighup \/ SighupKills \/ Kill \/ Start

Spec == Init /\ [][Next]_vars

(* Both tasks get scheduled. *)
FairSpec == Spec /\ WF_vars(Register) /\ WF_vars(ReceiveSignal) /\ WF_vars(Write)

-----------------------------------------------------------------------------
(* Properties. *)

Commands == 0 .. appended

Written == {log[i].entry : i \in 1 .. Len(log)}

TypeOK ==
  /\ alive \in BOOLEAN /\ registered \in BOOLEAN /\ pending \in BOOLEAN
  /\ refused \in BOOLEAN
  /\ appended \in Nat
  /\ queue \in Seq(Commands)
  /\ files \in Nat /\ path \in 0 .. files /\ writer \in 1 .. files
  /\ log \in Seq([file : 1 .. files, entry : 1 .. appended])
  /\ lost \subseteq 1 .. appended
  /\ ~alive => ~registered /\ queue = << >>
  /\ pending => registered

(* "Logs are serialized in the order they are received by the writer       *)
(* task": over all the files together, through rotations, failed reopens   *)
(* and restarts, entries are in the order in which they were appended.     *)
LogInOrder ==
  \A i, j \in 1 .. Len(log) :
    i < j => log[i].entry < log[j].entry /\ log[i].file <= log[j].file

(* An entry is in exactly one place: written, on its way, or lost to a     *)
(* failed write or to the end of the process.  Rotation loses none.        *)
NothingVanishes ==
  /\ 1 .. appended = Written \cup Queued \cup lost
  /\ Written \cap Queued = {} /\ Written \cap lost = {} /\ Queued \cap lost = {}

(* After a signal the writer gets to the file that has the configured      *)
(* name, however often logrotate came before, however many entries are     *)
(* queued and whatever became of earlier signals; or an attempt that it    *)
(* made since the signal failed, or the process ends.                      *)
RotationTakesEffect == pending ~> (writer = path \/ refused \/ ~alive)

(* To whom it appends to, the log is one sequence of entries that only     *)
(* grows, at its end and in the order of appending; no rename, signal,     *)
(* reopen or restart is to be seen in it.  See LogPromise.                 *)
Kept == [i \in 1 .. Len(log) |-> log[i].entry]

Promise == INSTANCE LogPromise WITH accepted <- appended, open <- Queued, kept <- Kept

PromiseKept == Promise!Spec

(* No entry stays in the channel for good, whatever fails meanwhile and    *)
(* however often somebody signals.                                         *)
EntriesSettle == \A n \in 1 .. MaxEntries : n \in Queued ~> n \notin Queued

(* The inductive invariant behind the first two.  The writer never goes    *)
(* back to an older file, and the channel holds, in order, entries newer   *)
(* than everything written.                                                *)
DiskInv == writer = files /\ path \in {0, files}

QueueInv ==
  \A j \in 1 .. Len(queue) : queue[j] # Reopen =>
    /\ \A i \in 1 .. Len(log) : log[i].entry < queue[j]
    /\ \A k \in 1 .. Len(queue) : (k < j /\ queue[k] # Reopen) => queue[k] < queue[j]

IInv ==
  /\ TypeOK
  /\ DiskInv
  /\ QueueInv
  /\ LogInOrder
  /\ NothingVanishes
=============================================================================
