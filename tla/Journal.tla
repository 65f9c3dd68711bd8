------------------------------- MODULE Journal -------------------------------
(***************************************************************************)
(* The Unified Journal: one file of JSON lines, active.jsonl, that the     *)
(* FA3 OS runtime (src/src/fa3_os_runtime.py, fa3_os_context_policy.py)    *)
(* and the Control Center (apps/fa3-control-center/src/JournalService.cpp) *)
(* append to, read, and, in the Control Center, rotate into archives.      *)
(*                                                                         *)
(* An OS process appends in two steps: it opens the file and then writes   *)
(* its line under flock, which the Control Center does not take.  What it  *)
(* opened may have been replaced in between (QSaveFile renames an empty    *)
(* file over the log).  A reader opens the file and reads all its lines at *)
(* once; it skips a line that does not parse.  A write may end in the      *)
(* middle (disk full, host lost): the log then has a torn last line, and   *)
(* the next line is appended to it, so that neither parses.                *)
(*                                                                         *)
(* At first there is no log.  An OS process creates it in the call that    *)
(* opens it; the Control Center looks for it first and then creates an     *)
(* empty file, whatever has been put there in between.                     *)
(*                                                                         *)
(* There is one Control Center, and its service runs in one thread; it may *)
(* die between any two steps.  A log is the set of its lines: their order  *)
(* is not in the model, and neither is the text of an event.               *)
(***************************************************************************)
EXTENDS Naturals

CONSTANTS Processes,  \* processes of the FA3 OS runtime
          Archives,   \* names of archive files
          MaxId,      \* bound: events written, all kinds
          DiskFills   \* whether a write may fail for want of space

ASSUME JournalAssumption == MaxId \in Nat /\ DiskFills \in BOOLEAN /\ 0 \notin Archives

VARIABLES active,     \* the log: which file (None while there is none, later one
                      \* more for each rotation), lines, torn tail
          archive,    \* archive[a]: the lines of the file and where it is
          gui,        \* the Control Center: what it is doing and its locals
          process,    \* the processes of the OS runtime, with their locals
          next,       \* the next unused event id
          acked,      \* ids of lines whose append was reported as done (history)
          erased,     \* ids whose erasure by a process ("OS") or deletion in the
                      \* Control Center ("GUI") was reported as done (history)
          unsafe,     \* lines whose append met one of the conditions that Exposed,
                      \* WriteLog and AppendObject name (history)
          doubled,    \* ids that a rotation left both archived and active (history)
          cut         \* archives a restore of which was cut short by the end of
                      \* the Control Center (history)

journal == <<active, archive, acked, unsafe, next>>
vars == <<journal, gui, process, erased, doubled, cut>>

None == 0
Ids == 1..MaxId
Kinds == {"OS", "GUI", "AUDIT", "TOMBSTONE"}
Targets == Ids \cup Archives \cup {None}
Line == [id : Ids, kind : Kinds, target : Targets, from : Archives \cup {None}]

\* An event recorded for the first time.  A tombstone names the event it hides, the
\* audit of a restore the archive.
Fresh(kind, target) ==
  [id |-> next, kind |-> kind, target |-> target, from |-> None]

IdsOf(lines) == {l.id : l \in lines}

\* tombstoned_event_ids, and the set "tombstoned" of JournalService::refresh
Tombstoned(lines) == {l.target : l \in {t \in lines : t.kind = "TOMBSTONE"}}

\* A retrieval that reads the log as it is.
MutEffective(lines, hidden) == {l \in lines : l.kind = "OS"}

\* What effective_events and extract_enrichment leave of the log.
Effective(lines, hidden) == {l \in lines : l.kind = "OS" /\ l.id \notin hidden}

\* Every line that the log or an archive (retention trash included) still has.
Kept == active.lines \cup UNION {archive[a].lines : a \in Archives}

NoLine == [id |-> None, kind |-> "none", target |-> None, from |-> None]
NoProcess == [op |-> "none", at |-> "idle", hidden |-> {}, rows |-> {}, left |-> {},
              line |-> NoLine, file |-> None, before |-> {}]
Process == [op : {"none", "ingest", "erase", "retrieve"}, at : {"idle", "read", "open", "write"},
            hidden : SUBSET Targets, rows : SUBSET Line, left : SUBSET Ids,
            line : Line \cup {NoLine}, file : Nat, before : SUBSET ({"OS", "GUI"} \X Ids)]
NoGui == [at |-> "idle", lines |-> {}, archive |-> None]

Init ==
  /\ active = [file |-> None, lines |-> {}, torn |-> FALSE]
  /\ archive = [a \in Archives |-> [place |-> "none", lines |-> {}]]
  /\ gui = NoGui
  /\ process = [p \in Processes |-> NoProcess]
  /\ next = 1
  /\ acked = {}
  /\ erased = {}
  /\ unsafe = {}
  /\ doubled = {}
  /\ cut = {}

-----------------------------------------------------------------------------
(* Writing to the log                                                      *)

\* A line written in full to the current file.
Written(l) ==
  IF active.torn THEN [active EXCEPT !.torn = FALSE]
                 ELSE [active EXCEPT !.lines = @ \cup {l}]

\* A line after a torn tail is garbled; one that arrives after createArchive has
\* read the log and before it has replaced it is in neither file; and one that
\* arrives after ensureLayout has found no log is truncated away when it makes one.
Exposed == active.torn \/ gui.at \in {"seal", "rotate", "create"}

Append(l) ==
  /\ active' = Written(l)
  /\ unsafe' = IF Exposed THEN unsafe \cup {l} ELSE unsafe

\* JournalService::appendObject, ensureLayout having found a log.  QFile::write puts
\* the line into its buffer and returns its size; what close writes of it later goes
\* unreported.
AppendObject(l) ==
  /\ active.file # None
  /\ next \in Ids
  /\ next' = next + 1
  /\ acked' = acked \cup {l.id}
  /\ \/ Append(l)
     \/ /\ DiskFills
        /\ active' \in {active, [active EXCEPT !.torn = TRUE]}
        /\ unsafe' = unsafe \cup {l}

-----------------------------------------------------------------------------
(* The processes of the OS runtime                                         *)

Idle(p) == process[p].at = "idle"

\* ingest_event, up to the call of append_journal_event
Ingest(p) ==
  /\ Idle(p)
  /\ process' = [process EXCEPT ![p] = [NoProcess EXCEPT !.op = "ingest", !.at = "open"]]
  /\ UNCHANGED <<journal, gui, erased, doubled, cut>>

\* selective_erase and authorized_retrieve (or scoped_retrieve_events): the first
\* of the two readings that effective_events makes.
ReadTombstones(p, op) ==
  /\ Idle(p)
  /\ process' = [process EXCEPT ![p] =
                   [NoProcess EXCEPT !.op = op, !.at = "read", !.before = erased,
                                     !.hidden = Tombstoned(active.lines)]]
  /\ UNCHANGED <<journal, gui, erased, doubled, cut>>

\* The second reading.  The scope of an erasure selects any of the events; a
\* retrieval is modelled by its widest answer.
ReadEvents(p) ==
  LET found == Effective(active.lines, process[p].hidden)
      \* what a completed reading leaves to be appended
      With(rows) == [process[p] EXCEPT !.at = "open", !.rows = rows, !.hidden = {},
                       !.left = IF process[p].op = "erase" THEN IdsOf(rows) ELSE {}]
  IN  /\ process[p].at = "read"
      /\ \/ /\ process[p].op = "erase"
            /\ \E rows \in SUBSET found :
                 process' = [process EXCEPT ![p] =
                               IF rows = {} THEN NoProcess ELSE With(rows)]
         \/ /\ process[p].op = "retrieve"
            /\ process' = [process EXCEPT ![p] = With(found)]
      /\ UNCHANGED <<journal, gui, erased, doubled, cut>>

\* What append_journal_event is called with: the event, the audit of the retrieval,
\* or one tombstone after the other.
Pending(p) ==
  CASE process[p].op = "ingest"   -> {Fresh("OS", None)}
    [] process[p].op = "retrieve" -> {Fresh("AUDIT", None)}
    [] process[p].op = "erase"    -> {Fresh("TOMBSTONE", t) : t \in process[p].left}

\* append_journal_event: os.open with O_CREAT
OpenLog(p) ==
  /\ process[p].at = "open"
  /\ next \in Ids
  /\ next' = next + 1
  /\ active' = [active EXCEPT !.file = IF @ = None THEN 1 ELSE @]
  /\ \E l \in Pending(p) :
       process' = [process EXCEPT ![p].at = "write", ![p].line = l,
                                  ![p].file = active'.file, ![p].before = {},
                                  ![p].rows = IF process[p].op = "erase" THEN @ ELSE {}]
  /\ UNCHANGED <<archive, gui, acked, erased, unsafe, doubled, cut>>

\* The caller goes on after a line: the next tombstone, or the end of the call.
Continued(p) ==
  LET left == process[p].left \ {process[p].line.target}
  IN  IF left = {} THEN NoProcess
      ELSE [process[p] EXCEPT !.at = "open", !.left = left, !.line = NoLine, !.file = None]

ErasedAfter(p) ==
  IF process[p].op = "erase" /\ process[p].left = {process[p].line.target}
  THEN erased \cup {"OS"} \X IdsOf(process[p].rows) ELSE erased

\* append_journal_event: flock, write, flush, fsync.  A file that was replaced since
\* it was opened takes the line as well, and nobody will read it.
OnCurrentFile(p) == process[p].file = active.file

WriteLog(p) ==
  /\ process[p].at = "write"
  /\ IF OnCurrentFile(p)
     THEN Append(process[p].line)
     ELSE /\ unsafe' = unsafe \cup {process[p].line}
          /\ UNCHANGED active
  /\ acked' = acked \cup {process[p].line.id}
  /\ erased' = ErasedAfter(p)
  /\ process' = [process EXCEPT ![p] = Continued(p)]
  /\ UNCHANGED <<archive, gui, next, doubled, cut>>

\* The write fails, before, in the middle of or, in fsync, after the line, and the
\* call raises.
WriteFails(p) ==
  /\ DiskFills
  /\ process[p].at = "write"
  /\ \/ UNCHANGED <<active, unsafe>>
     \/ OnCurrentFile(p) /\ active' = [active EXCEPT !.torn = TRUE] /\ UNCHANGED unsafe
     \/ OnCurrentFile(p) /\ Append(process[p].line)
  /\ process' = [process EXCEPT ![p] = NoProcess]
  /\ UNCHANGED <<archive, gui, next, acked, erased, doubled, cut>>

\* A process is killed, or its caller gives up.
Die(p) ==
  /\ ~Idle(p)
  /\ process' = [process EXCEPT ![p] = NoProcess]
  /\ UNCHANGED <<journal, gui, erased, doubled, cut>>

-----------------------------------------------------------------------------
(* The Control Center                                                      *)

GuiIdle == gui.at = "idle"

\* ensureLayout, which every refresh, append and archiving begins with, finds no log
EnsureLayout ==
  /\ GuiIdle
  /\ active.file = None
  /\ gui' = [NoGui EXCEPT !.at = "create"]
  /\ UNCHANGED <<journal, process, erased, doubled, cut>>

\* ... and opens the file for writing, which truncates one that is there by now.
CreateLog ==
  /\ gui.at = "create"
  /\ active' = [file |-> 1, lines |-> {}, torn |-> FALSE]
  /\ gui' = NoGui
  /\ UNCHANGED <<archive, process, next, acked, erased, unsafe, doubled, cut>>

RecordEvent ==
  /\ GuiIdle
  /\ AppendObject(Fresh("GUI", None))
  /\ UNCHANGED <<archive, gui, process, erased, doubled, cut>>

\* The id comes from the list of events as the last refresh showed it.  Only the
\* Control Center takes lines out of the log, and refreshes then: what it shows is
\* in the log, if perhaps hidden by a tombstone since.
SoftDeleteEvent(id) ==
  /\ GuiIdle
  /\ id \in IdsOf(active.lines)
  /\ AppendObject(Fresh("TOMBSTONE", id))
  /\ erased' = erased \cup {<<"GUI", id>>}
  /\ UNCHANGED <<archive, gui, process, doubled, cut>>

\* archiveAll and archiveByPolicy read the log and call createArchive, which gives
\* up on an empty one.  The policy only decides whether a rotation is due.
CreateArchive ==
  /\ GuiIdle
  /\ active.lines # {}
  /\ gui' = [NoGui EXCEPT !.at = "seal", !.lines = active.lines]
  /\ UNCHANGED <<journal, process, erased, doubled, cut>>

SealArchive(a) ==
  /\ gui.at = "seal"
  /\ archive[a].place = "none"
  /\ archive' = [archive EXCEPT ![a] = [place |-> "sealed", lines |-> gui.lines]]
  /\ gui' = [gui EXCEPT !.at = "rotate", !.archive = a]
  /\ UNCHANGED <<active, process, next, acked, erased, unsafe, doubled, cut>>

\* The result of archive.commit is not looked at.
MutSealFails ==
  /\ gui.at = "seal"
  /\ gui' = [gui EXCEPT !.at = "rotate"]
  /\ UNCHANGED <<journal, process, erased, doubled, cut>>

\* The archive is not written.
SealFails ==
  /\ gui.at = "seal"
  /\ gui' = NoGui
  /\ UNCHANGED <<journal, process, erased, doubled, cut>>

\* createArchive is called without clearActive.
MutRotateActive ==
  /\ gui.at = "rotate"
  /\ gui' = NoGui
  /\ UNCHANGED <<journal, process, erased, doubled, cut>>

\* An empty file is renamed over the log.
RotateActive ==
  /\ gui.at = "rotate"
  /\ active' = [file |-> active.file + 1, lines |-> {}, torn |-> FALSE]
  /\ gui' = NoGui
  /\ UNCHANGED <<archive, process, next, acked, erased, unsafe, doubled, cut>>

RotationFails ==
  /\ gui.at = "rotate"
  /\ gui' = NoGui
  /\ doubled' = doubled \cup IdsOf(gui.lines)
  /\ UNCHANGED <<journal, process, erased, cut>>

\* restoreArchive, the digest having been verified
RestoreArchive(a) ==
  /\ GuiIdle
  /\ archive[a].place = "sealed"
  /\ gui' = [at |-> "restore", lines |-> archive[a].lines, archive |-> a]
  /\ UNCHANGED <<journal, process, erased, doubled, cut>>

RestoreEvent ==
  /\ gui.at = "restore"
  /\ \E l \in gui.lines :
       /\ AppendObject([l EXCEPT !.id = next, !.from = gui.archive])
       /\ gui' = [gui EXCEPT !.lines = @ \ {l}]
  /\ UNCHANGED <<archive, process, erased, doubled, cut>>

\* The audit names no archive, as that of a retirement.
MutRestoreAudit == Fresh("GUI", None)

\* The audit event; its result is ignored.
RestoreAudit == Fresh("GUI", gui.archive)

RestoreDone ==
  /\ gui.at = "restore"
  /\ gui.lines = {}
  /\ AppendObject(RestoreAudit)
  /\ gui' = NoGui
  /\ UNCHANGED <<archive, process, erased, doubled, cut>>

\* retireArchive: the file is moved to the retention trash, and that is recorded.
RetireArchive(a) ==
  /\ GuiIdle
  /\ archive[a].place = "sealed"
  /\ archive' = [archive EXCEPT ![a].place = "retired"]
  /\ gui' = [NoGui EXCEPT !.at = "retired", !.archive = a]
  /\ UNCHANGED <<active, process, next, acked, erased, unsafe, doubled, cut>>

RetireRecorded ==
  /\ gui.at = "retired"
  /\ AppendObject(Fresh("GUI", None))
  /\ gui' = NoGui
  /\ UNCHANGED <<archive, process, erased, doubled, cut>>

\* The Control Center dies in the middle of an operation and is started again.
GuiRestarts ==
  /\ ~GuiIdle
  /\ gui' = NoGui
  /\ doubled' = IF gui.at = "rotate" THEN doubled \cup IdsOf(gui.lines) ELSE doubled
  /\ cut' = IF gui.at = "restore" THEN cut \cup {gui.archive} ELSE cut
  /\ UNCHANGED <<journal, process, erased>>

ProcessStep(p) ==
  \/ Ingest(p) \/ ReadTombstones(p, "erase") \/ ReadTombstones(p, "retrieve")
  \/ ReadEvents(p) \/ OpenLog(p) \/ WriteLog(p) \/ WriteFails(p) \/ Die(p)

ArchiveStep(a) == SealArchive(a) \/ RestoreArchive(a) \/ RetireArchive(a)

Next ==
  \/ \E p \in Processes : ProcessStep(p)
  \/ \E a \in Archives : ArchiveStep(a)
  \/ \E id \in Ids : SoftDeleteEvent(id)
  \/ EnsureLayout \/ CreateLog
  \/ RecordEvent \/ CreateArchive \/ SealFails \/ RotateActive \/ RotationFails
  \/ RestoreEvent \/ RestoreDone \/ RetireRecorded \/ GuiRestarts

Spec == Init /\ [][Next]_vars

-----------------------------------------------------------------------------
(* Properties                                                              *)

\* Every variable has its type; who writes has opened a file and has a line, and a
\* rotation is under way exactly while its archive is named.
TypeOK ==
  /\ active \in [file : Nat, lines : SUBSET Line, torn : BOOLEAN]
  /\ archive \in [Archives -> [place : {"none", "sealed", "retired"}, lines : SUBSET Line]]
  /\ gui \in [at : {"idle", "create", "seal", "rotate", "restore", "retired"},
             lines : SUBSET Line, archive : Archives \cup {None}]
  /\ gui.archive \in Archives <=> gui.at \in {"rotate", "restore", "retired"}
  /\ process \in [Processes -> Process]
  /\ \A p \in Processes : /\ process[p].line # NoLine <=> process[p].at = "write"
                          /\ process[p].file # None <=> process[p].at = "write"
  /\ next \in 1..(MaxId + 1)
  /\ acked \subseteq Ids /\ unsafe \subseteq Line /\ cut \subseteq Archives
  /\ erased \subseteq {"OS", "GUI"} \X Ids /\ doubled \subseteq Ids

\* An event whose append was reported as done is in the log, in an archive or in the
\* retention trash, whatever is rotated, restored or killed; but for one that met a
\* rotation, the first creation of the log by the Control Center, a torn last line
\* or a full disk (append_journal_event, createArchive, ensureLayout).
AcknowledgedIsKept == acked \subseteq IdsOf(Kept \cup unsafe)

\* A retrieval that began after an event was erased or deleted does not return that
\* event, however the two readings of effective_events, the writing of several
\* tombstones, rotations and restores interleave; unless the tombstone itself was
\* lost in one of the four ways.
ErasedIsHidden ==
  \A p \in Processes : process[p].op = "retrieve" =>
    \A l \in process[p].rows, by \in {"OS", "GUI"} : <<by, l.id>> \in process[p].before =>
      \E t \in unsafe : t.kind = "TOMBSTONE" /\ t.target = l.id

\* An event is in one file only: the log, or one archive.  The exceptions are a
\* rotation between its two renames, and events that a rotation which failed or was
\* cut short there left in both.
OnePlace ==
  \A id \in Ids :
    \/ id \in doubled
    \/ gui.at = "rotate" /\ id \in IdsOf(gui.lines)
    \/ \A a, b \in Archives :
         /\ id \in IdsOf(archive[a].lines) \cap IdsOf(archive[b].lines) => a = b
         /\ id \notin IdsOf(active.lines) \cap IdsOf(archive[a].lines)

\* Restored events in the log come with the audit event of their restore, unless it
\* is still running, was cut short, or lost that event to a full disk
\* (restoreArchive ignores the result of recordEvent).
RestoresAreAudited ==
  \A l \in active.lines : l.from # None =>
    \/ \E k \in Kept \cup unsafe : k.kind = "GUI" /\ k.target = l.from
    \/ gui.at = "restore" /\ gui.archive = l.from
    \/ l.from \in cut
=============================================================================
