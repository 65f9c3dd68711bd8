--------------------------- MODULE JournalProofs ---------------------------
(***************************************************************************)
(* The safety properties of Journal, for any number of processes, archives *)
(* and events, on any disk.                                                *)
(*                                                                         *)
(* Two facts carry the proof.  A line is added to the log under an id that *)
(* nothing else has (FreshIds), so that a log which lost an event by a     *)
(* rotation never gets it back under that id; and whoever erased an event  *)
(* has either hidden it, or the event is not in the log (AllCovered).      *)
(***************************************************************************)
EXTENDS Journal, TLAPS

\* A tombstone of the event is among the lines.
TombIn(lines, id) == \E t \in lines : t.kind = "TOMBSTONE" /\ t.target = id

\* A reading that begins now cannot return the event, or its tombstone was lost.
Covered(id) == TombIn(unsafe \cup active.lines, id) \/ id \notin IdsOf(active.lines)

IsTaken(id) ==
  \/ id \in IdsOf(active.lines)
  \/ \E a \in Archives : id \in IdsOf(archive[a].lines)
  \/ \E by \in {"OS", "GUI"} : <<by, id>> \in erased
  \/ \E p \in Processes : id \in IdsOf(process[p].rows)

Writing(p) == process[p].at = "write"

\* What a call keeps in its locals between its steps.
Locals ==
  \A p \in Processes :
    /\ process[p].at = "read" => process[p].op \in {"erase", "retrieve"}
    /\ process[p].at \in {"open", "write"} => process[p].op # "none"
    /\ process[p].at \in {"idle", "read"} => process[p].rows = {}
    /\ process[p].before \subseteq erased
    /\ process[p].left \subseteq IdsOf(process[p].rows)
    /\ process[p].op # "erase" => process[p].left = {}
    /\ process[p].op = "erase" /\ Writing(p) =>
         process[p].line.kind = "TOMBSTONE" /\ process[p].line.target \in process[p].left
    /\ process[p].line.from = None

FreshIds ==
  /\ \A id \in Ids : IsTaken(id) => id < next
  /\ \A p \in Processes : Writing(p) =>
       /\ process[p].line.id < next
       /\ ~IsTaken(process[p].line.id)
       /\ \A q \in Processes : Writing(q) /\ process[q].line.id = process[p].line.id => p = q

\* Where the lines are while the log is created or an archive is made of it.
Rotating ==
  /\ \A a \in Archives : archive[a].place = "none" => archive[a].lines = {}
  /\ active.file = None => active.lines = {}
  /\ gui.at = "create" => active.lines \subseteq unsafe
  /\ gui.at = "seal" => gui.lines \subseteq active.lines
  /\ gui.at \in {"seal", "rotate"} => active.lines \subseteq gui.lines \cup unsafe
  /\ gui.at = "rotate" =>
       /\ archive[gui.archive].lines = gui.lines
       /\ \A id \in IdsOf(gui.lines) \ doubled, b \in Archives :
            id \in IdsOf(archive[b].lines) => b = gui.archive

AllCovered ==
  /\ \A id \in Ids, by \in {"OS", "GUI"} : <<by, id>> \in erased => Covered(id)
  /\ \A p \in Processes : process[p].op = "erase" =>
       \A id \in IdsOf(process[p].rows) \ process[p].left : Covered(id)
  /\ \A p \in Processes : process[p].op = "retrieve" /\ process[p].at = "read" =>
       \A id \in Ids, by \in {"OS", "GUI"} : <<by, id>> \in process[p].before =>
         \/ id \in process[p].hidden \/ TombIn(unsafe, id)
         \/ id \notin IdsOf(active.lines)

JournalInv ==
  /\ TypeOK /\ Locals /\ FreshIds /\ Rotating /\ AllCovered
  /\ AcknowledgedIsKept /\ ErasedIsHidden /\ OnePlace /\ RestoresAreAudited

-----------------------------------------------------------------------------
(* One line at the end of the log                                          *)

\* At most the line l is added to the log, and what the log lost is unsafe.
Grown(l) ==
  /\ active' \in [file : Nat, lines : SUBSET Line, torn : BOOLEAN]
  /\ active.lines \subseteq active'.lines /\ active'.lines \subseteq active.lines \cup {l}
  /\ unsafe \subseteq unsafe' /\ unsafe' \subseteq unsafe \cup {l}
  /\ active'.file = active.file /\ (active.file = None => UNCHANGED active.lines)
  /\ gui.at \in {"seal", "rotate", "create"} =>
       active'.lines \subseteq active.lines \cup unsafe'

\* The line is there, or is known to be lost.
Landed(l) == l \in active'.lines \cup unsafe'

LEMMA FreshLine ==
  ASSUME TypeOK, next \in Ids, NEW kind \in Kinds, NEW target \in Targets
  PROVE  /\ Fresh(kind, target) \in Line /\ Fresh(kind, target).id = next
         /\ Fresh(kind, target).kind = kind /\ Fresh(kind, target).target = target
         /\ Fresh(kind, target).from = None
BY DEF Fresh, Line

LEMMA AppendGrows ==
  ASSUME TypeOK, NEW l \in Line, Append(l), active.file # None
  PROVE  Grown(l) /\ Landed(l)
BY DEF TypeOK, Append, Written, Exposed, Grown, Landed

LEMMA AppendObjectGrows ==
  ASSUME TypeOK, NEW l \in Line, AppendObject(l)
  PROVE  Grown(l) /\ Landed(l)
<1>1. CASE Append(l)  BY <1>1, AppendGrows DEF AppendObject
<1>2. CASE ~Append(l)  BY <1>2 DEF AppendObject, TypeOK, Grown, Landed
<1> QED  BY <1>1, <1>2

LEMMA WriteGrows ==
  ASSUME TypeOK, NEW p \in Processes, WriteLog(p)
  PROVE  process[p].line \in Line /\ Grown(process[p].line) /\ Landed(process[p].line)
<1>1. process[p].line \in Line  BY DEF WriteLog, TypeOK, Process
<1>2. CASE OnCurrentFile(p)
  <2>1. active.file # None  BY <1>2 DEF WriteLog, OnCurrentFile, TypeOK
  <2> QED  BY <1>1, <1>2, <2>1, AppendGrows DEF WriteLog
<1>3. CASE ~OnCurrentFile(p)  BY <1>1, <1>3 DEF WriteLog, TypeOK, Grown, Landed
<1> QED  BY <1>1, <1>2, <1>3

LEMMA WriteFailsGrows ==
  ASSUME TypeOK, NEW p \in Processes, WriteFails(p)
  PROVE  process[p].line \in Line /\ Grown(process[p].line)
<1>1. process[p].line \in Line  BY DEF WriteFails, TypeOK, Process
<1>2. CASE OnCurrentFile(p) /\ Append(process[p].line)
  <2>1. active.file # None  BY <1>2 DEF WriteFails, OnCurrentFile, TypeOK
  <2> QED  BY <1>1, <1>2, <2>1, AppendGrows
<1>3. CASE ~(OnCurrentFile(p) /\ Append(process[p].line))
  BY <1>1, <1>3 DEF WriteFails, TypeOK, Grown
<1> QED  BY <1>1, <1>2, <1>3

-----------------------------------------------------------------------------
(* What such a line, or none, leaves as it was                             *)

\* Nothing that was kept, or known to be lost, is forgotten.
LEMMA KeptGrows ==
  ASSUME TypeOK, NEW l, Grown(l), UNCHANGED archive
  PROVE  Kept \cup unsafe \subseteq Kept' \cup unsafe'
BY DEF Grown, Kept, TypeOK

\* A line under another id does not uncover an event.
LEMMA CoveredStays ==
  ASSUME TypeOK, NEW id, NEW l, Grown(l), l.id # id
  PROVE  /\ Covered(id) => Covered(id)'
         /\ id \notin IdsOf(active.lines) => id \notin IdsOf(active'.lines)
         /\ TombIn(unsafe, id) => TombIn(unsafe', id)
BY DEF Grown, Covered, TombIn, IdsOf, TypeOK

\* The audit of a restore is not lost either.
LEMMA AuditsStay ==
  ASSUME JournalInv, NEW l \in Line, Grown(l), UNCHANGED archive, cut \subseteq cut',
         gui.at = "restore" => \/ gui'.at = "restore" /\ gui'.archive = gui.archive
                               \/ gui.archive \in cut'
                               \/ l.kind = "GUI" /\ l.target = gui.archive /\ Landed(l),
         l.from # None => gui'.at = "restore" /\ gui'.archive = l.from
  PROVE  RestoresAreAudited'
<1> SUFFICES ASSUME NEW k \in active'.lines, k.from # None
             PROVE  \/ \E a \in Kept' \cup unsafe' : a.kind = "GUI" /\ a.target = k.from
                    \/ gui'.at = "restore" /\ gui'.archive = k.from
                    \/ k.from \in cut'
  BY DEF RestoresAreAudited
<1>1. Kept \cup unsafe \subseteq Kept' \cup unsafe'  BY KeptGrows DEF JournalInv
<1>2. CASE k = l  BY <1>2
<1>3. CASE k # l
  <2>1. k \in active.lines  BY <1>3 DEF Grown
  <2>2. CASE \E a \in Kept \cup unsafe : a.kind = "GUI" /\ a.target = k.from
    BY <1>1, <2>2
  <2>3. CASE gui.at = "restore" /\ gui.archive = k.from
    <3>1. active'.lines \subseteq Kept'  BY DEF Kept
    <3> QED  BY <2>3, <3>1 DEF Landed
  <2>4. CASE k.from \in cut  BY <2>4
  <2> QED  BY <2>1, <2>2, <2>3, <2>4 DEF JournalInv, RestoresAreAudited
<1> QED  BY <1>2, <1>3

\* A new line disturbs no event that is in one place.
LEMMA OnePlaceStays ==
  ASSUME JournalInv, NEW l \in Line, Grown(l), ~IsTaken(l.id),
         UNCHANGED <<archive, doubled>>, gui.at # "rotate" \/ UNCHANGED gui
  PROVE  OnePlace'
<1> SUFFICES ASSUME NEW id \in Ids
             PROVE  \/ id \in doubled
                    \/ gui.at = "rotate" /\ gui'.at = "rotate" /\ id \in IdsOf(gui'.lines)
                    \/ \A a, b \in Archives :
                         /\ id \in IdsOf(archive[a].lines) \cap IdsOf(archive[b].lines) => a = b
                         /\ id \notin IdsOf(active'.lines) \cap IdsOf(archive[a].lines)
  BY DEF OnePlace, IdsOf
<1>1. \/ id \in doubled
      \/ gui.at = "rotate" /\ id \in IdsOf(gui.lines)
      \/ \A a, b \in Archives :
           /\ id \in IdsOf(archive[a].lines) \cap IdsOf(archive[b].lines) => a = b
           /\ id \notin IdsOf(active.lines) \cap IdsOf(archive[a].lines)
  BY DEF JournalInv, OnePlace
<1>2. CASE id = l.id
  BY <1>2 DEF IsTaken
<1>3. CASE id # l.id
  <2>1. id \in IdsOf(active'.lines) => id \in IdsOf(active.lines)
    BY <1>3 DEF Grown, IdsOf
  <2> QED  BY <1>1, <2>1
<1> QED  BY <1>2, <1>3

\* A retrieval that has its rows keeps what excuses them.
LEMMA HiddenStays ==
  ASSUME JournalInv, unsafe \subseteq unsafe', UNCHANGED process
  PROVE  ErasedIsHidden'
BY DEF JournalInv, ErasedIsHidden

\* Whoever erased, erases or reads goes on as if the line were not there.
LEMMA CoverageStays ==
  ASSUME JournalInv, NEW l \in Line, Grown(l), ~IsTaken(l.id),
         UNCHANGED process,
         \A id \in Ids, by \in {"OS", "GUI"} :
           <<by, id>> \in erased' => <<by, id>> \in erased \/ Covered(id)'
  PROVE  AllCovered'
<1>1. \A id \in Ids : IsTaken(id) =>
        /\ Covered(id) => Covered(id)'
        /\ id \notin IdsOf(active.lines) => id \notin IdsOf(active'.lines)
        /\ TombIn(unsafe, id) => TombIn(unsafe', id)
  BY CoveredStays DEF JournalInv
<1>2. (\A id \in Ids, by \in {"OS", "GUI"} : <<by, id>> \in erased => Covered(id))'
  BY <1>1 DEF JournalInv, AllCovered, IsTaken
<1>3. ASSUME NEW p \in Processes, process[p].op = "erase",
             NEW id \in IdsOf(process[p].rows) \ process[p].left
      PROVE  Covered(id)'
  <2>1. id \in Ids  BY DEF JournalInv, TypeOK, Process, Line, IdsOf
  <2>2. IsTaken(id)  BY DEF IsTaken
  <2> QED  BY <1>1, <1>3, <2>1, <2>2 DEF JournalInv, AllCovered
<1>4. ASSUME NEW p \in Processes, process[p].op = "retrieve", process[p].at = "read",
             NEW id \in Ids, NEW by \in {"OS", "GUI"}, <<by, id>> \in process[p].before
      PROVE  \/ id \in process[p].hidden \/ TombIn(unsafe', id)
             \/ id \notin IdsOf(active'.lines)
  <2>1. IsTaken(id)  BY <1>4 DEF JournalInv, Locals, IsTaken
  <2> QED  BY <1>1, <1>4, <2>1 DEF JournalInv, AllCovered
<1> QED  BY <1>2, <1>3, <1>4 DEF AllCovered, TombIn

-----------------------------------------------------------------------------
(* The steps of the Control Center that append                             *)

LEMMA NextIsFresh ==
  ASSUME JournalInv, next \in Ids
  PROVE  ~IsTaken(next)
BY JournalAssumption DEF JournalInv, FreshIds, Ids

\* Everything but the types and the audits survives an appended line that has the
\* next id; an event it hides was in the log.
LEMMA AppendObjectKeeps ==
  ASSUME JournalInv, NEW l \in Line, l.id = next, AppendObject(l),
         UNCHANGED <<archive, process, doubled>>,
         {gui.at, gui'.at} \cap {"seal", "rotate", "create"} = {},
         \/ UNCHANGED erased
         \/ /\ l.kind = "TOMBSTONE" /\ l.target \in IdsOf(active.lines)
            /\ erased' = erased \cup {<<"GUI", l.target>>}
  PROVE  /\ Locals' /\ FreshIds' /\ Rotating' /\ AllCovered'
         /\ AcknowledgedIsKept' /\ ErasedIsHidden' /\ OnePlace'
<1>1. Grown(l) /\ Landed(l)  BY AppendObjectGrows DEF JournalInv
<1>2. next \in Ids /\ next' = next + 1 /\ acked' = acked \cup {l.id}  BY DEF AppendObject
<1>3. ~IsTaken(l.id)  BY <1>2, NextIsFresh
<1>4. IdsOf(active'.lines) \subseteq IdsOf(active.lines) \cup {next}  BY <1>1 DEF Grown, IdsOf
<1>5. Locals'
  BY DEF JournalInv, Locals, Writing
<1>6. FreshIds'
  <2>1. \A id \in Ids : IsTaken(id)' => IsTaken(id) \/ id = next
    BY <1>4 DEF IsTaken
  <2>2. \A id \in Ids : id < next => id < next + 1  BY <1>2 DEF Ids
  <2>3. next < next + 1  BY <1>2 DEF Ids
  <2>4. \A p \in Processes : Writing(p) => process[p].line.id \in Ids
    BY DEF JournalInv, TypeOK, Process, Line, Writing
  <2>5. (\A id \in Ids : IsTaken(id) => id < next)'
    BY <1>2, <2>1, <2>2, <2>3 DEF JournalInv, FreshIds
  <2>6. ASSUME NEW p \in Processes, Writing(p)
        PROVE  process[p].line.id < next' /\ ~IsTaken(process[p].line.id)'
    <3>1. process[p].line.id < next  BY <2>6 DEF JournalInv, FreshIds
    <3>2. process[p].line.id # next  BY <1>2, <2>4, <2>6, <3>1 DEF Ids
    <3> QED  BY <1>2, <2>1, <2>2, <2>4, <2>6, <3>1, <3>2 DEF JournalInv, FreshIds
  <2> QED  BY <2>5, <2>6 DEF JournalInv, FreshIds, Writing
<1>7. Rotating'
  BY <1>1 DEF JournalInv, Rotating, AppendObject, Grown
<1>8. AllCovered'
  <2>1. \/ UNCHANGED erased
        \/ Covered(l.target)' /\ erased' = erased \cup {<<"GUI", l.target>>}
    BY <1>1 DEF Landed, Covered, TombIn
  <2> QED  BY <1>1, <1>3, <2>1, CoverageStays
<1>9. AcknowledgedIsKept'
  <2>1. Kept \cup unsafe \subseteq Kept' \cup unsafe'  BY <1>1, KeptGrows DEF JournalInv
  <2>2. l \in Kept' \cup unsafe'  BY <1>1 DEF Landed, Kept
  <2> QED  BY <1>2, <2>1, <2>2 DEF JournalInv, AcknowledgedIsKept, IdsOf
<1>10. ErasedIsHidden'
  BY <1>1, HiddenStays DEF Grown
<1>11. OnePlace'
  BY <1>1, <1>3, OnePlaceStays
<1> QED  BY <1>5, <1>6, <1>7, <1>8, <1>9, <1>10, <1>11

LEMMA AppendObjectTypes ==
  ASSUME TypeOK, NEW l \in Line, l.id = next, AppendObject(l)
  PROVE  /\ active' \in [file : Nat, lines : SUBSET Line, torn : BOOLEAN]
         /\ next' \in 1..(MaxId + 1) /\ acked' \subseteq Ids /\ unsafe' \subseteq Line
<1>1. Grown(l)  BY AppendObjectGrows
<1>2. next \in Ids /\ next' = next + 1 /\ acked' = acked \cup {next}  BY DEF AppendObject
<1>3. next' \in 1..(MaxId + 1)  BY <1>2, JournalAssumption DEF Ids
<1> QED  BY <1>1, <1>2, <1>3 DEF TypeOK, Grown

LEMMA RecordEventKeeps ==
  ASSUME JournalInv, RecordEvent
  PROVE  JournalInv'
<1> DEFINE l == Fresh("GUI", None)
<1>1. AppendObject(l) /\ next \in Ids  BY DEF RecordEvent, AppendObject
<1>2. l \in Line /\ l.id = next /\ l.from = None  BY <1>1, FreshLine DEF JournalInv, Kinds, Targets
<1>3. Grown(l)  BY <1>1, <1>2, AppendObjectGrows DEF JournalInv
<1>4. TypeOK'
  BY <1>1, <1>2, AppendObjectTypes DEF RecordEvent, JournalInv, TypeOK
<1>5. RestoresAreAudited'
  <2>1. UNCHANGED archive /\ cut \subseteq cut' /\ gui.at # "restore"
    BY DEF RecordEvent, GuiIdle
  <2> HIDE DEF l
  <2> QED  BY <1>2, <1>3, <2>1, AuditsStay
<1>6. /\ Locals' /\ FreshIds' /\ Rotating' /\ AllCovered'
      /\ AcknowledgedIsKept' /\ ErasedIsHidden' /\ OnePlace'
  <2> HIDE DEF l
  <2> QED  BY <1>1, <1>2, AppendObjectKeeps DEF RecordEvent, GuiIdle
<1> QED  BY <1>4, <1>5, <1>6 DEF JournalInv

LEMMA SoftDeleteEventKeeps ==
  ASSUME JournalInv, NEW id \in Ids, SoftDeleteEvent(id)
  PROVE  JournalInv'
<1> DEFINE l == Fresh("TOMBSTONE", id)
<1>1. AppendObject(l) /\ next \in Ids  BY DEF SoftDeleteEvent, AppendObject
<1>2. l \in Line /\ l.id = next /\ l.from = None /\ l.kind = "TOMBSTONE" /\ l.target = id
  BY <1>1, FreshLine DEF JournalInv, Kinds, Targets
<1>3. Grown(l)  BY <1>1, <1>2, AppendObjectGrows DEF JournalInv
<1>4. TypeOK'
  BY <1>1, <1>2, AppendObjectTypes DEF SoftDeleteEvent, JournalInv, TypeOK
<1>5. RestoresAreAudited'
  <2>1. UNCHANGED archive /\ cut \subseteq cut' /\ gui.at # "restore"
    BY DEF SoftDeleteEvent, GuiIdle
  <2> HIDE DEF l
  <2> QED  BY <1>2, <1>3, <2>1, AuditsStay
<1>6. /\ Locals' /\ FreshIds' /\ Rotating' /\ AllCovered'
      /\ AcknowledgedIsKept' /\ ErasedIsHidden' /\ OnePlace'
  <2>1. /\ UNCHANGED <<archive, process, doubled, gui>> /\ gui.at = "idle"
        /\ erased' = erased \cup {<<"GUI", l.target>>} /\ l.target \in IdsOf(active.lines)
    BY <1>2 DEF SoftDeleteEvent, GuiIdle
  <2> HIDE DEF l
  <2> QED  BY <1>1, <1>2, <2>1, AppendObjectKeeps
<1> QED  BY <1>4, <1>5, <1>6 DEF JournalInv

\* The line of the archive comes back under the next id.
LEMMA RestoreEventKeeps ==
  ASSUME JournalInv, RestoreEvent
  PROVE  JournalInv'
<1>1. PICK k \in gui.lines : /\ AppendObject([k EXCEPT !.id = next, !.from = gui.archive])
                             /\ gui' = [gui EXCEPT !.lines = @ \ {k}]
  BY DEF RestoreEvent
<1> DEFINE l == [k EXCEPT !.id = next, !.from = gui.archive]
<1>2. next \in Ids  BY <1>1 DEF AppendObject
<1>3. /\ gui.at = "restore" /\ gui'.at = "restore" /\ gui'.archive = gui.archive
      /\ gui.archive \in Archives
      /\ gui' \in [at : {"restore"}, lines : SUBSET Line, archive : Archives]
  BY <1>1 DEF RestoreEvent, JournalInv, TypeOK
<1>4. l \in Line /\ l.id = next /\ l.from = gui.archive
  <2>1. k \in Line  BY DEF JournalInv, TypeOK
  <2> QED  BY <1>2, <1>3, <2>1 DEF Line
<1>a. AppendObject(l) /\ l \in Line /\ l.id = next  BY <1>1, <1>4
<1> HIDE DEF l
<1>5. Grown(l)  BY <1>a, AppendObjectGrows DEF JournalInv
<1>6. TypeOK'
  BY <1>a, <1>3, AppendObjectTypes DEF RestoreEvent, JournalInv, TypeOK
<1>7. RestoresAreAudited'
  <2>1. UNCHANGED archive /\ cut \subseteq cut'  BY DEF RestoreEvent
  <2> QED  BY <1>3, <1>4, <1>5, <2>1, AuditsStay
<1>8. /\ Locals' /\ FreshIds' /\ Rotating' /\ AllCovered'
      /\ AcknowledgedIsKept' /\ ErasedIsHidden' /\ OnePlace'
  <2>1. UNCHANGED <<archive, process, doubled, erased>>  BY DEF RestoreEvent
  <2> QED  BY <1>a, <1>3, <2>1, AppendObjectKeeps
<1> QED  BY <1>6, <1>7, <1>8 DEF JournalInv

LEMMA RestoreDoneKeeps ==
  ASSUME JournalInv, RestoreDone
  PROVE  JournalInv'
<1> DEFINE l == RestoreAudit
<1>1. AppendObject(l) /\ next \in Ids  BY DEF RestoreDone, AppendObject
<1>2. /\ gui.at = "restore" /\ gui.archive \in Archives /\ gui' = NoGui /\ gui'.at = "idle"
      /\ UNCHANGED <<archive, process, erased, doubled, cut>>
  BY DEF RestoreDone, JournalInv, TypeOK, NoGui
<1>3. l \in Line /\ l.id = next /\ l.from = None /\ l.kind = "GUI" /\ l.target = gui.archive
  BY <1>1, <1>2, FreshLine DEF RestoreAudit, JournalInv, Kinds, Targets
<1> HIDE DEF l
<1>4. Grown(l) /\ Landed(l)  BY <1>1, <1>3, AppendObjectGrows DEF JournalInv
<1>5. TypeOK'
  BY <1>1, <1>2, <1>3, AppendObjectTypes, JournalAssumption DEF NoGui, JournalInv, TypeOK, None
<1>6. RestoresAreAudited'
  BY <1>2, <1>3, <1>4, AuditsStay
<1>7. /\ Locals' /\ FreshIds' /\ Rotating' /\ AllCovered'
      /\ AcknowledgedIsKept' /\ ErasedIsHidden' /\ OnePlace'
  BY <1>1, <1>2, <1>3, AppendObjectKeeps
<1> QED  BY <1>5, <1>6, <1>7 DEF JournalInv

LEMMA RetireRecordedKeeps ==
  ASSUME JournalInv, RetireRecorded
  PROVE  JournalInv'
<1> DEFINE l == Fresh("GUI", None)
<1>1. AppendObject(l) /\ next \in Ids  BY DEF RetireRecorded, AppendObject
<1>2. l \in Line /\ l.id = next /\ l.from = None  BY <1>1, FreshLine DEF JournalInv, Kinds, Targets
<1> HIDE DEF l
<1>3. /\ gui.at = "retired" /\ gui' = NoGui /\ gui'.at = "idle"
      /\ UNCHANGED <<archive, process, erased, doubled, cut>>
  BY DEF RetireRecorded, NoGui
<1>4. Grown(l)  BY <1>1, <1>2, AppendObjectGrows DEF JournalInv
<1>5. TypeOK'
  BY <1>1, <1>2, <1>3, AppendObjectTypes, JournalAssumption DEF NoGui, JournalInv, TypeOK, None
<1>6. RestoresAreAudited'
  BY <1>2, <1>3, <1>4, AuditsStay
<1>7. /\ Locals' /\ FreshIds' /\ Rotating' /\ AllCovered'
      /\ AcknowledgedIsKept' /\ ErasedIsHidden' /\ OnePlace'
  BY <1>1, <1>2, <1>3, AppendObjectKeeps
<1> QED  BY <1>5, <1>6, <1>7 DEF JournalInv

-----------------------------------------------------------------------------
(* The steps of the Control Center that do not                             *)

\* The log, its ids and the processes are as they were.
LEMMA QuietKeeps ==
  ASSUME JournalInv, UNCHANGED <<active, next, acked, unsafe, process, erased>>,
         \A a \in Archives : archive'[a].lines = archive[a].lines
  PROVE  /\ Locals' /\ FreshIds' /\ AllCovered' /\ AcknowledgedIsKept' /\ ErasedIsHidden'
<1>1. Locals' /\ ErasedIsHidden'
  BY DEF JournalInv, Locals, ErasedIsHidden, Writing
<1>2. \A id \in Ids : IsTaken(id)' <=> IsTaken(id)
  BY DEF IsTaken
<1>3. FreshIds'
  <2>1. \A p \in Processes : Writing(p) => process[p].line.id \in Ids
    BY DEF JournalInv, TypeOK, Process, Line, Writing
  <2> QED  BY <1>2, <2>1 DEF JournalInv, FreshIds, Writing
<1>4. AllCovered'
  BY DEF JournalInv, AllCovered, Covered, TombIn
<1>5. AcknowledgedIsKept'
  BY DEF JournalInv, AcknowledgedIsKept, Kept
<1> QED  BY <1>1, <1>3, <1>4, <1>5

LEMMA CreateArchiveKeeps ==
  ASSUME JournalInv, CreateArchive
  PROVE  JournalInv'
<1>1. /\ gui' = [at |-> "seal", lines |-> active.lines, archive |-> None] /\ gui.at = "idle"
      /\ UNCHANGED <<journal, process, erased, doubled, cut>>
  BY DEF CreateArchive, NoGui, GuiIdle
<1>2. TypeOK'
  BY <1>1, JournalAssumption DEF journal, JournalInv, TypeOK, None
<1>3. Locals' /\ FreshIds' /\ AllCovered' /\ AcknowledgedIsKept' /\ ErasedIsHidden'
  BY <1>1, QuietKeeps DEF journal
<1>4. Rotating'
  BY <1>1 DEF journal, JournalInv, Rotating
<1>5. OnePlace' /\ RestoresAreAudited'
  BY <1>1 DEF journal, JournalInv, OnePlace, RestoresAreAudited, Kept
<1> QED  BY <1>2, <1>3, <1>4, <1>5 DEF JournalInv

LEMMA SealArchiveKeeps ==
  ASSUME JournalInv, NEW a \in Archives, SealArchive(a)
  PROVE  JournalInv'
<1>1. /\ gui.at = "seal" /\ archive[a].place = "none"
      /\ archive' = [archive EXCEPT ![a] = [place |-> "sealed", lines |-> gui.lines]]
      /\ gui' = [gui EXCEPT !.at = "rotate", !.archive = a]
      /\ UNCHANGED <<active, process, next, acked, erased, unsafe, doubled, cut>>
  BY DEF SealArchive
<1>2. /\ gui'.at = "rotate" /\ gui'.lines = gui.lines /\ gui'.archive = a
      /\ archive'[a].place = "sealed" /\ archive'[a].lines = gui.lines
      /\ \A b \in Archives \ {a} : archive'[b] = archive[b]
      /\ archive[a].lines = {}
      /\ gui.lines \subseteq active.lines
  BY <1>1 DEF JournalInv, TypeOK, Rotating
<1>3. TypeOK'
  BY <1>1 DEF JournalInv, TypeOK
<1>4. IdsOf(gui.lines) \subseteq IdsOf(active.lines)  BY <1>2 DEF IdsOf
<1>5. \A b \in Archives :
        IdsOf(archive'[b].lines) \subseteq IdsOf(archive[b].lines) \cup IdsOf(active.lines)
  BY <1>2, <1>4
<1>6. \A id \in Ids : IsTaken(id)' => IsTaken(id)
  BY <1>1, <1>5 DEF IsTaken
<1>7. Locals' /\ ErasedIsHidden' /\ AllCovered'
  BY <1>1 DEF JournalInv, Locals, ErasedIsHidden, AllCovered, Covered, TombIn, Writing
<1>8. FreshIds'
  <2>1. \A p \in Processes : Writing(p) => process[p].line.id \in Ids
    BY DEF JournalInv, TypeOK, Process, Line, Writing
  <2> QED  BY <1>1, <1>6, <2>1 DEF JournalInv, FreshIds, Writing
<1>9. Kept \subseteq Kept'
  BY <1>1, <1>2 DEF Kept
<1>10. AcknowledgedIsKept' /\ RestoresAreAudited'
  BY <1>1, <1>9 DEF JournalInv, AcknowledgedIsKept, RestoresAreAudited, IdsOf
<1>11. \A id \in IdsOf(gui.lines) \ doubled, b \in Archives : id \notin IdsOf(archive[b].lines)
  <2>1. \A id \in IdsOf(gui.lines) : id \in Ids  BY DEF JournalInv, TypeOK, Line, IdsOf
  <2> QED  BY <1>1, <1>4, <2>1 DEF JournalInv, OnePlace
<1>12. Rotating'
  BY <1>1, <1>2, <1>11 DEF JournalInv, Rotating
<1>13. OnePlace'
  <2> SUFFICES ASSUME NEW id \in Ids, id \notin doubled, id \notin IdsOf(gui.lines),
                      NEW b \in Archives, NEW c \in Archives
               PROVE  /\ id \in IdsOf(archive'[b].lines) \cap IdsOf(archive'[c].lines) => b = c
                      /\ id \notin IdsOf(active.lines) \cap IdsOf(archive'[b].lines)
    BY <1>1, <1>2 DEF OnePlace
  <2>1. id \notin IdsOf(archive'[a].lines)  BY <1>2
  <2> QED  BY <1>1, <1>2, <2>1 DEF JournalInv, OnePlace
<1> QED  BY <1>3, <1>7, <1>8, <1>10, <1>12, <1>13 DEF JournalInv

\* Of the archive that is to be made nothing, or a file that is doubled, is left.
LEMMA SealFailsKeeps ==
  ASSUME JournalInv, SealFails
  PROVE  JournalInv'
<1>1. /\ gui' = NoGui /\ gui'.at = "idle" /\ gui.at = "seal"
      /\ UNCHANGED <<journal, process, erased, doubled, cut>>
  BY DEF SealFails, NoGui
<1>2. TypeOK'
  BY <1>1, JournalAssumption DEF NoGui, journal, JournalInv, TypeOK, None
<1>3. Locals' /\ FreshIds' /\ AllCovered' /\ AcknowledgedIsKept' /\ ErasedIsHidden'
  BY <1>1, QuietKeeps DEF journal
<1>4. Rotating' /\ OnePlace' /\ RestoresAreAudited'
  BY <1>1 DEF journal, JournalInv, Rotating, OnePlace, RestoresAreAudited, Kept
<1> QED  BY <1>2, <1>3, <1>4 DEF JournalInv

LEMMA RotateActiveKeeps ==
  ASSUME JournalInv, RotateActive
  PROVE  JournalInv'
<1>1. /\ gui.at = "rotate" /\ gui' = NoGui /\ gui'.at = "idle"
      /\ active' = [file |-> active.file + 1, lines |-> {}, torn |-> FALSE]
      /\ UNCHANGED <<archive, process, next, acked, erased, unsafe, doubled, cut>>
  BY DEF RotateActive, NoGui
<1>2. active'.lines = {} /\ IdsOf(active'.lines) = {}  BY <1>1 DEF IdsOf
<1>3. /\ gui.archive \in Archives /\ archive[gui.archive].lines = gui.lines
      /\ active.lines \subseteq gui.lines \cup unsafe
      /\ \A id \in IdsOf(gui.lines) \ doubled, b \in Archives :
           id \in IdsOf(archive[b].lines) => b = gui.archive
  BY <1>1 DEF JournalInv, TypeOK, Rotating
<1>4. TypeOK'
  <2>1. active' \in [file : Nat, lines : SUBSET Line, torn : BOOLEAN]
    <3>1. active.file \in Nat /\ active.file + 1 \in Nat \ {0}  BY DEF JournalInv, TypeOK
    <3> QED  BY <1>1, <3>1 DEF None
  <2> QED  BY <1>1, <2>1, JournalAssumption DEF NoGui, JournalInv, TypeOK, None
<1>5. \A id \in Ids : IsTaken(id)' => IsTaken(id)
  BY <1>1, <1>2 DEF IsTaken
<1>6. FreshIds'
  <2>1. \A p \in Processes : Writing(p) => process[p].line.id \in Ids
    BY DEF JournalInv, TypeOK, Process, Line, Writing
  <2> QED  BY <1>1, <1>5, <2>1 DEF JournalInv, FreshIds, Writing
<1>7. Locals' /\ ErasedIsHidden'
  BY <1>1 DEF JournalInv, Locals, ErasedIsHidden, Writing
<1>8. AllCovered' /\ RestoresAreAudited'
  BY <1>1, <1>2 DEF AllCovered, Covered, RestoresAreAudited
<1>9. AcknowledgedIsKept'
  <2>1. Kept \cup unsafe \subseteq Kept' \cup unsafe'  BY <1>1, <1>3 DEF Kept
  <2> QED  BY <1>1, <2>1 DEF JournalInv, AcknowledgedIsKept, IdsOf
<1>10. Rotating'
  BY <1>1 DEF JournalInv, Rotating
<1>11. OnePlace'
  BY <1>1, <1>2, <1>3 DEF JournalInv, OnePlace
<1> QED  BY <1>4, <1>6, <1>7, <1>8, <1>9, <1>10, <1>11 DEF JournalInv

\* What is truncated away was appended when that was known to be unsafe.
LEMMA CreateLogKeeps ==
  ASSUME JournalInv, CreateLog
  PROVE  JournalInv'
<1>1. /\ gui.at = "create" /\ gui' = NoGui /\ gui'.at = "idle"
      /\ active' = [file |-> 1, lines |-> {}, torn |-> FALSE]
      /\ UNCHANGED <<archive, process, next, acked, erased, unsafe, doubled, cut>>
  BY DEF CreateLog, NoGui
<1>2. active'.lines = {} /\ IdsOf(active'.lines) = {}  BY <1>1 DEF IdsOf
<1>3. active.lines \subseteq unsafe  BY <1>1 DEF JournalInv, Rotating
<1>4. TypeOK'
  BY <1>1, JournalAssumption DEF NoGui, JournalInv, TypeOK, None
<1>5. \A id \in Ids : IsTaken(id)' => IsTaken(id)
  BY <1>1, <1>2 DEF IsTaken
<1>6. FreshIds'
  <2>1. \A p \in Processes : Writing(p) => process[p].line.id \in Ids
    BY DEF JournalInv, TypeOK, Process, Line, Writing
  <2> QED  BY <1>1, <1>5, <2>1 DEF JournalInv, FreshIds, Writing
<1>7. Locals' /\ ErasedIsHidden'
  BY <1>1 DEF JournalInv, Locals, ErasedIsHidden, Writing
<1>8. AllCovered' /\ RestoresAreAudited'
  BY <1>1, <1>2 DEF AllCovered, Covered, RestoresAreAudited
<1>9. AcknowledgedIsKept'
  <2>1. Kept \cup unsafe \subseteq Kept' \cup unsafe'  BY <1>1, <1>3 DEF Kept
  <2> QED  BY <1>1, <2>1 DEF JournalInv, AcknowledgedIsKept, IdsOf
<1>10. Rotating'
  BY <1>1 DEF JournalInv, Rotating
<1>11. OnePlace'
  BY <1>1, <1>2 DEF JournalInv, OnePlace
<1> QED  BY <1>4, <1>6, <1>7, <1>8, <1>9, <1>10, <1>11 DEF JournalInv

LEMMA EnsureLayoutKeeps ==
  ASSUME JournalInv, EnsureLayout
  PROVE  JournalInv'
<1>1. /\ gui.at = "idle" /\ gui' = [at |-> "create", lines |-> {}, archive |-> None]
      /\ active.lines = {} /\ UNCHANGED <<journal, process, erased, doubled, cut>>
  BY DEF EnsureLayout, NoGui, GuiIdle, JournalInv, Rotating
<1>2. TypeOK'
  BY <1>1, JournalAssumption DEF journal, JournalInv, TypeOK, None
<1>3. Rotating'
  BY <1>1 DEF journal, JournalInv, Rotating
<1>4. Locals' /\ FreshIds' /\ AllCovered'
  BY <1>1 DEF journal, JournalInv, Locals, FreshIds, IsTaken, Writing, AllCovered,
              Covered, TombIn
<1>5. /\ AcknowledgedIsKept' /\ ErasedIsHidden' /\ OnePlace' /\ RestoresAreAudited'
  BY <1>1 DEF journal, JournalInv, AcknowledgedIsKept, ErasedIsHidden, OnePlace,
              RestoresAreAudited, Kept
<1> QED  BY <1>2, <1>3, <1>4, <1>5 DEF JournalInv

LEMMA RotationFailsKeeps ==
  ASSUME JournalInv, RotationFails
  PROVE  JournalInv'
<1>1. /\ gui' = NoGui /\ gui'.at = "idle" /\ gui.at = "rotate"
      /\ doubled' = doubled \cup IdsOf(gui.lines)
      /\ UNCHANGED <<journal, process, erased, cut>>
  BY DEF RotationFails, NoGui
<1>2. TypeOK'
  <2>1. IdsOf(gui.lines) \subseteq Ids  BY DEF JournalInv, TypeOK, Line, IdsOf
  <2> QED  BY <1>1, <2>1, JournalAssumption DEF NoGui, journal, JournalInv, TypeOK, None
<1>3. Locals' /\ FreshIds' /\ AllCovered' /\ AcknowledgedIsKept' /\ ErasedIsHidden'
  BY <1>1, QuietKeeps DEF journal
<1>4. Rotating' /\ OnePlace' /\ RestoresAreAudited'
  BY <1>1 DEF journal, JournalInv, Rotating, OnePlace, RestoresAreAudited, Kept
<1> QED  BY <1>2, <1>3, <1>4 DEF JournalInv

LEMMA RestoreArchiveKeeps ==
  ASSUME JournalInv, NEW a \in Archives, RestoreArchive(a)
  PROVE  JournalInv'
<1>1. /\ gui' = [at |-> "restore", lines |-> archive[a].lines, archive |-> a] /\ gui.at = "idle"
      /\ UNCHANGED <<journal, process, erased, doubled, cut>>
  BY DEF RestoreArchive, GuiIdle
<1>2. TypeOK'
  BY <1>1 DEF journal, JournalInv, TypeOK
<1>3. Locals' /\ FreshIds' /\ AllCovered' /\ AcknowledgedIsKept' /\ ErasedIsHidden'
  BY <1>1, QuietKeeps DEF journal
<1>4. Rotating' /\ OnePlace' /\ RestoresAreAudited'
  BY <1>1 DEF journal, JournalInv, Rotating, OnePlace, RestoresAreAudited, Kept
<1> QED  BY <1>2, <1>3, <1>4 DEF JournalInv

LEMMA RetireArchiveKeeps ==
  ASSUME JournalInv, NEW a \in Archives, RetireArchive(a)
  PROVE  JournalInv'
<1>1. /\ archive' = [archive EXCEPT ![a].place = "retired"] /\ gui.at = "idle"
      /\ gui' = [at |-> "retired", lines |-> {}, archive |-> a]
      /\ UNCHANGED <<active, process, next, acked, erased, unsafe, doubled, cut>>
  BY DEF RetireArchive, NoGui, GuiIdle
<1>2. /\ \A b \in Archives : archive'[b].lines = archive[b].lines
      /\ \A b \in Archives : archive'[b].place = "none" => archive[b].place = "none"
  BY <1>1 DEF JournalInv, TypeOK
<1>3. TypeOK'
  BY <1>1 DEF JournalInv, TypeOK
<1>4. Locals' /\ FreshIds' /\ AllCovered' /\ AcknowledgedIsKept' /\ ErasedIsHidden'
  BY <1>1, <1>2, QuietKeeps
<1>5. Kept' = Kept
  BY <1>1, <1>2 DEF Kept
<1>6. Rotating' /\ OnePlace' /\ RestoresAreAudited'
  BY <1>1, <1>2, <1>5 DEF JournalInv, Rotating, OnePlace, RestoresAreAudited
<1> QED  BY <1>3, <1>4, <1>6 DEF JournalInv

LEMMA GuiRestartsKeeps ==
  ASSUME JournalInv, GuiRestarts
  PROVE  JournalInv'
<1>1. /\ gui' = NoGui /\ gui'.at = "idle"
      /\ doubled' = IF gui.at = "rotate" THEN doubled \cup IdsOf(gui.lines) ELSE doubled
      /\ cut' = IF gui.at = "restore" THEN cut \cup {gui.archive} ELSE cut
      /\ UNCHANGED <<journal, process, erased>>
  BY DEF GuiRestarts, NoGui
<1>2. TypeOK'
  <2>1. IdsOf(gui.lines) \subseteq Ids  BY DEF JournalInv, TypeOK, Line, IdsOf
  <2> QED  BY <1>1, <2>1, JournalAssumption DEF NoGui, journal, JournalInv, TypeOK, None
<1>3. Locals' /\ FreshIds' /\ AllCovered' /\ AcknowledgedIsKept' /\ ErasedIsHidden'
  BY <1>1, QuietKeeps DEF journal
<1>4. Rotating' /\ OnePlace'
  BY <1>1 DEF journal, JournalInv, Rotating, OnePlace
<1>5. RestoresAreAudited'
  BY <1>1 DEF journal, JournalInv, RestoresAreAudited, Kept
<1> QED  BY <1>2, <1>3, <1>4, <1>5 DEF JournalInv

-----------------------------------------------------------------------------
(* The steps of a process                                                  *)

\* A step that only touches the process itself.
LEMMA LocalStepKeeps ==
  ASSUME JournalInv, UNCHANGED <<journal, gui, erased, doubled, cut>>
  PROVE  Rotating' /\ OnePlace' /\ RestoresAreAudited' /\ AcknowledgedIsKept'
BY DEF journal, JournalInv, Rotating, OnePlace, RestoresAreAudited, AcknowledgedIsKept, Kept

LEMMA NoProcessFields ==
  /\ NoProcess \in Process
  /\ NoProcess.op = "none" /\ NoProcess.at = "idle" /\ NoProcess.hidden = {}
  /\ NoProcess.rows = {} /\ NoProcess.left = {} /\ NoProcess.line = NoLine
  /\ NoProcess.file = None /\ NoProcess.before = {}
BY DEF NoProcess, Process, None

LEMMA NoLineIsNone ==
  NoLine \notin Line /\ NoLine.from = None
BY DEF NoLine, Line, Ids, None, Kinds

\* A call that begins, or is over, has no rows, no line and no promise yet.
LEMMA BlankKeeps ==
  ASSUME JournalInv, NEW p \in Processes, NEW new \in Process,
         new.at \in {"idle", "open"}, new.op \in {"none", "ingest"},
         new.at = "open" => new.op # "none",
         new.rows = {}, new.left = {}, new.line = NoLine, new.file = None, new.before = {},
         process' = [process EXCEPT ![p] = new],
         UNCHANGED <<journal, gui, erased, doubled, cut>>
  PROVE  JournalInv'
<1>2. process'[p] = new /\ \A q \in Processes \ {p} : process'[q] = process[q]
  BY DEF JournalInv, TypeOK
<1>3. TypeOK'
  BY NoLineIsNone DEF journal, JournalInv, TypeOK
<1>4. IdsOf(new.rows) = {}  BY DEF IdsOf
<1>5. Locals'
  BY <1>2, <1>4, NoLineIsNone DEF JournalInv, Locals, Writing
<1>6. FreshIds'
  <2>1. \A id \in Ids : IsTaken(id)' => IsTaken(id)
    BY <1>2, <1>4 DEF journal, IsTaken
  <2>2. \A q \in Processes : Writing(q)' => Writing(q) /\ process'[q] = process[q]
    BY <1>2 DEF Writing
  <2>3. \A q \in Processes : Writing(q) => process[q].line.id \in Ids
    BY DEF JournalInv, TypeOK, Process, Line, Writing
  <2> QED  BY <2>1, <2>2, <2>3 DEF journal, JournalInv, FreshIds
<1>7. AllCovered'
  BY <1>2 DEF journal, JournalInv, AllCovered, Covered, TombIn
<1>8. ErasedIsHidden'
  BY <1>2 DEF journal, JournalInv, ErasedIsHidden
<1> QED  BY <1>3, <1>5, <1>6, <1>7, <1>8, LocalStepKeeps DEF JournalInv

LEMMA IngestKeeps ==
  ASSUME JournalInv, NEW p \in Processes, Ingest(p)
  PROVE  JournalInv'
<1> DEFINE new == [NoProcess EXCEPT !.op = "ingest", !.at = "open"]
<1>1. /\ new \in Process /\ new.op = "ingest" /\ new.at = "open" /\ new.rows = {}
      /\ new.left = {} /\ new.line = NoLine /\ new.file = None /\ new.before = {}
  BY NoProcessFields DEF Process
<1>2. /\ process' = [process EXCEPT ![p] = new]
      /\ UNCHANGED <<journal, gui, erased, doubled, cut>>
  BY DEF Ingest
<1> HIDE DEF new
<1> QED  BY <1>1, <1>2, BlankKeeps

LEMMA DieKeeps ==
  ASSUME JournalInv, NEW p \in Processes, Die(p)
  PROVE  JournalInv'
BY NoProcessFields, BlankKeeps DEF Die

LEMMA ReadTombstonesKeeps ==
  ASSUME JournalInv, NEW p \in Processes, NEW op \in {"erase", "retrieve"},
         ReadTombstones(p, op)
  PROVE  JournalInv'
<1> DEFINE new == [NoProcess EXCEPT !.op = op, !.at = "read", !.before = erased,
                                    !.hidden = Tombstoned(active.lines)]
<1>1. /\ process' = [process EXCEPT ![p] = new]
      /\ UNCHANGED <<journal, gui, erased, doubled, cut>>
  BY DEF ReadTombstones
<1>2. Tombstoned(active.lines) \subseteq Targets
  BY DEF JournalInv, TypeOK, Line, Tombstoned
<1>3. /\ new \in Process /\ new.op = op /\ new.at = "read" /\ new.rows = {} /\ new.left = {}
      /\ new.hidden = Tombstoned(active.lines) /\ new.line = NoLine /\ new.file = None
      /\ new.before = erased
  BY <1>2, NoProcessFields DEF Process, JournalInv, TypeOK
<1> HIDE DEF new
<1>4. process'[p] = new /\ \A q \in Processes \ {p} : process'[q] = process[q]
  BY <1>1 DEF JournalInv, TypeOK
<1>5. TypeOK'
  BY <1>1, <1>3, NoLineIsNone DEF journal, JournalInv, TypeOK
<1>6. IdsOf(new.rows) = {}  BY <1>3 DEF IdsOf
<1>7. Locals'
  BY <1>1, <1>3, <1>4, <1>6, NoLineIsNone DEF JournalInv, Locals, Writing
<1>8. FreshIds'
  <2>1. \A id \in Ids : IsTaken(id)' => IsTaken(id)
    BY <1>1, <1>4, <1>6 DEF journal, IsTaken
  <2>2. \A q \in Processes : Writing(q)' => Writing(q) /\ process'[q] = process[q]
    BY <1>3, <1>4 DEF Writing
  <2>3. \A q \in Processes : Writing(q) => process[q].line.id \in Ids
    BY DEF JournalInv, TypeOK, Process, Line, Writing
  <2> QED  BY <1>1, <2>1, <2>2, <2>3 DEF journal, JournalInv, FreshIds
<1>9. AllCovered'
  <2>1. ASSUME NEW id \in Ids, NEW by \in {"OS", "GUI"}, <<by, id>> \in erased
        PROVE  \/ id \in new.hidden \/ TombIn(unsafe, id) \/ id \notin IdsOf(active.lines)
    <3>1. Covered(id)  BY <2>1 DEF JournalInv, AllCovered
    <3> QED  BY <1>3, <3>1 DEF Covered, TombIn, Tombstoned
  <2> QED  BY <1>1, <1>3, <1>4, <1>6, <2>1 DEF journal, JournalInv, AllCovered, Covered, TombIn
<1>10. ErasedIsHidden'
  BY <1>1, <1>3, <1>4 DEF journal, JournalInv, ErasedIsHidden
<1> QED  BY <1>1, <1>5, <1>7, <1>8, <1>9, <1>10, LocalStepKeeps DEF JournalInv

LEMMA ReadEventsKeeps ==
  ASSUME JournalInv, NEW p \in Processes, ReadEvents(p)
  PROVE  JournalInv'
<1> DEFINE found == Effective(active.lines, process[p].hidden)
           With(rows) == [process[p] EXCEPT !.at = "open", !.rows = rows, !.hidden = {},
                            !.left = IF process[p].op = "erase" THEN IdsOf(rows) ELSE {}]
<1>1. /\ process[p].at = "read" /\ UNCHANGED <<journal, gui, erased, doubled, cut>>
      /\ \/ process' = [process EXCEPT ![p] = NoProcess]
         \/ \E rows \in SUBSET found :
              /\ process[p].op = "retrieve" => rows = found
              /\ process' = [process EXCEPT ![p] = With(rows)]
  BY DEF ReadEvents
<1>2. CASE process' = [process EXCEPT ![p] = NoProcess]
  BY <1>1, <1>2, NoProcessFields, BlankKeeps
<1>3. ASSUME NEW rows \in SUBSET found, process[p].op = "retrieve" => rows = found,
             process' = [process EXCEPT ![p] = With(rows)]
      PROVE  JournalInv'
  <2> DEFINE new == With(rows)
  <2>1. /\ process[p] \in Process /\ process[p].op \in {"erase", "retrieve"}
        /\ process[p].line = NoLine /\ process[p].file = None /\ process[p].before \subseteq erased
    BY <1>1 DEF JournalInv, TypeOK, Locals
  <2>2. rows \subseteq active.lines /\ rows \subseteq Line /\ IdsOf(rows) \subseteq Ids
    BY DEF Effective, JournalInv, TypeOK, Line, IdsOf
  <2>3. /\ new \in Process /\ new.op = process[p].op /\ new.at = "open" /\ new.rows = rows
        /\ new.left = IF process[p].op = "erase" THEN IdsOf(rows) ELSE {}
        /\ new.line = NoLine /\ new.file = None /\ new.before = process[p].before
    BY <2>1, <2>2 DEF Process
  <2> HIDE DEF With
  <2>4. process'[p] = new /\ \A q \in Processes \ {p} : process'[q] = process[q]
    BY <1>3 DEF JournalInv, TypeOK
  <2> HIDE DEF new
  <2>5. TypeOK'
    <3>1. process' = [process EXCEPT ![p] = new]  BY <1>3 DEF new
    <3> QED  BY <1>1, <2>3, <3>1, NoLineIsNone DEF journal, JournalInv, TypeOK
  <2>6. Locals'
    BY <1>1, <2>1, <2>3, <2>4, NoLineIsNone DEF JournalInv, Locals, Writing
  <2>7. FreshIds'
    <3>1. IdsOf(rows) \subseteq IdsOf(active.lines)  BY <2>2 DEF IdsOf
    <3>2. \A id \in Ids : IsTaken(id)' => IsTaken(id)
      BY <1>1, <2>3, <2>4, <3>1 DEF journal, IsTaken
    <3>3. \A q \in Processes : Writing(q)' => Writing(q) /\ process'[q] = process[q]
      BY <2>3, <2>4 DEF Writing
    <3>4. \A q \in Processes : Writing(q) => process[q].line.id \in Ids
      BY DEF JournalInv, TypeOK, Process, Line, Writing
    <3> QED  BY <1>1, <3>2, <3>3, <3>4 DEF journal, JournalInv, FreshIds
  <2>8. AllCovered'
    BY <1>1, <2>3, <2>4 DEF journal, JournalInv, AllCovered, Covered, TombIn
  <2>9. ErasedIsHidden'
    <3>1. ASSUME process[p].op = "retrieve", NEW l \in rows, NEW by \in {"OS", "GUI"},
                 <<by, l.id>> \in process[p].before
          PROVE  TombIn(unsafe, l.id)
      <4>1. l \in active.lines /\ l.id \in Ids /\ l.id \notin process[p].hidden
        BY <2>2 DEF Effective, JournalInv, TypeOK, Line
      <4>2. l.id \in IdsOf(active.lines)  BY <4>1 DEF IdsOf
      <4> QED  BY <1>1, <3>1, <4>1, <4>2 DEF JournalInv, AllCovered
    <3> QED  BY <1>1, <2>3, <2>4, <3>1 DEF journal, JournalInv, ErasedIsHidden, TombIn
  <2> QED  BY <1>1, <2>5, <2>6, <2>7, <2>8, <2>9, LocalStepKeeps DEF JournalInv
<1> QED  BY <1>1, <1>2, <1>3

LEMMA OpenLogKeeps ==
  ASSUME JournalInv, NEW p \in Processes, OpenLog(p)
  PROVE  JournalInv'
<1>1. /\ process[p].at = "open" /\ next \in Ids /\ next' = next + 1
      /\ active' = [active EXCEPT !.file = IF @ = None THEN 1 ELSE @]
      /\ active'.lines = active.lines /\ active'.file \in Nat \ {None}
      /\ active' \in [file : Nat, lines : SUBSET Line, torn : BOOLEAN]
      /\ UNCHANGED <<archive, gui, acked, erased, unsafe, doubled, cut>>
  BY DEF OpenLog, JournalInv, TypeOK, None
<1>2. PICK l \in Pending(p) :
        process' = [process EXCEPT ![p].at = "write", ![p].line = l,
                                   ![p].file = active'.file, ![p].before = {},
                                   ![p].rows = IF process[p].op = "erase" THEN @ ELSE {}]
  BY DEF OpenLog
<1>3. /\ process[p] \in Process /\ process[p].op \in {"ingest", "erase", "retrieve"}
      /\ process[p].left \subseteq IdsOf(process[p].rows)
      /\ process[p].op # "erase" => process[p].left = {}
      /\ process[p].left \subseteq Ids
  BY <1>1 DEF JournalInv, TypeOK, Locals, Process
<1>4. /\ l \in Line /\ l.id = next /\ l.from = None
      /\ process[p].op = "erase" => l.kind = "TOMBSTONE" /\ l.target \in process[p].left
  <2>1. CASE process[p].op = "erase"
    <3>1. PICK t \in process[p].left : l = Fresh("TOMBSTONE", t)  BY <1>2, <2>1 DEF Pending
    <3>2. t \in Targets  BY <1>3 DEF Targets
    <3> QED  BY <1>1, <3>1, <3>2, FreshLine DEF JournalInv, Kinds
  <2>2. CASE process[p].op = "ingest"
    BY <1>1, <1>2, <2>2, FreshLine DEF Pending, JournalInv, Kinds, Targets
  <2>3. CASE process[p].op = "retrieve"
    BY <1>1, <1>2, <2>3, FreshLine DEF Pending, JournalInv, Kinds, Targets
  <2> QED  BY <1>3, <2>1, <2>2, <2>3
<1>5. /\ process'[p] \in Process /\ process'[p].op = process[p].op /\ process'[p].at = "write"
      /\ process'[p].rows = IF process[p].op = "erase" THEN process[p].rows ELSE {}
      /\ process'[p].left = process[p].left /\ process'[p].line = l
      /\ process'[p].file = active'.file /\ process'[p].before = {}
      /\ \A q \in Processes \ {p} : process'[q] = process[q]
      /\ process' \in [Processes -> Process]
  BY <1>1, <1>2, <1>3, <1>4 DEF JournalInv, TypeOK, Process
<1>6. TypeOK'
  <2>1. next' \in 1..(MaxId + 1)  BY <1>1, JournalAssumption DEF Ids
  <2> QED  BY <1>1, <1>4, <1>5, <2>1, NoLineIsNone DEF JournalInv, TypeOK
<1>7. Locals'
  <2>1. process[p].op # "erase" => process[p].left \subseteq IdsOf({})  BY <1>3
  <2> QED  BY <1>1, <1>3, <1>4, <1>5, <2>1 DEF JournalInv, Locals, Writing
<1>8. FreshIds'
  <2>1. IdsOf(process'[p].rows) \subseteq IdsOf(process[p].rows)  BY <1>5 DEF IdsOf
  <2>2. \A id \in Ids : IsTaken(id)' => IsTaken(id)
    BY <1>1, <1>5, <2>1 DEF IsTaken
  <2>3. \A id \in Ids : id < next => id < next + 1 /\ id # next  BY <1>1 DEF Ids
  <2>4. next < next + 1  BY <1>1 DEF Ids
  <2>5. ~IsTaken(next)  BY <1>1, NextIsFresh
  <2>6. \A q \in Processes : Writing(q) => process[q].line.id \in Ids /\ process[q].line.id < next
    BY DEF JournalInv, FreshIds, TypeOK, Process, Line, Writing
  <2>7. \A q \in Processes : Writing(q)' => q = p \/ (Writing(q) /\ process'[q] = process[q])
    BY <1>5 DEF Writing
  <2>8. (\A id \in Ids : IsTaken(id) => id < next)'
    BY <1>1, <2>2, <2>3 DEF JournalInv, FreshIds
  <2>9. ASSUME NEW q \in Processes, Writing(q)'
        PROVE  (process[q].line.id < next /\ ~IsTaken(process[q].line.id))'
    <3>1. CASE q = p
      BY <1>1, <1>4, <1>5, <2>2, <2>4, <2>5, <3>1
    <3>2. CASE q # p
      <4>1. Writing(q) /\ process'[q] = process[q]  BY <2>7, <2>9, <3>2
      <4>2. process[q].line.id \in Ids /\ ~IsTaken(process[q].line.id) /\ process[q].line.id < next
        BY <2>6, <4>1 DEF JournalInv, FreshIds
      <4> QED  BY <1>1, <2>2, <2>3, <4>1, <4>2
    <3> QED  BY <3>1, <3>2
  <2>10. ASSUME NEW q \in Processes, NEW r \in Processes, Writing(q)', Writing(r)',
                process'[q].line.id = process'[r].line.id
         PROVE  q = r
    <3>1. CASE q = p
      <4>1. process'[r].line.id = next  BY <1>4, <1>5, <2>10, <3>1
      <4> QED  BY <2>3, <2>6, <2>7, <2>10, <3>1, <4>1
    <3>2. CASE r = p
      <4>1. process'[q].line.id = next  BY <1>4, <1>5, <2>10, <3>2
      <4> QED  BY <2>3, <2>6, <2>7, <2>10, <3>2, <4>1
    <3>3. CASE q # p /\ r # p
      BY <2>7, <2>10, <3>3 DEF JournalInv, FreshIds
    <3> QED  BY <3>1, <3>2, <3>3
  <2> QED  BY <2>8, <2>9, <2>10 DEF FreshIds
<1>9. AllCovered'
  BY <1>1, <1>5 DEF JournalInv, AllCovered, Covered, TombIn
<1>10. ErasedIsHidden'
  BY <1>1, <1>5 DEF JournalInv, ErasedIsHidden
<1>11. Rotating' /\ OnePlace' /\ RestoresAreAudited' /\ AcknowledgedIsKept'
  BY <1>1 DEF JournalInv, Rotating, OnePlace, RestoresAreAudited, AcknowledgedIsKept, Kept
<1> QED  BY <1>6, <1>7, <1>8, <1>9, <1>10, <1>11 DEF JournalInv

\* A line that a process wrote, in whole, in part or into a file that was replaced: the
\* call is over, or goes on to the next tombstone.  It reports what it did only if the
\* line landed.
LEMMA LineKeeps ==
  ASSUME JournalInv, NEW p \in Processes, Writing(p), process[p].line \in Line,
         Grown(process[p].line), NEW new \in Process,
         process' = [process EXCEPT ![p] = new],
         UNCHANGED <<archive, gui, next, doubled, cut>>,
         \/ UNCHANGED <<acked, erased>> /\ new = NoProcess
         \/ /\ Landed(process[p].line)
            /\ acked' = acked \cup {process[p].line.id}
            /\ \/ new = NoProcess /\ UNCHANGED erased
               \/ /\ process[p].op = "erase" /\ process[p].left = {process[p].line.target}
                  /\ new = NoProcess
                  /\ erased' = erased \cup {"OS"} \X IdsOf(process[p].rows)
               \/ /\ process[p].op = "erase" /\ UNCHANGED erased
                  /\ new.op = "erase" /\ new.at = "open" /\ new.rows = process[p].rows
                  /\ new.left = process[p].left \ {process[p].line.target}
                  /\ new.line = NoLine /\ new.file = None /\ new.before = process[p].before
  PROVE  JournalInv'
<1> DEFINE l == process[p].line
<1>1. process'[p] = new /\ \A q \in Processes \ {p} : process'[q] = process[q]
  BY DEF JournalInv, TypeOK
<1>2. /\ new.at \in {"idle", "open"} /\ new.line = NoLine /\ new.file = None
      /\ new.op \in {"none", "erase"} /\ new.rows \subseteq process[p].rows
      /\ new.op = "none" => new = NoProcess
      /\ new.at = "open" => new.op = "erase"
  BY NoProcessFields
<1>3. /\ process[p] \in Process /\ IdsOf(process[p].rows) \subseteq Ids
      /\ l \in Line /\ l.id \in Ids /\ l.from = None
  BY DEF JournalInv, TypeOK, Locals, Process, Line, IdsOf
<1>4. erased \subseteq erased' /\ erased' \subseteq erased \cup {"OS"} \X IdsOf(process[p].rows)
  OBVIOUS
<1>5. Grown(l) /\ ~IsTaken(l.id)  BY DEF JournalInv, FreshIds
<1>6. \A id \in Ids : IsTaken(id) =>
        /\ Covered(id) => Covered(id)'
        /\ id \notin IdsOf(active.lines) => id \notin IdsOf(active'.lines)
        /\ TombIn(unsafe, id) => TombIn(unsafe', id)
  BY <1>5, CoveredStays DEF JournalInv
<1>7. TypeOK'
  <2>1. acked' \subseteq Ids /\ unsafe' \subseteq Line
    BY <1>3, <1>5 DEF Grown, JournalInv, TypeOK
  <2>2. erased' \subseteq {"OS", "GUI"} \X Ids
    BY <1>3, <1>4 DEF JournalInv, TypeOK
  <2> QED  BY <1>1, <1>2, <1>5, <2>1, <2>2, NoLineIsNone DEF Grown, JournalInv, TypeOK
<1>8. Locals'
  <2>1. /\ new.before \subseteq erased /\ new.left \subseteq IdsOf(new.rows)
        /\ new.op # "erase" => new.left = {}
        /\ new.at = "idle" => new.rows = {}
    BY <1>2, NoProcessFields DEF JournalInv, Locals
  <2> QED  BY <1>1, <1>2, <1>4, <2>1, NoLineIsNone DEF JournalInv, Locals, Writing
<1>9. FreshIds'
  <2>1. \A id \in Ids : IsTaken(id)' => IsTaken(id) \/ id = l.id
    <3>1. IdsOf(active'.lines) \subseteq IdsOf(active.lines) \cup {l.id}
      BY <1>5 DEF Grown, IdsOf
    <3>2. IdsOf(new.rows) \subseteq IdsOf(process[p].rows)  BY <1>2 DEF IdsOf
    <3> QED  BY <1>1, <1>4, <3>1, <3>2 DEF IsTaken
  <2>2. \A q \in Processes : Writing(q)' => q # p /\ Writing(q) /\ process'[q] = process[q]
    BY <1>1, <1>2 DEF Writing
  <2>3. \A q \in Processes : Writing(q) =>
          process[q].line.id \in Ids /\ (q # p => process[q].line.id # l.id)
    BY DEF JournalInv, FreshIds, TypeOK, Process, Line, Writing
  <2>4. l.id < next  BY DEF JournalInv, FreshIds
  <2>5. (\A id \in Ids : IsTaken(id) => id < next)'
    BY <2>1, <2>4 DEF JournalInv, FreshIds
  <2>6. ASSUME NEW q \in Processes, Writing(q)'
        PROVE  (process[q].line.id < next /\ ~IsTaken(process[q].line.id))'
    <3>1. /\ Writing(q) /\ process'[q] = process[q] /\ process[q].line.id \in Ids
          /\ process[q].line.id # l.id
      BY <2>2, <2>3, <2>6
    <3>2. process[q].line.id < next /\ ~IsTaken(process[q].line.id)
      BY <3>1 DEF JournalInv, FreshIds
    <3> QED  BY <2>1, <3>1, <3>2
  <2>7. ASSUME NEW q \in Processes, NEW r \in Processes, Writing(q)', Writing(r)',
               process'[q].line.id = process'[r].line.id
        PROVE  q = r
    BY <2>2, <2>7 DEF JournalInv, FreshIds
  <2> QED  BY <2>5, <2>6, <2>7 DEF FreshIds
<1>10. Rotating'
  BY <1>5 DEF Grown, JournalInv, Rotating
<1>11. AllCovered'
  <2>1. ASSUME process[p].op = "erase", Landed(l),
               NEW id \in IdsOf(process[p].rows) \ (process[p].left \ {l.target})
        PROVE  Covered(id)'
    <3>1. CASE id = l.target
      <4>1. l.kind = "TOMBSTONE"  BY <2>1 DEF JournalInv, Locals
      <4> QED  BY <2>1, <3>1, <4>1 DEF Landed, Covered, TombIn
    <3>2. CASE id # l.target
      <4>1. id \in Ids /\ IsTaken(id)  BY <1>3, <2>1 DEF IsTaken
      <4>2. Covered(id)  BY <2>1, <3>2 DEF JournalInv, AllCovered
      <4> QED  BY <1>6, <4>1, <4>2
    <3> QED  BY <3>1, <3>2
  <2>2. ASSUME NEW id \in Ids, NEW by \in {"OS", "GUI"}, <<by, id>> \in erased'
        PROVE  Covered(id)'
    <3>1. CASE <<by, id>> \in erased
      <4>1. IsTaken(id) /\ Covered(id)  BY <3>1 DEF IsTaken, JournalInv, AllCovered
      <4> QED  BY <1>6, <4>1
    <3>2. CASE <<by, id>> \notin erased
      <4>1. /\ process[p].op = "erase" /\ process[p].left = {l.target} /\ Landed(l)
            /\ erased' = erased \cup {"OS"} \X IdsOf(process[p].rows)
        BY <2>2, <3>2
      <4>2. id \in IdsOf(process[p].rows)  BY <2>2, <3>2, <4>1
      <4> QED  BY <2>1, <4>1, <4>2
    <3> QED  BY <3>1, <3>2
  <2>3. ASSUME NEW q \in Processes, process'[q].op = "erase",
               NEW id \in IdsOf(process'[q].rows) \ process'[q].left
        PROVE  Covered(id)'
    <3>1. CASE q = p
      <4>1. /\ process[p].op = "erase" /\ Landed(l) /\ new.rows = process[p].rows
            /\ new.left = process[p].left \ {l.target}
        BY <1>1, <2>3, <3>1, NoProcessFields
      <4> QED  BY <1>1, <2>1, <2>3, <3>1, <4>1
    <3>2. CASE q # p
      <4>1. process'[q] = process[q]  BY <1>1, <3>2
      <4>2. id \in Ids  BY <2>3, <4>1 DEF JournalInv, TypeOK, Process, Line, IdsOf
      <4>3. IsTaken(id)  BY <2>3, <4>1 DEF IsTaken
      <4>4. Covered(id)  BY <2>3, <4>1 DEF JournalInv, AllCovered
      <4> QED  BY <1>6, <4>2, <4>3, <4>4
    <3> QED  BY <3>1, <3>2
  <2>4. ASSUME NEW q \in Processes, process'[q].op = "retrieve", process'[q].at = "read",
               NEW id \in Ids, NEW by \in {"OS", "GUI"}, <<by, id>> \in process'[q].before
        PROVE  \/ id \in process'[q].hidden \/ TombIn(unsafe', id)
               \/ id \notin IdsOf(active'.lines)
    <3>1. q # p /\ process'[q] = process[q]  BY <1>1, <1>2, <2>4
    <3>2. IsTaken(id)  BY <2>4, <3>1 DEF JournalInv, Locals, IsTaken
    <3> QED  BY <1>6, <2>4, <3>1, <3>2 DEF JournalInv, AllCovered
  <2> QED  BY <2>2, <2>3, <2>4 DEF AllCovered, TombIn
<1>12. AcknowledgedIsKept'
  <2>1. Kept \cup unsafe \subseteq Kept' \cup unsafe'  BY <1>5, KeptGrows DEF JournalInv
  <2>2. Landed(l) => l \in Kept' \cup unsafe'  BY DEF Landed, Kept
  <2> QED  BY <2>1, <2>2 DEF JournalInv, AcknowledgedIsKept, IdsOf
<1>13. ErasedIsHidden'
  <2>1. unsafe \subseteq unsafe'  BY <1>5 DEF Grown
  <2> QED  BY <1>1, <1>2, <2>1 DEF JournalInv, ErasedIsHidden
<1>14. OnePlace'
  BY <1>3, <1>5, OnePlaceStays
<1>15. RestoresAreAudited'
  BY <1>3, <1>5, AuditsStay
<1> QED
  BY <1>7, <1>8, <1>9, <1>10, <1>11, <1>12, <1>13, <1>14, <1>15 DEF JournalInv

LEMMA WriteLogKeeps ==
  ASSUME JournalInv, NEW p \in Processes, WriteLog(p)
  PROVE  JournalInv'
<1> DEFINE new == Continued(p)
           l == process[p].line
<1>1. /\ Writing(p) /\ acked' = acked \cup {l.id} /\ erased' = ErasedAfter(p)
      /\ process' = [process EXCEPT ![p] = new]
      /\ UNCHANGED <<archive, gui, next, doubled, cut>>
  BY DEF WriteLog, Writing
<1>2. l \in Line /\ Grown(l) /\ Landed(l)  BY WriteGrows DEF JournalInv
<1>3. process[p] \in Process  BY DEF JournalInv, TypeOK
<1>4. CASE process[p].left \ {l.target} = {}
  <2>1. new = NoProcess  BY <1>4 DEF Continued
  <2>2. \/ UNCHANGED erased
        \/ /\ process[p].op = "erase" /\ process[p].left = {l.target}
           /\ erased' = erased \cup {"OS"} \X IdsOf(process[p].rows)
    BY <1>1 DEF ErasedAfter
  <2> HIDE DEF new
  <2> QED  BY <1>1, <1>2, <2>1, <2>2, NoProcessFields, LineKeeps
<1>5. CASE process[p].left \ {l.target} # {}
  <2>1. process[p].op = "erase"  BY <1>5 DEF JournalInv, Locals
  <2>2. UNCHANGED erased  BY <1>1, <1>5 DEF ErasedAfter
  <2>3. new = [process[p] EXCEPT !.at = "open", !.left = process[p].left \ {l.target},
                                 !.line = NoLine, !.file = None]
    BY <1>5 DEF Continued
  <2> HIDE DEF new
  <2>4. /\ new \in Process /\ new.op = "erase" /\ new.at = "open"
        /\ new.rows = process[p].rows /\ new.left = process[p].left \ {l.target}
        /\ new.line = NoLine /\ new.file = None /\ new.before = process[p].before
    BY <1>3, <2>1, <2>3 DEF Process, None
  <2>5. /\ Landed(process[p].line) /\ acked' = acked \cup {process[p].line.id}
        /\ new.left = process[p].left \ {process[p].line.target}
        /\ process[p].line \in Line /\ Grown(process[p].line)
    BY <1>1, <1>2, <2>4
  <2> HIDE DEF l
  <2> QED  BY <1>1, <2>1, <2>2, <2>4, <2>5, LineKeeps
<1> QED  BY <1>4, <1>5

LEMMA WriteFailsKeeps ==
  ASSUME JournalInv, NEW p \in Processes, WriteFails(p)
  PROVE  JournalInv'
<1>1. process[p].line \in Line /\ Grown(process[p].line)  BY WriteFailsGrows DEF JournalInv
<1>2. /\ Writing(p) /\ process' = [process EXCEPT ![p] = NoProcess]
      /\ UNCHANGED <<archive, gui, next, acked, erased, doubled, cut>>
  BY DEF WriteFails, Writing
<1> QED  BY <1>1, <1>2, NoProcessFields, LineKeeps

-----------------------------------------------------------------------------
(* The specification                                                       *)

LEMMA InitKeeps ==
  Init => JournalInv
<1> SUFFICES ASSUME Init  PROVE JournalInv
  OBVIOUS
<1>1. /\ active = [file |-> None, lines |-> {}, torn |-> FALSE]
      /\ archive = [a \in Archives |-> [place |-> "none", lines |-> {}]]
      /\ gui = [at |-> "idle", lines |-> {}, archive |-> None]
      /\ process = [p \in Processes |-> NoProcess]
      /\ next = 1 /\ acked = {} /\ erased = {} /\ unsafe = {} /\ doubled = {} /\ cut = {}
  BY DEF Init, NoGui
<1>2. \A p \in Processes : process[p] = NoProcess
  BY <1>1
<1>3. \A a \in Archives : archive[a].place = "none" /\ archive[a].lines = {}
  BY <1>1
<1>4. TypeOK
  <2>1. next \in 1..(MaxId + 1)  BY <1>1, JournalAssumption
  <2>2. gui.archive \notin Archives  BY <1>1, JournalAssumption DEF None
  <2> QED  BY <1>1, <1>2, <2>1, <2>2, NoProcessFields DEF TypeOK, None
<1>5. IdsOf({}) = {}  BY DEF IdsOf
<1>6. Locals  BY <1>1, <1>2, NoProcessFields, NoLineIsNone DEF Locals, Writing
<1>7. FreshIds  BY <1>1, <1>2, <1>3, <1>5, NoProcessFields DEF FreshIds, IsTaken, Writing
<1>8. Rotating  BY <1>1, <1>3 DEF Rotating
<1>9. AllCovered  BY <1>1, <1>2, NoProcessFields DEF AllCovered
<1>10. AcknowledgedIsKept /\ RestoresAreAudited
  BY <1>1 DEF AcknowledgedIsKept, RestoresAreAudited
<1>11. ErasedIsHidden  BY <1>2, NoProcessFields DEF ErasedIsHidden
<1>12. OnePlace  BY <1>1, <1>3, <1>5 DEF OnePlace
<1> QED  BY <1>4, <1>6, <1>7, <1>8, <1>9, <1>10, <1>11, <1>12 DEF JournalInv

LEMMA ProcessStepKeeps ==
  ASSUME JournalInv, NEW p \in Processes, ProcessStep(p)
  PROVE  JournalInv'
<1>1. CASE Ingest(p)  BY <1>1, IngestKeeps
<1>2. CASE ReadTombstones(p, "erase")  BY <1>2, ReadTombstonesKeeps
<1>3. CASE ReadTombstones(p, "retrieve")  BY <1>3, ReadTombstonesKeeps
<1>4. CASE ReadEvents(p)  BY <1>4, ReadEventsKeeps
<1>5. CASE OpenLog(p)  BY <1>5, OpenLogKeeps
<1>6. CASE WriteLog(p)  BY <1>6, WriteLogKeeps
<1>7. CASE WriteFails(p)  BY <1>7, WriteFailsKeeps
<1>8. CASE Die(p)  BY <1>8, DieKeeps
<1> QED
  BY <1>1, <1>2, <1>3, <1>4, <1>5, <1>6, <1>7, <1>8 DEF ProcessStep

LEMMA NextKeeps ==
  ASSUME JournalInv, Next
  PROVE  JournalInv'
<1>1. CASE \E p \in Processes : ProcessStep(p)  BY <1>1, ProcessStepKeeps
<1>2. CASE \E a \in Archives : ArchiveStep(a)
  <2> PICK a \in Archives : ArchiveStep(a)  BY <1>2
  <2>1. CASE SealArchive(a)  BY <2>1, SealArchiveKeeps
  <2>2. CASE RestoreArchive(a)  BY <2>2, RestoreArchiveKeeps
  <2>3. CASE RetireArchive(a)  BY <2>3, RetireArchiveKeeps
  <2> QED  BY <2>1, <2>2, <2>3 DEF ArchiveStep
<1>3. CASE \E id \in Ids : SoftDeleteEvent(id)  BY <1>3, SoftDeleteEventKeeps
<1>4. CASE RecordEvent  BY <1>4, RecordEventKeeps
<1>5. CASE CreateArchive  BY <1>5, CreateArchiveKeeps
<1>6. CASE SealFails  BY <1>6, SealFailsKeeps
<1>7. CASE RotateActive  BY <1>7, RotateActiveKeeps
<1>8. CASE RotationFails  BY <1>8, RotationFailsKeeps
<1>9. CASE RestoreEvent  BY <1>9, RestoreEventKeeps
<1>10. CASE RestoreDone  BY <1>10, RestoreDoneKeeps
<1>11. CASE RetireRecorded  BY <1>11, RetireRecordedKeeps
<1>12. CASE GuiRestarts  BY <1>12, GuiRestartsKeeps
<1>13. CASE EnsureLayout  BY <1>13, EnsureLayoutKeeps
<1>14. CASE CreateLog  BY <1>14, CreateLogKeeps
<1> QED
  BY <1>1, <1>2, <1>3, <1>4, <1>5, <1>6, <1>7, <1>8, <1>9, <1>10, <1>11, <1>12, <1>13,
     <1>14 DEF Next

LEMMA StutterKeeps ==
  ASSUME JournalInv, UNCHANGED vars
  PROVE  JournalInv'
BY DEF vars, journal, JournalInv, TypeOK, Locals, FreshIds, IsTaken, Writing, Rotating,
       AllCovered, Covered, TombIn, AcknowledgedIsKept, ErasedIsHidden, OnePlace,
       RestoresAreAudited, Kept

\* The inductive invariant holds in every reachable state.
THEOREM Invariance == Spec => []JournalInv
<1>1. JournalInv /\ [Next]_vars => JournalInv'
  BY NextKeeps, StutterKeeps
<1> QED  BY <1>1, InitKeeps, PTL DEF Spec

\* Every variable has its type, in particular the locals of the processes and of the
\* Control Center (append_journal_event, JournalService).
THEOREM TypeCorrect == Spec => []TypeOK
<1>1. JournalInv => TypeOK  BY DEF JournalInv
<1> QED  BY <1>1, Invariance, PTL

\* No event whose append was reported as done is lost, but for the conditions
\* that Exposed, WriteLog and AppendObject name.
THEOREM Retention == Spec => []AcknowledgedIsKept
<1>1. JournalInv => AcknowledgedIsKept  BY DEF JournalInv
<1> QED  BY <1>1, Invariance, PTL

\* A retrieval does not return what was erased before it began, however the two
\* readings of effective_events fall between the writes of the others.
THEOREM Erasure == Spec => []ErasedIsHidden
<1>1. JournalInv => ErasedIsHidden  BY DEF JournalInv
<1> QED  BY <1>1, Invariance, PTL

\* An event is in the log or in one archive, but during a rotation and after one that
\* failed (createArchive).
THEOREM SinglePlace == Spec => []OnePlace
<1>1. JournalInv => OnePlace  BY DEF JournalInv
<1> QED  BY <1>1, Invariance, PTL

\* What restoreArchive put into the log is audited, or its restore was cut short.
THEOREM AuditedRestores == Spec => []RestoresAreAudited
<1>1. JournalInv => RestoresAreAudited  BY DEF JournalInv
<1> QED  BY <1>1, Invariance, PTL
=============================================================================
