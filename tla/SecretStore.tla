----------------------------- MODULE SecretStore -----------------------------
(***************************************************************************)
(* The vault of the Secret Broker (src/src/fa3_secret_broker.py):          *)
(* class SecretStore, whose put (also rotate) and delete (also revoke)     *)
(* change a directory of object files and an index file that names them.   *)
(*                                                                         *)
(* The broker serves one request at a time, so one call is in progress;    *)
(* it is cut at its file operations, each of which may fail and between    *)
(* any two of which the process may die.  _atomic_write may fail before    *)
(* its rename (nothing happened) or after it (the rename stands).  A value *)
(* is identified with its object file.  Names are random in the code; here *)
(* a name that neither a file nor the index holds may be taken again.      *)
(***************************************************************************)
CONSTANTS Secrets,   \* secret ids
          Objects,   \* names of object files
          None       \* no object, no secret

ASSUME SecretAssumption == None \notin Objects \cup Secrets

VARIABLES objects,   \* the object files on disk
          index,     \* index[s]: the object that index.json names for s
          call,      \* the put or delete in progress and its next file step
          reply,     \* what the last call answered (history)
          suspect,   \* files that a call which failed or died left behind (history)
          marred     \* secrets with a delete begun, or an error met once the
                     \* index or the old object was touched, and no answer
                     \* "ok" since (history)

vars == <<objects, index, call, reply, suspect, marred>>

PutSteps == {"index", "old", "rollback"}

Named == {index[s] : s \in Secrets} \ {None}

Done == [step |-> "idle", secret |-> None, object |-> None, old |-> None]

Init ==
  /\ objects = {}
  /\ index = [s \in Secrets |-> None]
  /\ call = [step |-> "idle", secret |-> None, object |-> None, old |-> None]
  /\ reply = "none"
  /\ suspect = {}
  /\ marred = {}

Fresh(o) == o \notin objects \cup Named

\* How a call ends: answered "ok", answered with an error, or with the process.
Answer(result) ==
  /\ call' = Done
  /\ reply' = result

\* What the call in progress held and the index does not name is left behind.
LeavesBehind(left) ==
  LET named == {index'[s] : s \in Secrets}
  IN  suspect' = (suspect \cup (left \ named)) \cap objects'

Held == {call.object, call.old}

Index(s, o) == index' = [index EXCEPT ![s] = o]

Unlink(o) == objects' = objects \ {o}

\* The object file is written; the old one stays until the index is (the mutant
\* removes it at once).
MutWritten(s, o) == objects' = (objects \cup {o}) \ {index[s]}
Written(s, o) == objects' = objects \cup {o}
-----------------------------------------------------------------------------
\* put, first step: the object is written.  An error or a crash after the
\* rename, or a crash with the value in the temporary file, leaves it behind.
PutObject(s, o) ==
  /\ call.step = "idle"
  /\ Fresh(o)
  /\ Written(s, o)
  /\ \/ /\ call' = [step |-> "index", secret |-> s, object |-> o, old |-> index[s]]
        /\ UNCHANGED <<reply, suspect>>
     \/ /\ reply' = "error"
        /\ suspect' = suspect \cup {o}
        /\ UNCHANGED call
  /\ UNCHANGED <<index, marred>>

\* The new index is in place; an earlier object is still to be unlinked.
PutIndexed ==
  /\ Index(call.secret, call.object)
  /\ \/ /\ call.old = None
        /\ Answer("ok")
        /\ marred' = marred \ {call.secret}
     \/ /\ call.old # None
        /\ call' = [call EXCEPT !.step = "old"]
        /\ UNCHANGED <<reply, marred>>
  /\ UNCHANGED <<objects, suspect>>

\* The write fails before its rename or after it; the new object is unlinked
\* in both cases, and that may fail as well.
PutIndexFailed ==
  /\ \/ UNCHANGED <<index, marred>>
     \/ /\ Index(call.secret, call.object)
        /\ marred' = marred \cup {call.secret}
  /\ \/ Unlink(call.object)
     \/ UNCHANGED objects
  /\ LeavesBehind(Held)
  /\ Answer("error")

PutIndex ==
  /\ call.step = "index"
  /\ PutIndexed \/ PutIndexFailed

\* The old object is unlinked and the directory synced.  An object that is not
\* there is an error like any other, and so the previous index comes back.
PutOld ==
  /\ call.step = "old"
  /\ \/ /\ call.old \in objects
        /\ Unlink(call.old)
        /\ Answer("ok")
        /\ marred' = marred \ {call.secret}
     \/ /\ call' = [call EXCEPT !.step = "rollback"]
        /\ \/ UNCHANGED <<objects, marred>>
           \/ /\ call.old \in objects
              /\ Unlink(call.old)
              /\ marred' = marred \cup {call.secret}
        /\ UNCHANGED reply
  /\ UNCHANGED <<index, suspect>>

MutRestored == UNCHANGED index

Restored == Index(call.secret, call.old)

\* The previous index is written and then the new object unlinked; either may
\* fail.  If the index cannot be written the new value stays stored.
PutRollback ==
  /\ call.step = "rollback"
  /\ \/ /\ Restored
        /\ \/ Unlink(call.object)
           \/ UNCHANGED objects
        /\ UNCHANGED marred
     \/ /\ marred' = marred \cup {call.secret}
        /\ UNCHANGED <<index, objects>>
  /\ LeavesBehind(Held)
  /\ Answer("error")
-----------------------------------------------------------------------------
\* delete, first step: the object, if it is there, is unlinked and the
\* directory synced, which may fail.
DropObject(s) ==
  /\ call.step = "idle"
  /\ index[s] # None
  /\ Unlink(index[s])
  /\ marred' = marred \cup {s}
  /\ \/ /\ call' = [step |-> "entry", secret |-> s, object |-> None, old |-> index[s]]
        /\ UNCHANGED reply
     \/ /\ reply' = "error"
        /\ UNCHANGED call
  /\ UNCHANGED <<index, suspect>>

\* The index is written without the entry; the write fails before or after
\* its rename.
DropEntry ==
  /\ call.step = "entry"
  /\ \/ /\ Index(call.secret, None)
        /\ Answer("ok")
        /\ marred' = marred \ {call.secret}
     \/ /\ Index(call.secret, None) \/ UNCHANGED index
        /\ Answer("error")
        /\ UNCHANGED marred
  /\ UNCHANGED <<objects, suspect>>

\* The broker dies and is started again; SecretStore.__init__ repairs nothing.
Crash ==
  /\ call.step # "idle"
  /\ Answer("none")
  /\ UNCHANGED <<objects, index, marred>>
  /\ LeavesBehind(Held)
-----------------------------------------------------------------------------
Next ==
  \/ \E s \in Secrets, o \in Objects : PutObject(s, o)
  \/ PutIndex
  \/ PutOld
  \/ PutRollback
  \/ \E s \in Secrets : DropObject(s)
  \/ DropEntry
  \/ Crash

Spec == Init /\ [][Next]_vars
-----------------------------------------------------------------------------
\* The types; between calls nothing is held.
TypeOK ==
  /\ objects \subseteq Objects
  /\ index \in [Secrets -> Objects \cup {None}]
  /\ \/ call = [step |-> "idle", secret |-> None, object |-> None, old |-> None]
     \/ call \in [step : PutSteps, secret : Secrets, object : Objects,
                  old : Objects \cup {None}]
     \/ call \in [step : {"entry"}, secret : Secrets, object : {None}, old : Objects]
  /\ reply \in {"none", "ok", "error"}
  /\ suspect \subseteq objects
  /\ marred \subseteq Secrets

Readable == \A s \in Secrets : index[s] \in objects \cup {None} \/ s \in marred

NoSharing == \A s, t \in Secrets : index[s] = index[t] /\ index[s] # None => s = t

NoLitter == objects \subseteq Named \cup Held \cup suspect

\* The index and the object files agree at every step and after every crash: a
\* secret in the index can be read unless an error or an unfinished delete
\* marred it, no two secrets share a file, and no file with a secret's value
\* stays behind but for a call that holds it or one that failed or died.  So
\* put, killed at any point, loses no value.
IndexMatchesObjects == Readable /\ NoSharing /\ NoLitter

\* What a call for s answers is so.  After "ok", put has stored the new value
\* where get finds it and the old one is off the disk, and delete has left
\* neither entry nor file.  After an error, put has left the secret as it was,
\* unless the error came once the index or the old object was touched.
Truthful(s) ==
  call.secret = s /\ call'.step = "idle" =>
    /\ reply' = "ok" =>
         /\ call.old \notin objects'
         /\ call.step = "entry" => index'[s] = None
         /\ call.step \in PutSteps =>
              index'[s] = call.object /\ call.object \in objects'
    /\ reply' = "error" /\ call.step \in PutSteps =>
         \/ s \in marred'
         \/ /\ index'[s] = call.old
            /\ call.old \in objects' \cup {None}

\* Every call for every secret is answered truthfully.
AnswerIsTrue == [][\A s \in Secrets : Truthful(s)]_vars
=============================================================================
