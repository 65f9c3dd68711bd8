-------------------------- MODULE SecretStoreProofs --------------------------
(***************************************************************************)
(* Theorems about the vault of the Secret Broker, for every set of secrets *)
(* and of object names: the types, the agreement of the index with the     *)
(* object files, and what an answer promises.                              *)
(***************************************************************************)
EXTENDS SecretStore, TLAPS

\* What the call in progress holds, at each of its file steps.
CallAgrees ==
  /\ call.step = "index" =>
       /\ call.object \in objects \ Named
       /\ call.old = index[call.secret]
  /\ call.step \in {"old", "rollback"} =>
       /\ call.object \in objects
       /\ index[call.secret] = call.object
       /\ call.old # None
       /\ call.old # call.object
       /\ call.old \notin Named
       /\ call.old \in objects \/ call.secret \in marred
  /\ call.step = "entry" =>
       /\ index[call.secret] = call.old
       /\ call.old \notin objects
       /\ call.secret \in marred

\* A file left behind is neither named nor held.
SuspectsAreNobodys == suspect \cap (Named \cup Held) = {}

\* The inductive invariant: alone, Readable does not know that the object a
\* put is about to name is on disk, nor NoSharing that nobody names it.
IInv ==
  /\ TypeOK
  /\ IndexMatchesObjects
  /\ CallAgrees
  /\ SuspectsAreNobodys

-----------------------------------------------------------------------------
(* One lemma per action, one step per part of the invariant.               *)

USE SecretAssumption
    DEF PutSteps, Named, Held, Done, Answer, Index, Unlink

LEMMA InitIInv == Init => IInv
BY DEF Init, IInv, IndexMatchesObjects, TypeOK, Readable, NoSharing, NoLitter,
       CallAgrees, SuspectsAreNobodys

LEMMA PutObjectKeepsIInv ==
  ASSUME IInv, NEW s \in Secrets, NEW o \in Objects, PutObject(s, o)
  PROVE  IInv'
<1> USE DEF IInv, IndexMatchesObjects
<1>1. TypeOK'
  BY DEF PutObject, Written, TypeOK
<1>2. Readable'
  BY DEF PutObject, Written, Readable
<1>3. NoSharing'
  BY DEF PutObject, NoSharing
<1>4. NoLitter'
  BY DEF PutObject, Written, TypeOK, NoLitter
<1>5. CallAgrees'
  BY DEF PutObject, Written, Fresh, CallAgrees
<1>6. SuspectsAreNobodys'
  BY DEF PutObject, Fresh, TypeOK, SuspectsAreNobodys
<1> QED  BY <1>1, <1>2, <1>3, <1>4, <1>5, <1>6

LEMMA PutIndexedKeepsIInv ==
  ASSUME IInv, PutIndexed, call.step = "index"
  PROVE  IInv'
<1> USE DEF IInv, IndexMatchesObjects
<1>1. TypeOK'
  BY DEF PutIndexed, TypeOK
<1>2. Readable'
  BY DEF PutIndexed, Readable, CallAgrees
<1>3. NoSharing'
  BY DEF PutIndexed, NoSharing, CallAgrees
<1>4. NoLitter'
  BY DEF PutIndexed, TypeOK, NoLitter, CallAgrees
<1>5. CallAgrees'
  BY DEF PutIndexed, TypeOK, Readable, NoSharing, CallAgrees
<1>6. SuspectsAreNobodys'
  BY DEF PutIndexed, TypeOK, SuspectsAreNobodys
<1> QED  BY <1>1, <1>2, <1>3, <1>4, <1>5, <1>6

LEMMA PutIndexFailedKeepsIInv ==
  ASSUME IInv, PutIndexFailed, call.step = "index"
  PROVE  IInv'
<1> USE DEF IInv, IndexMatchesObjects
<1>1. TypeOK'
  BY DEF PutIndexFailed, LeavesBehind, TypeOK
<1>2. Readable'
  BY DEF PutIndexFailed, TypeOK, Readable, CallAgrees
<1>3. NoSharing'
  BY DEF PutIndexFailed, TypeOK, NoSharing, CallAgrees
<1>4. NoLitter'
  BY DEF PutIndexFailed, LeavesBehind, TypeOK, NoLitter, CallAgrees
<1>5. CallAgrees'
  BY DEF PutIndexFailed, CallAgrees
<1>6. SuspectsAreNobodys'
  BY DEF PutIndexFailed, LeavesBehind, TypeOK, SuspectsAreNobodys
<1> QED  BY <1>1, <1>2, <1>3, <1>4, <1>5, <1>6

LEMMA PutOldKeepsIInv ==
  ASSUME IInv, PutOld
  PROVE  IInv'
<1> USE DEF IInv, IndexMatchesObjects
<1>1. TypeOK'
  BY DEF PutOld, TypeOK, SuspectsAreNobodys
<1>2. Readable'
  BY DEF PutOld, Readable, CallAgrees
<1>3. NoSharing'
  BY DEF PutOld, NoSharing
<1>4. NoLitter'
  BY DEF PutOld, TypeOK, NoLitter, CallAgrees
<1>5. CallAgrees'
  BY DEF PutOld, TypeOK, CallAgrees
<1>6. SuspectsAreNobodys'
  BY DEF PutOld, TypeOK, SuspectsAreNobodys
<1> QED  BY <1>1, <1>2, <1>3, <1>4, <1>5, <1>6

LEMMA PutRollbackKeepsIInv ==
  ASSUME IInv, PutRollback
  PROVE  IInv'
<1> USE DEF IInv, IndexMatchesObjects
<1>1. TypeOK'
  BY DEF PutRollback, Restored, LeavesBehind, TypeOK
<1>2. Readable'
  BY DEF PutRollback, Restored, TypeOK, Readable, NoSharing, CallAgrees
<1>3. NoSharing'
  BY DEF PutRollback, Restored, TypeOK, NoSharing, CallAgrees
<1>4. NoLitter'
  BY DEF PutRollback, Restored, LeavesBehind, TypeOK, NoLitter, CallAgrees
<1>5. CallAgrees'
  BY DEF PutRollback, CallAgrees
<1>6. SuspectsAreNobodys'
  BY DEF PutRollback, Restored, LeavesBehind, TypeOK, SuspectsAreNobodys
<1> QED  BY <1>1, <1>2, <1>3, <1>4, <1>5, <1>6

LEMMA DropObjectKeepsIInv ==
  ASSUME IInv, NEW s \in Secrets, DropObject(s)
  PROVE  IInv'
<1> USE DEF IInv, IndexMatchesObjects
<1>1. TypeOK'
  BY DEF DropObject, TypeOK, SuspectsAreNobodys
<1>2. Readable'
  BY DEF DropObject, Readable, NoSharing
<1>3. NoSharing'
  BY DEF DropObject, NoSharing
<1>4. NoLitter'
  BY DEF DropObject, TypeOK, NoLitter
<1>5. CallAgrees'
  BY DEF DropObject, CallAgrees
<1>6. SuspectsAreNobodys'
  BY DEF DropObject, TypeOK, SuspectsAreNobodys
<1> QED  BY <1>1, <1>2, <1>3, <1>4, <1>5, <1>6

LEMMA DropEntryKeepsIInv ==
  ASSUME IInv, DropEntry
  PROVE  IInv'
<1> USE DEF IInv, IndexMatchesObjects
<1>1. TypeOK'
  BY DEF DropEntry, TypeOK
<1>2. Readable'
  BY DEF DropEntry, TypeOK, Readable
<1>3. NoSharing'
  BY DEF DropEntry, TypeOK, NoSharing
<1>4. NoLitter'
  BY DEF DropEntry, TypeOK, NoLitter, CallAgrees
<1>5. CallAgrees'
  BY DEF DropEntry, CallAgrees
<1>6. SuspectsAreNobodys'
  BY DEF DropEntry, TypeOK, SuspectsAreNobodys
<1> QED  BY <1>1, <1>2, <1>3, <1>4, <1>5, <1>6

LEMMA CrashKeepsIInv ==
  ASSUME IInv, Crash
  PROVE  IInv'
<1> USE DEF IInv, IndexMatchesObjects
<1>1. TypeOK'
  BY DEF Crash, LeavesBehind, TypeOK
<1>2. Readable'
  BY DEF Crash, Readable
<1>3. NoSharing'
  BY DEF Crash, NoSharing
<1>4. NoLitter'
  BY DEF Crash, LeavesBehind, NoLitter
<1>5. CallAgrees'
  BY DEF Crash, CallAgrees
<1>6. SuspectsAreNobodys'
  BY DEF Crash, LeavesBehind, TypeOK, SuspectsAreNobodys
<1> QED  BY <1>1, <1>2, <1>3, <1>4, <1>5, <1>6

LEMMA NextIInv ==
  ASSUME IInv, [Next]_vars
  PROVE  IInv'
<1>1. CASE UNCHANGED vars
  BY <1>1 DEF vars, IInv, TypeOK, IndexMatchesObjects, Readable, NoSharing,
              NoLitter, CallAgrees, SuspectsAreNobodys
<1>2. CASE \E s \in Secrets, o \in Objects : PutObject(s, o)
  BY <1>2, PutObjectKeepsIInv
<1>3. CASE PutIndex
  BY <1>3, PutIndexedKeepsIInv, PutIndexFailedKeepsIInv DEF PutIndex
<1>4. CASE \E s \in Secrets : DropObject(s)
  BY <1>4, DropObjectKeepsIInv
<1> QED
  BY <1>1, <1>2, <1>3, <1>4, PutOldKeepsIInv, PutRollbackKeepsIInv,
     DropEntryKeepsIInv, CrashKeepsIInv DEF Next

-----------------------------------------------------------------------------
(* The theorems.                                                           *)

\* The invariant holds in every reachable state.
THEOREM Invariance == Spec => []IInv
<1>1. Init => IInv
  BY InitIInv
<1>2. IInv /\ [Next]_vars => IInv'
  BY NextIInv
<1> QED  BY <1>1, <1>2, PTL DEF Spec

\* Every call keeps the types of the vault's state.
THEOREM TypeCorrectness == Spec => []TypeOK
<1>1. IInv => TypeOK
  BY DEF IInv
<1> QED  BY <1>1, Invariance, PTL

\* A put that is killed at any of its file steps loses no secret, and files
\* that belong to nobody come only from calls that failed or died.
THEOREM IndexAgrees == Spec => []IndexMatchesObjects
<1>1. IInv => IndexMatchesObjects
  BY DEF IInv
<1> QED  BY <1>1, Invariance, PTL

\* Each action ends the call it ends with a true answer.
LEMMA StepIsTruthful ==
  ASSUME IInv, Next, NEW s \in Secrets
  PROVE  Truthful(s)
<1> USE DEF IInv, TypeOK, Truthful
<1>1. CASE \E x \in Secrets, o \in Objects : PutObject(x, o)
  BY <1>1 DEF PutObject
<1>2. CASE PutIndex /\ PutIndexed
  BY <1>2 DEF PutIndex, PutIndexed, CallAgrees
<1>3. CASE PutIndex /\ PutIndexFailed
  BY <1>3 DEF PutIndex, PutIndexFailed, CallAgrees, IndexMatchesObjects, Readable
<1>4. CASE PutOld
  BY <1>4 DEF PutOld, CallAgrees
<1>5. CASE PutRollback
  BY <1>5 DEF PutRollback, Restored, CallAgrees
<1>6. CASE \E x \in Secrets : DropObject(x)
  BY <1>6 DEF DropObject
<1>7. CASE DropEntry
  BY <1>7 DEF DropEntry, CallAgrees
<1>8. CASE Crash
  BY <1>8 DEF Crash
<1> QED
  BY <1>1, <1>2, <1>3, <1>4, <1>5, <1>6, <1>7, <1>8 DEF Next, PutIndex

\* An answer "ok" of put or delete, and an error of put that met nothing it had
\* already changed, tell what is stored.
THEOREM AnswersAreTrue == Spec => AnswerIsTrue
<1>1. IInv /\ [Next]_vars => [\A s \in Secrets : Truthful(s)]_vars
  BY StepIsTruthful
<1> QED  BY <1>1, Invariance, PTL DEF Spec, AnswerIsTrue
=============================================================================
