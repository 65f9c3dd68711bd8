------------------------------ MODULE HrbProofs ------------------------------
(***************************************************************************)
(* Theorems about the Host Resource Broker, for all leases, keys and       *)
(* projections and every bound: the lease ledger, the eviction with the    *)
(* parties that answer it, and the issuer of derived leases.               *)
(***************************************************************************)
EXTENDS HrbEviction, CompositeLease, TLAPS, SequenceTheorems,
        FiniteSetTheorems

-----------------------------------------------------------------------------
(* Part 1.  The lease ledger (LeaseLedger).                                *)

RecordTable == [Leases -> [Generations -> Record]]

-----------------------------------------------------------------------------
(* Lemmas about the operators of the ledger.                               *)

\* Store changes the one record it is given and keeps the table well typed.
LEMMA StoreEffect ==
  ASSUME NEW l \in Leases, NEW g \in Generations, NEW r \in Record,
         records \in RecordTable, Store(l, g, r)
  PROVE  /\ records' \in RecordTable
         /\ records'[l][g] = r
         /\ \A m \in Leases, h \in Generations :
              m # l \/ h # g => records'[m][h] = records[m][h]
  BY DEF Store, RecordTable

\* A record that the ledger builds from a well-typed record is well typed.
LEMMA RecordType ==
  ASSUME NEW r \in Record, activeKey \in KeyIds, boot \in Boots
  PROVE  /\ NoRecord \in Record
         /\ Signed(r) \in Record
         /\ \A s \in States : [r EXCEPT !.state = s] \in Record
         /\ \A s \in States : Signed([r EXCEPT !.state = s]) \in Record
         /\ RevokingRecord(r) \in Record
         /\ [r EXCEPT !.expired = TRUE] \in Record
         /\ \A p \in Projections :
              Signed([r EXCEPT !.refs = @ \cup {p}]) \in Record
         /\ IssuedRecord \in Record
<1>1. NoRecord \in Record
  BY LedgerAssumption, KeyringAssumption
  DEF Record, NoRecord, Boots, States, Usable, Terminal
<1>2. \A q \in Record : Signed(q) \in Record
  BY DEF Record, Signed
<1>3. \A q \in Record, s \in States : [q EXCEPT !.state = s] \in Record
  BY DEF Record
<1>4. RevokingRecord(r) \in Record
  <2>1. "REVOKING" \in States
    BY DEF States
  <2>2. [r EXCEPT !.state = "REVOKING", !.restartBlocked = TRUE] \in Record
    BY <2>1 DEF Record
  <2> QED
    BY <1>2, <2>2 DEF RevokingRecord
<1>5. [r EXCEPT !.expired = TRUE] \in Record
  BY DEF Record
<1>6. \A p \in Projections : [r EXCEPT !.refs = @ \cup {p}] \in Record
  BY DEF Record
<1>7. IssuedRecord \in Record
  <2>1. "ISSUED" \in States
    BY DEF States, Usable
  <2>2. [NoRecord EXCEPT !.state = "ISSUED", !.boot = boot] \in Record
    BY <1>1, <2>1 DEF Record
  <2> QED
    BY <1>2, <2>2 DEF IssuedRecord
<1> QED
  BY <1>1, <1>2, <1>3, <1>4, <1>5, <1>6, <1>7

\* What the two ways of marking a record for revocation, a change of state and
\* a signature leave of it.
LEMMA RecordFields ==
  ASSUME NEW r \in Record, NEW s \in States
  PROVE  /\ Signed([r EXCEPT !.state = s]).state = s
         /\ Signed([r EXCEPT !.state = s]).supersededBy = r.supersededBy
         /\ Signed([r EXCEPT !.state = s]).restartBlocked = r.restartBlocked
         /\ RevokingRecord(r).state = "REVOKING"
         /\ RevokingRecord(r).supersededBy = r.supersededBy
         /\ RevokingRecord(r).restartBlocked = TRUE
         /\ [r EXCEPT !.expired = TRUE].state = r.state
         /\ [r EXCEPT !.expired = TRUE].supersededBy = r.supersededBy
         /\ [r EXCEPT !.expired = TRUE].restartBlocked = r.restartBlocked
  BY DEF Record, Signed, RevokingRecord

\* Whoever holds the ledger lock evicts some generation of some lease.
LEMMA HolderType ==
  ASSUME TypeOK, eviction # NoEviction
  PROVE  /\ eviction \in Eviction
         /\ eviction.call \in Calls
         /\ eviction.lease \in Leases
         /\ eviction.generation \in Generations
         /\ eviction.failed \in BOOLEAN
  BY DEF TypeOK, Eviction

\* An external call that returns leaves a well-typed holder behind.
LEMMA ProceedType ==
  ASSUME TypeOK, NEW called \in Calls, NEW next \in Calls, NEW ok \in BOOLEAN,
         Proceed(called, next, ok)
  PROVE  /\ eviction # NoEviction
         /\ eviction' \in Eviction
         /\ eviction'.call = next
         /\ eviction'.lease = eviction.lease
         /\ eviction'.generation = eviction.generation
<1>1. eviction # NoEviction
  BY DEF Proceed, NoEviction, Calls
<1>2. eviction \in Eviction
  BY <1>1, HolderType
<1>3. eviction' = [eviction EXCEPT !.call = next, !.failed = @ \/ ~ok]
  BY DEF Proceed
<1>4. (eviction.failed \/ ~ok) \in BOOLEAN
  OBVIOUS
<1> QED
  BY <1>1, <1>2, <1>3, <1>4 DEF Eviction

\* Each event of the log names a generation of a lease and a final state.
LEMMA EventType ==
  ASSUME TypeOK
  PROVE  \A i \in DOMAIN evidence :
           /\ evidence[i].lease \in Leases
           /\ evidence[i].generation \in Generations
           /\ evidence[i].state \in Terminal
<1>1. evidence \in Seq(Event)
  BY DEF TypeOK
<1>2. \A i \in DOMAIN evidence : evidence[i] \in Event
  BY <1>1
<1> QED
  BY <1>2 DEF Event

\* IInv is the inductive invariant: the three safety invariants hold each
\* other up.  The chain says which generation an eviction can hold, the guard
\* on teardown that its record is not final yet, and that in turn that the
\* evidence log has no event for it.
IInv == TypeOK /\ GenerationChain /\ TeardownIsGuarded /\ OneFinalEvent

\* A record that exists has a number up to the current one.
LEMMA ExistsUpToCurrent ==
  ASSUME IInv, NEW l \in Leases, NEW g \in Generations,
         records[l][g].state # "NONE"
  PROVE  /\ g <= current[l]
         /\ g < current[l] => records[l][g].state = "REVOKING"
  BY LedgerAssumption
     DEF IInv, TypeOK, GenerationChain, Generations, NoRecord

\* A change of the state of a record that exists leaves the chain whole if it is
\* a change of the current generation.
LEMMA TouchKeepsChain ==
  ASSUME IInv, NEW l \in Leases, NEW g \in Generations, NEW r \in Record,
         Store(l, g, r), current' = current,
         records[l][g].state # "NONE", r.state # "NONE",
         r.supersededBy = records[l][g].supersededBy,
         g = current[l] \/ r.state = records[l][g].state
  PROVE  GenerationChain'
<1>1. /\ records'[l][g] = r
      /\ \A m \in Leases, h \in Generations :
           m # l \/ h # g => records'[m][h] = records[m][h]
  BY StoreEffect DEF IInv, TypeOK, RecordTable
<1>2. g <= current[l]
  BY ExistsUpToCurrent
<1>3. current \in [Leases -> 0..MaxGeneration] /\ GenerationChain
  BY DEF IInv, TypeOK
<1> QED
  BY <1>1, <1>2, <1>3, LedgerAssumption DEF GenerationChain, Generations

\* While no event is appended, a step in which no record enters or leaves a
\* final state keeps the log in step with the records.
LEMMA SameFinalStates ==
  ASSUME IInv, evidence' = evidence,
         \A m \in Leases, h \in Generations :
           \/ records'[m][h].state = records[m][h].state
           \/ /\ records'[m][h].state \notin Terminal
              /\ records[m][h].state \notin Terminal
  PROVE  OneFinalEvent'
<1>1. \A i \in DOMAIN evidence :
        /\ evidence[i].lease \in Leases
        /\ evidence[i].generation \in Generations
        /\ evidence[i].state \in Terminal
  BY EventType DEF IInv
<1>2. OneFinalEvent
  BY DEF IInv
<1>3. \A i \in DOMAIN evidence :
        records'[evidence[i].lease][evidence[i].generation].state
          = evidence[i].state
  BY <1>1, <1>2 DEF OneFinalEvent
<1> QED
  BY <1>2, <1>3 DEF OneFinalEvent

\* The same for a change of one record.
LEMMA TouchKeepsEvents ==
  ASSUME IInv, NEW l \in Leases, NEW g \in Generations, NEW r \in Record,
         Store(l, g, r), evidence' = evidence,
         \/ r.state = records[l][g].state
         \/ r.state \notin Terminal /\ records[l][g].state \notin Terminal
  PROVE  OneFinalEvent'
<1>1. /\ records'[l][g] = r
      /\ \A m \in Leases, h \in Generations :
           m # l \/ h # g => records'[m][h] = records[m][h]
  BY StoreEffect DEF IInv, TypeOK, RecordTable
<1> QED
  BY <1>1, SameFinalStates

\* While nobody evicts, a record that gets a state from which no teardown has
\* begun breaks no guard on teardown.
LEMMA QuietKeepsTeardown ==
  ASSUME IInv, LockFree, NEW l \in Leases, NEW g \in Generations,
         NEW r \in Record, Store(l, g, r), eviction' = eviction,
         r.state \in Usable \cup {"REVOKING"}
  PROVE  TeardownIsGuarded'
<1>1. /\ records'[l][g] = r
      /\ \A m \in Leases, h \in Generations :
           m # l \/ h # g => records'[m][h] = records[m][h]
  BY StoreEffect DEF IInv, TypeOK, RecordTable
<1>2. eviction = NoEviction /\ eviction' = NoEviction
  BY DEF LockFree
<1>3. \A m \in Leases : NoEviction.lease # m
  BY LedgerAssumption DEF NoEviction
<1>4. TeardownIsGuarded
  BY DEF IInv
<1> QED
  BY <1>1, <1>2, <1>3, <1>4 DEF TeardownIsGuarded, Usable, Terminal

\* A step that changes neither the holder of the lock nor the state and the
\* restart block of any record keeps the guard on teardown.
LEMMA ClockKeepsTeardown ==
  ASSUME IInv, NEW l \in Leases, NEW g \in Generations, NEW r \in Record,
         Store(l, g, r), eviction' = eviction, current' = current,
         r.state = records[l][g].state,
         r.restartBlocked = records[l][g].restartBlocked
  PROVE  TeardownIsGuarded'
<1>1. /\ records'[l][g] = r
      /\ \A m \in Leases, h \in Generations :
           m # l \/ h # g => records'[m][h] = records[m][h]
  BY StoreEffect DEF IInv, TypeOK, RecordTable
<1>2. \A m \in Leases, h \in Generations :
        /\ records'[m][h].state = records[m][h].state
        /\ records'[m][h].restartBlocked = records[m][h].restartBlocked
  BY <1>1
<1> QED
  BY <1>2 DEF IInv, TeardownIsGuarded

\* What the guard on teardown says of the holder of the lock.
LEMMA HolderState ==
  ASSUME IInv, eviction # NoEviction
  PROVE  LET l == eviction.lease
             g == eviction.generation
         IN  /\ l \in Leases
             /\ g \in Generations
             /\ g = current[l]
             /\ records[l][g].state = StateDuring(eviction.call)
             /\ records[l][g].restartBlocked
             /\ records[l][g].state \notin Terminal \cup {"NONE"}
             /\ records[l][g] \in Record
<1>1. eviction.lease \in Leases /\ eviction.generation \in Generations
  BY HolderType DEF IInv
<1>2. TeardownIsGuarded
  BY DEF IInv
<1>3. StateDuring(eviction.call) \notin Terminal \cup {"NONE"}
  BY DEF StateDuring, Terminal
<1>4. records \in RecordTable
  BY DEF IInv, TypeOK, RecordTable
<1>5. records[eviction.lease][eviction.generation] \in Record
  BY <1>1, <1>4 DEF RecordTable
<1>6. records[eviction.lease][eviction.generation].state
        = StateDuring(eviction.call)
  BY <1>1, <1>2 DEF TeardownIsGuarded
<1>7. /\ eviction.generation = current[eviction.lease]
      /\ records[eviction.lease][eviction.generation].restartBlocked
  BY <1>1, <1>2 DEF TeardownIsGuarded
<1> QED
  BY <1>1, <1>3, <1>5, <1>6, <1>7

\* Going on from one call to the next, with the record in the state that belongs
\* to the next call, keeps the guard on teardown.
LEMMA ProceedKeepsTeardown ==
  ASSUME IInv, NEW called \in Calls, NEW next \in Calls, NEW ok \in BOOLEAN,
         Proceed(called, next, ok), current' = current,
         NEW r \in Record, Store(eviction.lease, eviction.generation, r),
         r.state = StateDuring(next),
         r.restartBlocked
           = records[eviction.lease][eviction.generation].restartBlocked
  PROVE  TeardownIsGuarded'
<1> DEFINE l == eviction.lease
           g == eviction.generation
<1>1. /\ eviction # NoEviction
      /\ eviction'.call = next
      /\ eviction'.lease = l
      /\ eviction'.generation = g
  BY ProceedType DEF IInv
<1>2. /\ l \in Leases
      /\ g \in Generations
      /\ g = current[l]
      /\ records[l][g].restartBlocked
  BY <1>1, HolderState
<1>3. /\ records'[l][g] = r
      /\ \A m \in Leases, h \in Generations :
           m # l \/ h # g => records'[m][h] = records[m][h]
  BY <1>2, StoreEffect DEF IInv, TypeOK, RecordTable
<1>4. StateDuring(next) \notin Terminal
  BY DEF StateDuring, Terminal
<1> SUFFICES ASSUME NEW m \in Leases, NEW h \in Generations
             PROVE  TeardownIsGuarded!(m, h)'
  BY DEF TeardownIsGuarded
<1>5. TeardownIsGuarded!(m, h)
  BY DEF IInv, TeardownIsGuarded
<1>6. CASE m = l /\ h = g
  BY <1>1, <1>2, <1>3, <1>6
<1>7. CASE m # l \/ h # g
  BY <1>1, <1>3, <1>5, <1>7
<1> QED
  BY <1>6, <1>7

\* The last step of an eviction: the current generation, blocked and not final
\* yet, reaches a final state and the log gets its one event.
LEMMA ConcludeKeepsIInv ==
  ASSUME IInv, NEW l \in Leases, NEW g \in Generations, NEW r \in Record,
         NEW final \in Terminal, Conclude(l, g, r, final),
         g = current[l],
         records[l][g].state \notin Terminal \cup {"NONE"},
         r.supersededBy = records[l][g].supersededBy,
         r.restartBlocked,
         LockFree \/ (eviction.lease = l /\ eviction.generation = g)
  PROVE  IInv'
<1> DEFINE q == Signed([r EXCEPT !.state = final])
           event == [lease |-> l, generation |-> g, state |-> final]
<1>1. /\ final \in States
      /\ q \in Record
      /\ q.state = final
      /\ q.supersededBy = records[l][g].supersededBy
      /\ q.restartBlocked
  <2>1. final \in States
    BY DEF States
  <2>2. activeKey \in KeyIds /\ boot \in Boots
    BY DEF IInv, TypeOK
  <2> QED
    BY <2>1, <2>2, RecordType, RecordFields
<1>2. /\ Store(l, g, q)
      /\ evidence' = Append(evidence, event)
      /\ eviction' = NoEviction
      /\ current' = current /\ boot' = boot
      /\ keys' = keys /\ activeKey' = activeKey
  BY DEF Conclude, keyringVars
<1>3. /\ records' \in RecordTable
      /\ records'[l][g] = q
      /\ \A m \in Leases, h \in Generations :
           m # l \/ h # g => records'[m][h] = records[m][h]
  BY <1>1, <1>2, StoreEffect DEF IInv, TypeOK, RecordTable
<1>4. event \in Event /\ evidence \in Seq(Event)
  BY DEF Event, IInv, TypeOK
<1>5. /\ evidence' \in Seq(Event)
      /\ Len(evidence') = Len(evidence) + 1
      /\ \A i \in 1..Len(evidence) : evidence'[i] = evidence[i]
      /\ evidence'[Len(evidence) + 1] = event
  BY <1>2, <1>4, AppendProperties
<1>6. TypeOK'
  <2>1. /\ current \in [Leases -> 0..MaxGeneration]
        /\ keys \in SUBSET KeyIds
        /\ activeKey \in keys
        /\ boot \in Boots
    BY DEF IInv, TypeOK
  <2> QED
    BY <1>2, <1>3, <1>5, <2>1 DEF TypeOK, RecordTable
<1>7. GenerationChain'
  <2>1. q.state # "NONE"
    BY <1>1 DEF Terminal
  <2> QED
    BY <1>1, <1>2, <2>1, TouchKeepsChain
<1>8. TeardownIsGuarded'
  <2>1. \A m \in Leases : NoEviction.lease # m
    BY LedgerAssumption DEF NoEviction
  <2>2. TeardownIsGuarded
    BY DEF IInv
  <2>3. \A m \in Leases, h \in Generations :
          m # l \/ h # g => records[m][h].state \notin {"EVICTING", "VERIFYING"}
    <3>1. CASE LockFree
      BY <2>1, <2>2, <3>1 DEF LockFree, TeardownIsGuarded
    <3>2. CASE eviction.lease = l /\ eviction.generation = g
      BY <2>2, <3>2 DEF TeardownIsGuarded
    <3> QED
      BY <3>1, <3>2
  <2> SUFFICES ASSUME NEW m \in Leases, NEW h \in Generations
               PROVE  TeardownIsGuarded!(m, h)'
    BY DEF TeardownIsGuarded
  <2>4. CASE m = l /\ h = g
    BY <1>1, <1>2, <1>3, <2>1, <2>4 DEF Terminal
  <2>5. CASE m # l \/ h # g
    BY <1>2, <1>3, <2>1, <2>2, <2>3, <2>5 DEF TeardownIsGuarded
  <2> QED
    BY <2>4, <2>5
<1>9. OneFinalEvent'
  <2>1. DOMAIN evidence = 1..Len(evidence) /\ Len(evidence) \in Nat
    BY <1>4
  <2>2. DOMAIN evidence' = 1..(Len(evidence) + 1)
    BY <1>5
  <2>3. \A i \in 1..Len(evidence) :
          /\ evidence[i].lease \in Leases
          /\ evidence[i].generation \in Generations
          /\ evidence[i].state \in Terminal
    BY <2>1, EventType DEF IInv
  <2>4. OneFinalEvent
    BY DEF IInv
  <2>5. \A i \in 1..Len(evidence) :
          evidence[i].lease # l \/ evidence[i].generation # g
    BY <2>1, <2>3, <2>4 DEF OneFinalEvent
  <2>6. event.lease = l /\ event.generation = g /\ event.state = final
    OBVIOUS
  <2>7. \A i \in DOMAIN evidence' :
          records'[evidence'[i].lease][evidence'[i].generation].state
            = evidence'[i].state
    <3> TAKE i \in DOMAIN evidence'
    <3>1. CASE i = Len(evidence) + 1
      BY <1>1, <1>3, <1>5, <2>6, <3>1
    <3>2. CASE i \in 1..Len(evidence)
      BY <1>3, <1>5, <2>1, <2>3, <2>4, <2>5, <3>2 DEF OneFinalEvent
    <3> QED
      BY <2>1, <2>2, <3>1, <3>2
  <2>8. \A i, j \in DOMAIN evidence' :
          /\ evidence'[i].lease = evidence'[j].lease
          /\ evidence'[i].generation = evidence'[j].generation
          => i = j
    <3> TAKE i, j \in DOMAIN evidence'
    <3>1. CASE i \in 1..Len(evidence) /\ j \in 1..Len(evidence)
      BY <1>5, <2>1, <2>4, <3>1 DEF OneFinalEvent
    <3>2. CASE i = Len(evidence) + 1 /\ j \in 1..Len(evidence)
      BY <1>5, <2>5, <2>6, <3>2
    <3>3. CASE i \in 1..Len(evidence) /\ j = Len(evidence) + 1
      BY <1>5, <2>5, <2>6, <3>3
    <3> QED
      BY <2>1, <2>2, <3>1, <3>2, <3>3
  <2>9. \A m \in Leases, h \in Generations :
          records'[m][h].state \in Terminal =>
            \E i \in DOMAIN evidence' :
              evidence'[i].lease = m /\ evidence'[i].generation = h
    <3> TAKE m \in Leases, h \in Generations
    <3>1. CASE m = l /\ h = g
      BY <1>5, <2>1, <2>2, <2>6, <3>1
    <3>2. CASE m # l \/ h # g
      BY <1>3, <1>5, <2>1, <2>2, <2>4, <3>2 DEF OneFinalEvent
    <3> QED
      BY <3>1, <3>2
  <2> QED
    BY <2>7, <2>8, <2>9 DEF OneFinalEvent
<1> QED
  BY <1>6, <1>7, <1>8, <1>9 DEF IInv

-----------------------------------------------------------------------------
(* The invariant: the initial state has it and every action keeps it.      *)

LEMMA InitIInv == Init => IInv
<1> SUFFICES ASSUME Init PROVE IInv
  OBVIOUS
<1> USE DEF Init, KeyringInit
<1>1. TypeOK
  <2>1. NoRecord \in Record
    BY LedgerAssumption, KeyringAssumption
    DEF Record, NoRecord, Boots, States, Usable, Terminal
  <2>2. boot \in Boots /\ \A l \in Leases : 0 \in 0..MaxGeneration
    BY LedgerAssumption DEF Boots
  <2> QED
    BY <2>1, <2>2, LedgerAssumption, KeyringAssumption, EmptySeq DEF TypeOK
<1>2. GenerationChain
  BY DEF GenerationChain, Generations
<1>3. TeardownIsGuarded
  BY LedgerAssumption DEF TeardownIsGuarded, NoEviction, NoRecord, Terminal
<1>4. OneFinalEvent
  BY DEF OneFinalEvent, NoRecord, Terminal
<1> QED
  BY <1>1, <1>2, <1>3, <1>4 DEF IInv

\* A method that, with the lock free, gives the record of the current generation
\* another state on this side of a teardown.
LEMMA MethodKeepsIInv ==
  ASSUME IInv, LockFree, NEW l \in Leases, NEW g \in Generations,
         NEW r \in Record, Store(l, g, r),
         UNCHANGED <<current, keyringVars, boot, eviction, evidence>>,
         IsCurrent(l, g),
         records[l][g].state \notin Terminal,
         r.state \in Usable \cup {"REVOKING"},
         r.supersededBy = records[l][g].supersededBy
  PROVE  IInv'
<1>1. /\ r.state # "NONE"
      /\ r.state \notin Terminal
      /\ records[l][g].state # "NONE"
      /\ g = current[l]
  BY DEF Usable, Terminal, IsCurrent
<1>2. records' \in RecordTable
  BY StoreEffect DEF IInv, TypeOK, RecordTable
<1>3. TypeOK'
  BY <1>2 DEF IInv, TypeOK, RecordTable, keyringVars
<1>4. GenerationChain'
  BY <1>1, TouchKeepsChain
<1>5. TeardownIsGuarded'
  BY QuietKeepsTeardown
<1>6. OneFinalEvent'
  BY <1>1, TouchKeepsEvents
<1> QED
  BY <1>3, <1>4, <1>5, <1>6 DEF IInv

\* The record of a generation that was just issued.
LEMMA IssuedFields ==
  /\ IssuedRecord.state = "ISSUED"
  /\ IssuedRecord.supersededBy = 0
  /\ NoRecord.state = "NONE"
  BY DEF IssuedRecord, Signed, NoRecord

\* Renewal moves two records at once: the old generation is superseded and its
\* successor becomes the current one.
LEMMA RenewEffect ==
  ASSUME IInv, NEW l \in Leases, NEW g \in Generations, Renew(l, g)
  PROVE  /\ LockFree
         /\ g = current[l]
         /\ g + 1 \in Generations
         /\ current' = [current EXCEPT ![l] = g + 1]
         /\ UNCHANGED <<keys, activeKey, boot, eviction, evidence>>
         /\ records[l][g].state = "ACTIVE"
         /\ records[l][g + 1].state = "NONE"
         /\ records' \in RecordTable
         /\ records'[l][g].state = "REVOKING"
         /\ records'[l][g].supersededBy = g + 1
         /\ records'[l][g + 1].state = "ACTIVE"
         /\ records'[l][g + 1].supersededBy = 0
         /\ \A m \in Leases, h \in Generations :
              m # l \/ (h # g /\ h # g + 1) => records'[m][h] = records[m][h]
<1> DEFINE old == SupersededRecord(records[l][g], g)
           new == [IssuedRecord EXCEPT !.state = "ACTIVE"]
<1>1. /\ LockFree
      /\ g = current[l]
      /\ records[l][g].state = "ACTIVE"
      /\ g < MaxGeneration
      /\ records' = [records EXCEPT ![l][g] = old, ![l][g + 1] = new]
      /\ current' = [current EXCEPT ![l] = g + 1]
      /\ UNCHANGED <<keys, activeKey, boot, eviction, evidence>>
  BY DEF Renew, IsCurrent, keyringVars, SupersededRecord, Signed
<1>2. /\ records \in RecordTable
      /\ current \in [Leases -> 0..MaxGeneration]
      /\ activeKey \in KeyIds
      /\ boot \in Boots
      /\ records[l][g] \in Record
  BY DEF IInv, TypeOK, RecordTable
<1>3. /\ g + 1 \in Generations /\ g + 1 \in 0..MaxGeneration
      /\ g # g + 1
  BY <1>1, LedgerAssumption DEF Generations
<1>4. /\ old \in Record
      /\ old.state = "REVOKING"
      /\ old.supersededBy = g + 1
  <2>1. "REVOKING" \in States
    BY DEF States
  <2> QED
    BY <1>2, <1>3, <2>1 DEF SupersededRecord, Signed, Record
<1>5. /\ new \in Record
      /\ new.state = "ACTIVE"
      /\ new.supersededBy = 0
  <2>1. IssuedRecord \in Record /\ "ACTIVE" \in States
    BY <1>2, RecordType DEF States, Usable
  <2> QED
    BY <2>1, RecordType, <1>2, IssuedFields DEF Record
<1>6. /\ records' \in RecordTable
      /\ records'[l][g] = old
      /\ records'[l][g + 1] = new
      /\ \A m \in Leases, h \in Generations :
           m # l \/ (h # g /\ h # g + 1) => records'[m][h] = records[m][h]
  BY <1>1, <1>2, <1>3, <1>4, <1>5 DEF RecordTable
<1>7. records[l][g + 1].state = "NONE"
  BY <1>1, <1>3, IssuedFields DEF IInv, GenerationChain, Generations
<1> QED
  BY <1>1, <1>3, <1>4, <1>5, <1>6, <1>7

\* Renewal keeps the invariant.
LEMMA RenewKeepsIInv ==
  ASSUME IInv, NEW l \in Leases, NEW g \in Generations, Renew(l, g)
  PROVE  IInv'
<1>1. /\ LockFree
      /\ g = current[l]
      /\ g + 1 \in Generations
      /\ current' = [current EXCEPT ![l] = g + 1]
      /\ UNCHANGED <<keys, activeKey, boot, eviction, evidence>>
      /\ records[l][g].state = "ACTIVE"
      /\ records[l][g + 1].state = "NONE"
  BY RenewEffect
<1>2. current \in [Leases -> 0..MaxGeneration]
  BY DEF IInv, TypeOK
<1>3. g + 1 \in 0..MaxGeneration
  BY <1>1 DEF Generations
<1>4. records'[l][g].state = "REVOKING" /\ records'[l][g].supersededBy = g + 1
  BY RenewEffect
<1>5. records'[l][g + 1].state = "ACTIVE" /\ records'[l][g + 1].supersededBy = 0
  BY RenewEffect
<1>6. /\ records' \in RecordTable
      /\ \A m \in Leases, h \in Generations :
           m # l \/ (h # g /\ h # g + 1) => records'[m][h] = records[m][h]
  BY RenewEffect
<1>7. \A m \in Leases, h \in Generations :
        \/ records'[m][h] = records[m][h]
        \/ m = l /\ (h = g \/ h = g + 1)
  BY <1>6
<1>8. TypeOK'
  BY <1>1, <1>2, <1>3, <1>6 DEF IInv, TypeOK, RecordTable
<1>9. GenerationChain'
  <2> SUFFICES ASSUME NEW m \in Leases, NEW h \in Generations
               PROVE  GenerationChain!(m, h)'
    BY DEF GenerationChain
  <2>1. GenerationChain!(m, h)
    BY DEF IInv, GenerationChain
  <2>2. CASE m # l
    BY <1>1, <1>2, <1>6, <2>1, <2>2
  <2>3. CASE m = l
    <3>1. /\ current'[m] = g + 1
          /\ current[m] = g
      BY <1>1, <1>2, <2>3
    <3>2. h \in Nat /\ g \in Nat
      BY DEF Generations
    <3>3. CASE h = g
      <4>1. /\ h < current'[m]
            /\ records'[m][h].state = "REVOKING"
            /\ records'[m][h].supersededBy = h + 1
        BY <1>4, <1>6, <2>3, <3>1, <3>2, <3>3
      <4> QED
        BY <3>1, <3>2, <4>1
    <3>4. CASE h = g + 1
      <4>1. /\ h = current'[m]
            /\ records'[m][h].state # "NONE"
            /\ records'[m][h].supersededBy = 0
        BY <1>5, <1>6, <2>3, <3>1, <3>4
      <4> QED
        BY <3>1, <3>2, <4>1
    <3>5. CASE h # g /\ h # g + 1
      <4>1. records'[m][h] = records[m][h]
        BY <1>6, <3>5
      <4>2. /\ h # current'[m]
            /\ h < current'[m] <=> h < current[m]
            /\ h > current'[m] => h > current[m]
        BY <3>1, <3>2, <3>5
      <4> QED
        BY <2>1, <4>1, <4>2
    <3> QED
      BY <3>3, <3>4, <3>5
  <2> QED
    BY <2>2, <2>3
<1>10. TeardownIsGuarded'
  <2>1. \A m \in Leases : NoEviction.lease # m
    BY LedgerAssumption DEF NoEviction
  <2>2. eviction = NoEviction /\ eviction' = NoEviction
    BY <1>1 DEF LockFree
  <2>3. \A m \in Leases, h \in Generations :
          \/ records'[m][h] = records[m][h]
          \/ records'[m][h].state \in {"REVOKING", "ACTIVE"}
    BY <1>4, <1>5, <1>7
  <2>4. TeardownIsGuarded
    BY DEF IInv
  <2> QED
    BY <2>1, <2>2, <2>3, <2>4 DEF TeardownIsGuarded, Terminal
<1>11. OneFinalEvent'
  <2>1. \A m \in Leases, h \in Generations :
          \/ records'[m][h].state = records[m][h].state
          \/ /\ records'[m][h].state \notin Terminal
             /\ records[m][h].state \notin Terminal
    BY <1>1, <1>4, <1>5, <1>7 DEF Terminal
  <2> QED
    BY <1>1, <2>1, SameFinalStates
<1> QED
  BY <1>8, <1>9, <1>10, <1>11 DEF IInv

\* evict up to its first external call, or up to the quarantine of a scope that
\* can be restarted.
LEMMA EvictBeginKeepsIInv ==
  ASSUME IInv, NEW l \in Leases, NEW g \in Generations,
         NEW restartBlocked \in BOOLEAN, EvictBegin(l, g, restartBlocked)
  PROVE  IInv'
<1> DEFINE r == RevokingRecord(records[l][g])
<1>1. /\ LockFree
      /\ g = current[l]
      /\ records[l][g].state \in Usable \cup {"REVOKING"}
      /\ records[l][g].state \notin Terminal \cup {"NONE"}
  BY DEF EvictBegin, MayRevoke, IsCurrent, Revokable, Usable, Terminal
<1>2. /\ records \in RecordTable
      /\ records[l][g] \in Record
      /\ activeKey \in KeyIds
      /\ boot \in Boots
  BY DEF IInv, TypeOK, RecordTable
<1>3. /\ r \in Record
      /\ r.state = "REVOKING"
      /\ r.supersededBy = records[l][g].supersededBy
      /\ r.restartBlocked
  BY <1>2, RecordType, RecordFields DEF States
<1>4. CASE restartBlocked
  <2> DEFINE holder == [call |-> "SECRETS", lease |-> l, generation |-> g,
                        failed |-> FALSE]
  <2>1. /\ Store(l, g, r)
        /\ eviction' = holder
        /\ UNCHANGED <<current, keys, activeKey, boot, evidence>>
    BY <1>1, <1>4 DEF EvictBegin, keyringVars
  <2>2. /\ records' \in RecordTable
        /\ records'[l][g] = r
        /\ \A m \in Leases, h \in Generations :
             m # l \/ h # g => records'[m][h] = records[m][h]
    BY <1>2, <1>3, <2>1, StoreEffect
  <2>3. holder \in Eviction
    BY DEF Eviction, Calls
  <2>4. TypeOK'
    BY <2>1, <2>2, <2>3 DEF IInv, TypeOK, RecordTable
  <2>5. GenerationChain'
    BY <1>1, <1>3, <2>1, TouchKeepsChain
  <2>6. TeardownIsGuarded'
    <3>1. \A m \in Leases : NoEviction.lease # m
      BY LedgerAssumption DEF NoEviction
    <3>2. eviction = NoEviction
      BY <1>1 DEF LockFree
    <3>3. StateDuring("SECRETS") = "REVOKING"
      BY DEF StateDuring
    <3> SUFFICES ASSUME NEW m \in Leases, NEW h \in Generations
                 PROVE  TeardownIsGuarded!(m, h)'
      BY DEF TeardownIsGuarded
    <3>4. TeardownIsGuarded!(m, h)
      BY DEF IInv, TeardownIsGuarded
    <3>5. CASE m = l /\ h = g
      BY <1>1, <1>3, <2>1, <2>2, <3>3, <3>5 DEF Terminal
    <3>6. CASE m # l \/ h # g
      BY <2>1, <2>2, <3>1, <3>2, <3>4, <3>6
    <3> QED
      BY <3>5, <3>6
  <2>7. OneFinalEvent'
    BY <1>1, <1>3, <2>1, TouchKeepsEvents DEF Terminal
  <2> QED
    BY <2>4, <2>5, <2>6, <2>7 DEF IInv
<1>5. CASE ~restartBlocked
  <2>1. Conclude(l, g, r, "QUARANTINED") /\ "QUARANTINED" \in Terminal
    BY <1>5 DEF EvictBegin, Terminal
  <2> QED
    BY <1>1, <1>3, <2>1, ConcludeKeepsIInv
<1> QED
  BY <1>4, <1>5

\* evict from one external call to the next: the holder goes on and its record
\* takes the state of the next call.
LEMMA AdvanceKeepsIInv ==
  ASSUME IInv, NEW called \in Calls, NEW next \in Calls, NEW ok \in BOOLEAN,
         Proceed(called, next, ok),
         NEW r \in Record, Store(eviction.lease, eviction.generation, r),
         r.state = StateDuring(next),
         r.supersededBy
           = records[eviction.lease][eviction.generation].supersededBy,
         r.restartBlocked
           = records[eviction.lease][eviction.generation].restartBlocked,
         UNCHANGED <<current, keyringVars, boot, evidence>>
  PROVE  IInv'
<1> DEFINE l == eviction.lease
           g == eviction.generation
<1>1. eviction # NoEviction /\ eviction' \in Eviction
  BY ProceedType DEF IInv
<1>2. /\ l \in Leases
      /\ g \in Generations
      /\ g = current[l]
      /\ records[l][g].state \notin Terminal \cup {"NONE"}
  BY <1>1, HolderState
<1>3. r.state \notin Terminal \cup {"NONE"}
  BY DEF StateDuring, Terminal
<1>4. records' \in RecordTable
  BY <1>2, StoreEffect DEF IInv, TypeOK, RecordTable
<1>5. TypeOK'
  BY <1>1, <1>4 DEF IInv, TypeOK, RecordTable, keyringVars
<1>6. GenerationChain'
  BY <1>2, <1>3, TouchKeepsChain
<1>7. TeardownIsGuarded'
  BY ProceedKeepsTeardown
<1>8. OneFinalEvent'
  BY <1>2, <1>3, TouchKeepsEvents
<1> QED
  BY <1>5, <1>6, <1>7, <1>8 DEF IInv

\* The three pieces of evict that end in another external call.
LEMMA EvictCallKeepsIInv ==
  ASSUME IInv, NEW ok \in BOOLEAN,
         EvictSecrets(ok) \/ EvictBinding(ok) \/ EvictTerminate(ok)
  PROVE  IInv'
<1> DEFINE l == eviction.lease
           g == eviction.generation
<1>1. eviction # NoEviction
  BY DEF EvictSecrets, EvictBinding, EvictTerminate, Proceed, NoEviction
<1>2. /\ l \in Leases
      /\ g \in Generations
      /\ g = current[l]
      /\ records[l][g].state = StateDuring(eviction.call)
      /\ records[l][g].restartBlocked
      /\ records[l][g].state \notin Terminal \cup {"NONE"}
      /\ records[l][g] \in Record
      /\ records \in RecordTable
      /\ activeKey \in KeyIds
      /\ boot \in Boots
  BY <1>1, HolderState DEF IInv, TypeOK, RecordTable
<1>3. CASE EvictSecrets(ok)
  <2>1. /\ Proceed("SECRETS", "BINDING", ok)
        /\ UNCHANGED <<records, current, keyringVars, boot, evidence>>
        /\ eviction.call = "SECRETS"
    BY <1>3 DEF EvictSecrets, Proceed
  <2>2. Store(l, g, records[l][g])
    BY <1>2, <2>1 DEF Store, RecordTable
  <2>3. records[l][g].state = StateDuring("BINDING")
    BY <1>2, <2>1 DEF StateDuring
  <2>4. "SECRETS" \in Calls /\ "BINDING" \in Calls
    BY DEF Calls
  <2> QED
    BY <1>2, <2>1, <2>2, <2>3, <2>4, AdvanceKeepsIInv
<1>4. CASE EvictBinding(ok)
  <2>1. CASE ok /\ Proceed("BINDING", "TERMINATE", TRUE)
    <3> DEFINE r == Signed([records[l][g] EXCEPT !.state = "EVICTING"])
    <3>1. /\ Store(l, g, r)
          /\ UNCHANGED <<current, keyringVars, boot, evidence>>
      BY <1>4, <2>1 DEF EvictBinding
    <3>2. /\ "BINDING" \in Calls /\ "TERMINATE" \in Calls
          /\ "EVICTING" \in States
          /\ StateDuring("TERMINATE") = "EVICTING"
      BY DEF Calls, States, StateDuring
    <3>3. r \in Record
      BY <1>2, <3>2, RecordType
    <3>4. /\ r.state = "EVICTING"
          /\ r.supersededBy = records[l][g].supersededBy
          /\ r.restartBlocked = records[l][g].restartBlocked
      BY <1>2 DEF Record, Signed
    <3> QED
      BY <2>1, <3>1, <3>2, <3>3, <3>4, AdvanceKeepsIInv
  <2>2. CASE Conclude(l, g, records[l][g], "QUARANTINED")
    <3>1. "QUARANTINED" \in Terminal
      BY DEF Terminal
    <3> QED
      BY <1>2, <2>2, <3>1, ConcludeKeepsIInv
  <2> QED
    BY <1>4, <2>1, <2>2 DEF EvictBinding
<1>5. CASE EvictTerminate(ok)
  <2> DEFINE r == Signed([records[l][g] EXCEPT !.state = "VERIFYING"])
  <2>1. /\ Proceed("TERMINATE", "VERIFY", ok)
        /\ Store(l, g, r)
        /\ UNCHANGED <<current, keyringVars, boot, evidence>>
    BY <1>5 DEF EvictTerminate
  <2>2. /\ "TERMINATE" \in Calls /\ "VERIFY" \in Calls
        /\ "VERIFYING" \in States
        /\ StateDuring("VERIFY") = "VERIFYING"
    BY DEF Calls, States, StateDuring
  <2>3. r \in Record
    BY <1>2, <2>2, RecordType
  <2>4. /\ r.state = "VERIFYING"
        /\ r.supersededBy = records[l][g].supersededBy
        /\ r.restartBlocked = records[l][g].restartBlocked
    BY <1>2 DEF Record, Signed
  <2> QED
    BY <2>1, <2>2, <2>3, <2>4, AdvanceKeepsIInv
<1> QED
  BY <1>3, <1>4, <1>5

\* The last piece of evict.
LEMMA EvictVerifyKeepsIInv ==
  ASSUME IInv, NEW dead \in BOOLEAN, NEW released \in BOOLEAN,
         EvictVerify(dead, released)
  PROVE  IInv'
<1> DEFINE l == eviction.lease
           g == eviction.generation
<1>1. eviction # NoEviction
  BY DEF EvictVerify, NoEviction
<1>2. /\ l \in Leases
      /\ g \in Generations
      /\ g = current[l]
      /\ records[l][g].restartBlocked
      /\ records[l][g].state \notin Terminal \cup {"NONE"}
      /\ records[l][g] \in Record
  BY <1>1, HolderState
<1>3. Conclude(l, g, records[l][g], Outcome(dead, released))
  BY DEF EvictVerify
<1>4. Outcome(dead, released) \in Terminal
  BY DEF Outcome, Terminal
<1> QED
  BY <1>2, <1>3, <1>4, ConcludeKeepsIInv

\* The keyring, the clock and the boot id.
LEMMA EnvironmentKeepsIInv ==
  ASSUME IInv, Environment
  PROVE  IInv'
<1>1. ASSUME NEW k \in KeyIds, Rotate(k) \/ Retire(k)
      PROVE  IInv'
  <2>1. /\ UNCHANGED <<records, current, boot, eviction, evidence>>
        /\ keys' \in SUBSET KeyIds
        /\ activeKey' \in keys'
    BY <1>1 DEF Rotate, Retire, RotateKey, RetireKey, IInv, TypeOK
  <2> QED
    BY <2>1 DEF IInv, TypeOK, GenerationChain, TeardownIsGuarded, OneFinalEvent
<1>2. ASSUME NEW l \in Leases, NEW g \in Generations, Expire(l, g)
      PROVE  IInv'
  <2> DEFINE r == [records[l][g] EXCEPT !.expired = TRUE]
  <2>1. /\ Store(l, g, r)
        /\ records[l][g].state # "NONE"
        /\ UNCHANGED <<current, keys, activeKey, boot, eviction, evidence>>
    BY <1>2 DEF Expire, Usable, keyringVars
  <2>2. /\ records \in RecordTable
        /\ records[l][g] \in Record
        /\ activeKey \in KeyIds
        /\ boot \in Boots
    BY DEF IInv, TypeOK, RecordTable
  <2>3. /\ r \in Record
        /\ r.state = records[l][g].state
        /\ r.supersededBy = records[l][g].supersededBy
        /\ r.restartBlocked = records[l][g].restartBlocked
    BY <2>2, RecordType, RecordFields DEF States
  <2>4. records' \in RecordTable
    BY <2>1, <2>2, <2>3, StoreEffect
  <2>5. TypeOK'
    BY <2>1, <2>4 DEF IInv, TypeOK, RecordTable
  <2>6. GenerationChain'
    BY <2>1, <2>3, TouchKeepsChain
  <2>7. TeardownIsGuarded'
    BY <2>1, <2>3, ClockKeepsTeardown
  <2>8. OneFinalEvent'
    BY <2>1, <2>3, TouchKeepsEvents
  <2> QED
    BY <2>5, <2>6, <2>7, <2>8 DEF IInv
<1>3. ASSUME Reboot
      PROVE  IInv'
  <2>1. /\ UNCHANGED <<records, current, keys, activeKey, eviction, evidence>>
        /\ boot' \in Boots
    BY <1>3, LedgerAssumption DEF Reboot, keyringVars, IInv, TypeOK, Boots
  <2> QED
    BY <2>1 DEF IInv, TypeOK, GenerationChain, TeardownIsGuarded, OneFinalEvent
<1> QED
  BY <1>1, <1>2, <1>3 DEF Environment

\* Every action of the ledger keeps the invariant.
LEMMA NextIInv ==
  ASSUME IInv, Next
  PROVE  IInv'
<1>0. /\ records \in RecordTable
      /\ current \in [Leases -> 0..MaxGeneration]
      /\ keys \in SUBSET KeyIds
      /\ activeKey \in keys
      /\ boot \in Boots
      /\ \A l \in Leases, g \in Generations : records[l][g] \in Record
  BY DEF IInv, TypeOK, RecordTable
<1>1. ASSUME NEW l \in Leases, NEW g \in Generations, Activate(l, g)
      PROVE  IInv'
  <2> DEFINE r == Signed([records[l][g] EXCEPT !.state = "ACTIVE"])
  <2>1. "ACTIVE" \in States
    BY DEF States, Usable
  <2>2. r \in Record /\ r.state = "ACTIVE"
        /\ r.supersededBy = records[l][g].supersededBy
    BY <1>0, <2>1, RecordType, RecordFields
  <2>3. records[l][g].state \notin Terminal
    BY <1>1 DEF Activate, Activatable, Terminal
  <2> QED
    BY <1>1, <2>2, <2>3, MethodKeepsIInv DEF Activate, Usable
<1>2. ASSUME NEW l \in Leases, NEW g \in Generations, BeginRevoke(l, g)
      PROVE  IInv'
  <2> DEFINE r == RevokingRecord(records[l][g])
  <2>1. r \in Record /\ r.state = "REVOKING"
        /\ r.supersededBy = records[l][g].supersededBy
    BY <1>0, RecordType, RecordFields DEF States
  <2>2. records[l][g].state \notin Terminal
    BY <1>2 DEF BeginRevoke, MayRevoke, Revokable, Usable, Terminal
  <2> QED
    BY <1>2, <2>1, <2>2, MethodKeepsIInv DEF BeginRevoke, MayRevoke
<1>3. ASSUME NEW l \in Leases, NEW g \in Generations, NEW p \in Projections,
             Attach(l, g, p)
      PROVE  IInv'
  <2> DEFINE r == Signed([records[l][g] EXCEPT !.refs = @ \cup {p}])
  <2>1. r \in Record
    BY <1>0, RecordType
  <2>2. r.state = records[l][g].state
        /\ r.supersededBy = records[l][g].supersededBy
    BY <1>0 DEF Record, Signed
  <2>3. records[l][g].state = "ACTIVE"
    BY <1>3 DEF Attach
  <2> QED
    BY <1>3, <2>1, <2>2, <2>3, MethodKeepsIInv DEF Attach, Usable, Terminal
<1>4. ASSUME NEW l \in Leases, Issue(l)
      PROVE  IInv'
  <2>1. 1 \in Generations /\ current[l] = 0
    <3>1. 1 \in Generations
      BY LedgerAssumption DEF Generations
    <3>2. records[l][1].state = "NONE"
      BY <1>4 DEF Issue
    <3>3. GenerationChain
      BY DEF IInv
    <3> QED
      BY <1>0, <3>1, <3>2, <3>3 DEF GenerationChain
  <2>2. /\ IssuedRecord \in Record
        /\ IssuedRecord.state = "ISSUED"
        /\ IssuedRecord.supersededBy = 0
    <3>1. activeKey \in KeyIds /\ records[l][1] \in Record
      BY <1>0, <2>1
    <3> QED
      BY <1>0, <3>1, RecordType, IssuedFields
  <2>3. /\ LockFree
        /\ Store(l, 1, IssuedRecord)
        /\ records[l][1].state = "NONE"
        /\ current' = [current EXCEPT ![l] = 1]
        /\ UNCHANGED <<keys, activeKey, boot, eviction, evidence>>
    BY <1>4 DEF Issue, keyringVars
  <2>4. /\ records' \in RecordTable
        /\ records'[l][1] = IssuedRecord
        /\ \A m \in Leases, h \in Generations :
             m # l \/ h # 1 => records'[m][h] = records[m][h]
    BY <1>0, <2>1, <2>2, <2>3, StoreEffect
  <2>5. TypeOK'
    <3>1. 1 \in 0..MaxGeneration
      BY LedgerAssumption
    <3>2. current' \in [Leases -> 0..MaxGeneration]
      BY <1>0, <2>3, <3>1
    <3> QED
      BY <2>3, <2>4, <3>2 DEF IInv, TypeOK, RecordTable
  <2>6. GenerationChain'
    BY <1>0, <2>1, <2>2, <2>3, <2>4 DEF IInv, GenerationChain, Generations
  <2>7. TeardownIsGuarded'
    BY <2>1, <2>2, <2>3, QuietKeepsTeardown DEF Usable
  <2>8. OneFinalEvent'
    BY <2>1, <2>2, <2>3, TouchKeepsEvents DEF Terminal
  <2> QED
    BY <2>5, <2>6, <2>7, <2>8 DEF IInv
<1>5. ASSUME NEW l \in Leases, NEW g \in Generations, Renew(l, g)
      PROVE  IInv'
  BY <1>5, RenewKeepsIInv
<1>6. ASSUME NEW l \in Leases, NEW g \in Generations,
             NEW restartBlocked \in BOOLEAN, EvictBegin(l, g, restartBlocked)
      PROVE  IInv'
  BY <1>6, EvictBeginKeepsIInv
<1>7. ASSUME NEW ok \in BOOLEAN, EvictSecrets(ok)
      PROVE  IInv'
  BY <1>7, EvictCallKeepsIInv
<1>8. ASSUME NEW ok \in BOOLEAN, EvictBinding(ok)
      PROVE  IInv'
  BY <1>8, EvictCallKeepsIInv
<1>9. ASSUME NEW ok \in BOOLEAN, EvictTerminate(ok)
      PROVE  IInv'
  BY <1>9, EvictCallKeepsIInv
<1>10. ASSUME NEW dead \in BOOLEAN, NEW released \in BOOLEAN,
              EvictVerify(dead, released)
       PROVE  IInv'
  BY <1>10, EvictVerifyKeepsIInv
<1>11. ASSUME Environment
       PROVE  IInv'
  BY <1>11, EnvironmentKeepsIInv
<1> QED
  BY <1>1, <1>2, <1>3, <1>4, <1>5, <1>6, <1>7, <1>8, <1>9, <1>10, <1>11
     DEF Next, Method

\* Every reachable state has the invariant.
THEOREM Invariance == Spec => []IInv
<1>1. Init => IInv
  BY InitIInv
<1>2. IInv /\ [Next]_ledgerVars => IInv'
  <2> SUFFICES ASSUME IInv, [Next]_ledgerVars PROVE IInv'
    OBVIOUS
  <2>1. CASE Next
    BY <2>1, NextIInv
  <2>2. CASE UNCHANGED ledgerVars
    BY <2>2 DEF ledgerVars, keyringVars, IInv, TypeOK, GenerationChain,
                TeardownIsGuarded, OneFinalEvent
  <2> QED
    BY <2>1, <2>2
<1> QED
  BY <1>1, <1>2, PTL DEF Spec

\* The state of the ledger is well typed, for any leases, keys and bounds.
THEOREM TypeCorrectness == Spec => []TypeOK
  BY Invariance, PTL DEF IInv

\* The generations of every lease form one chain in which at most the newest is
\* usable, however issue, renew, evict and the keyring interleave.
THEOREM OneChainPerLease == Spec => []GenerationChain
  BY Invariance, PTL DEF IInv

\* Nothing is torn down but by the eviction that holds the lock, in step with
\* its calls and after restarts were blocked.
THEOREM GuardedTeardown == Spec => []TeardownIsGuarded
  BY Invariance, PTL DEF IInv

\* Each generation that reached a final state has exactly one final event.
THEOREM ExactlyOneEvent == Spec => []OneFinalEvent
  BY Invariance, PTL DEF IInv

-----------------------------------------------------------------------------
(* What a step may do to a record.                                         *)

\* The four ways in which a step of the ledger can treat the record old of
\* generation g of lease l that becomes new.
MayBecome(l, g, old, new) ==
  \/ [new EXCEPT !.expired = old.expired] = old
  \/ old.state = "NONE"
  \/ /\ LockFree
     /\ Trusted(old)
     /\ old.state \notin Usable => new.state \notin Usable
  \/ /\ eviction.lease = l
     /\ eviction.generation = g
     /\ new.state \notin Usable
     /\ eviction.failed => new.state # "EVICTED"

\* A record is left alone or aged by the clock.
LEMMA AgeingIsAllowed ==
  ASSUME NEW l \in Leases, NEW g \in Generations, NEW old \in Record
  PROVE  /\ MayBecome(l, g, old, old)
         /\ MayBecome(l, g, old, [old EXCEPT !.expired = TRUE])
<1>1. [old EXCEPT !.expired = old.expired] = old
  BY DEF Record
<1>2. [[old EXCEPT !.expired = TRUE] EXCEPT !.expired = old.expired] = old
  BY DEF Record
<1> QED
  BY <1>1, <1>2 DEF MayBecome

\* A step that stores one record treats every record as allowed if it treats
\* that one so.
LEMMA OneRecordMoves ==
  ASSUME IInv, NEW l \in Leases, NEW g \in Generations, NEW r \in Record,
         Store(l, g, r), MayBecome(l, g, records[l][g], r)
  PROVE  \A m \in Leases, h \in Generations :
           MayBecome(m, h, records[m][h], records'[m][h])
<1>1. /\ records'[l][g] = r
      /\ \A m \in Leases, h \in Generations :
           m # l \/ h # g => records'[m][h] = records[m][h]
  BY StoreEffect DEF IInv, TypeOK, RecordTable
<1>2. \A m \in Leases, h \in Generations :
        MayBecome(m, h, records[m][h], records[m][h])
  BY AgeingIsAllowed DEF IInv, TypeOK
<1> SUFFICES ASSUME NEW m \in Leases, NEW h \in Generations
             PROVE  MayBecome(m, h, records[m][h], records'[m][h])
  OBVIOUS
<1>3. CASE m = l /\ h = g
  BY <1>1, <1>3
<1>4. CASE m # l \/ h # g
  BY <1>1, <1>2, <1>4
<1> QED
  BY <1>3, <1>4

\* Every step of the ledger treats every record in one of the four ways.
LEMMA RecordsMove ==
  ASSUME IInv, Next
  PROVE  \A m \in Leases, h \in Generations :
           MayBecome(m, h, records[m][h], records'[m][h])
<1> DEFINE Allowed == \A m \in Leases, h \in Generations :
             MayBecome(m, h, records[m][h], records'[m][h])
<1>0. /\ records \in RecordTable
      /\ activeKey \in KeyIds
      /\ boot \in Boots
      /\ \A l \in Leases, g \in Generations : records[l][g] \in Record
  BY DEF IInv, TypeOK, RecordTable
<1>1. ASSUME NEW l \in Leases, Issue(l) PROVE Allowed
  <2>1. 1 \in Generations /\ records[l][1].state = "NONE"
    BY <1>1, LedgerAssumption DEF Issue, Generations
  <2>2. IssuedRecord \in Record
    BY <1>0, <2>1, RecordType
  <2>3. MayBecome(l, 1, records[l][1], IssuedRecord)
    BY <2>1 DEF MayBecome
  <2> QED
    BY <1>1, <2>1, <2>2, <2>3, OneRecordMoves DEF Issue
<1>2. ASSUME NEW l \in Leases, NEW g \in Generations, Activate(l, g)
      PROVE  Allowed
  <2> DEFINE r == Signed([records[l][g] EXCEPT !.state = "ACTIVE"])
  <2>1. "ACTIVE" \in States
    BY DEF States, Usable
  <2>2. r \in Record
    BY <1>0, <2>1, RecordType
  <2>3. /\ LockFree
        /\ Trusted(records[l][g])
        /\ records[l][g].state \in Usable
        /\ Store(l, g, r)
    BY <1>2 DEF Activate, Activatable, Usable
  <2>4. MayBecome(l, g, records[l][g], r)
    BY <2>3 DEF MayBecome
  <2> QED
    BY <2>2, <2>3, <2>4, OneRecordMoves
<1>3. ASSUME NEW l \in Leases, NEW g \in Generations, NEW p \in Projections,
             Attach(l, g, p)
      PROVE  Allowed
  <2> DEFINE r == Signed([records[l][g] EXCEPT !.refs = @ \cup {p}])
  <2>1. r \in Record
    BY <1>0, RecordType
  <2>2. /\ LockFree
        /\ Trusted(records[l][g])
        /\ records[l][g].state \in Usable
        /\ Store(l, g, r)
    BY <1>3 DEF Attach, Usable
  <2>3. MayBecome(l, g, records[l][g], r)
    BY <2>2 DEF MayBecome
  <2> QED
    BY <2>1, <2>2, <2>3, OneRecordMoves
<1>4. ASSUME NEW l \in Leases, NEW g \in Generations, Renew(l, g)
      PROVE  Allowed
  <2>1. /\ g = current[l]
        /\ g + 1 \in Generations
        /\ current[l] \in Nat
        /\ LockFree
        /\ Trusted(records[l][g])
        /\ records[l][g].state \in Usable
    BY <1>4, LedgerAssumption DEF Renew, IsCurrent, Generations, Usable
  <2>2. records[l][g + 1].state = "NONE"
    BY <2>1, IssuedFields DEF IInv, GenerationChain
  <2>3. MayBecome(l, g, records[l][g], records'[l][g])
    BY <2>1 DEF MayBecome
  <2>4. MayBecome(l, g + 1, records[l][g + 1], records'[l][g + 1])
    BY <2>2 DEF MayBecome
  <2>5. \A m \in Leases, h \in Generations :
          m # l \/ (h # g /\ h # g + 1) => records'[m][h] = records[m][h]
    BY <1>0, <1>4, <2>1 DEF Renew, RecordTable
  <2>6. \A m \in Leases, h \in Generations :
          MayBecome(m, h, records[m][h], records[m][h])
    BY <1>0, AgeingIsAllowed
  <2> SUFFICES ASSUME NEW m \in Leases, NEW h \in Generations
               PROVE  MayBecome(m, h, records[m][h], records'[m][h])
    OBVIOUS
  <2>7. CASE m = l /\ h = g
    BY <2>3, <2>7
  <2>8. CASE m = l /\ h = g + 1
    BY <2>4, <2>8
  <2>9. CASE m # l \/ (h # g /\ h # g + 1)
    BY <2>5, <2>6, <2>9
  <2> QED
    BY <2>7, <2>8, <2>9
<1>5. ASSUME NEW l \in Leases, NEW g \in Generations, NEW rb \in BOOLEAN,
             BeginRevoke(l, g) \/ EvictBegin(l, g, rb)
      PROVE  Allowed
  <2> DEFINE r == RevokingRecord(records[l][g])
             q == Signed([r EXCEPT !.state = "QUARANTINED"])
  <2>1. /\ LockFree
        /\ Trusted(records[l][g])
    BY <1>5 DEF BeginRevoke, EvictBegin, MayRevoke
  <2>2. "QUARANTINED" \in States
    BY DEF States, Terminal
  <2>3. /\ r \in Record
        /\ q \in Record
        /\ r.state = "REVOKING"
        /\ q.state = "QUARANTINED"
    BY <1>0, <2>2, RecordType, RecordFields
  <2>4. /\ MayBecome(l, g, records[l][g], r)
        /\ MayBecome(l, g, records[l][g], q)
    BY <2>1, <2>3 DEF MayBecome, Usable
  <2>5. Store(l, g, r) \/ Store(l, g, q)
    BY <1>5 DEF BeginRevoke, EvictBegin, Conclude
  <2> QED
    BY <2>3, <2>4, <2>5, OneRecordMoves
<1>6. ASSUME NEW ok \in BOOLEAN, EvictSecrets(ok) PROVE Allowed
  BY <1>0, <1>6, AgeingIsAllowed DEF EvictSecrets
<1>7. ASSUME NEW ok \in BOOLEAN, NEW dead \in BOOLEAN, NEW released \in BOOLEAN,
             \/ EvictBinding(ok)
             \/ EvictTerminate(ok)
             \/ EvictVerify(dead, released)
      PROVE  Allowed
  <2> DEFINE l == eviction.lease
             g == eviction.generation
             Moved(s) == Signed([records[l][g] EXCEPT !.state = s])
  <2>1. eviction # NoEviction
    BY <1>7 DEF EvictBinding, EvictTerminate, EvictVerify, Proceed, NoEviction
  <2>2. /\ l \in Leases
        /\ g \in Generations
        /\ records[l][g] \in Record
    BY <2>1, HolderState
  <2>3. PICK s \in {"EVICTING", "VERIFYING", "QUARANTINED", "EVICTED"} :
          /\ Store(l, g, Moved(s))
          /\ eviction.failed => s # "EVICTED"
    <3>1. CASE EvictBinding(ok)
      BY <3>1 DEF EvictBinding, Conclude
    <3>2. CASE EvictTerminate(ok)
      BY <3>2 DEF EvictTerminate
    <3>3. CASE EvictVerify(dead, released)
      BY <3>3 DEF EvictVerify, Conclude, Outcome
    <3> QED
      BY <1>7, <3>1, <3>2, <3>3
  <2>4. s \in States /\ s \notin Usable
    BY <2>3 DEF States, Usable, Terminal
  <2>5. Moved(s) \in Record /\ Moved(s).state = s
    BY <1>0, <2>2, <2>4, RecordType, RecordFields
  <2>6. MayBecome(l, g, records[l][g], Moved(s))
    BY <2>3, <2>4, <2>5 DEF MayBecome
  <2> QED
    BY <2>2, <2>3, <2>5, <2>6, OneRecordMoves
<1>8. ASSUME Environment PROVE Allowed
  <2>1. ASSUME NEW l \in Leases, NEW g \in Generations, Expire(l, g)
        PROVE  Allowed
    <3>1. /\ records[l][g] \in Record
          /\ [records[l][g] EXCEPT !.expired = TRUE] \in Record
      BY <1>0, RecordType
    <3>2. MayBecome(l, g, records[l][g], [records[l][g] EXCEPT !.expired = TRUE])
      BY <3>1, AgeingIsAllowed
    <3> QED
      BY <2>1, <3>1, <3>2, OneRecordMoves DEF Expire
  <2>2. CASE UNCHANGED records
    BY <1>0, <2>2, AgeingIsAllowed
  <2> QED
    BY <1>8, <2>1, <2>2 DEF Environment, Rotate, Retire, Reboot
<1> QED
  BY <1>1, <1>2, <1>3, <1>4, <1>5, <1>6, <1>7, <1>8 DEF Next, Method

-----------------------------------------------------------------------------
(* The action properties.                                                  *)

\* A record that the clock may have touched has the state it had.
LEMMA AgeingKeepsState ==
  ASSUME NEW old \in Record, NEW new \in Record,
         [new EXCEPT !.expired = old.expired] = old
  PROVE  new.state = old.state
  BY DEF Record

\* No generation that left ISSUED and ACTIVE becomes usable again: revocation,
\* supersession, eviction and quarantine are final.
THEOREM NoReactivation == Spec => NeverUsableAgain
<1>1. ASSUME IInv, IInv', [Next]_ledgerVars
      PROVE  [\A l \in Leases, g \in Generations :
                records[l][g].state \notin Usable \cup {"NONE"} =>
                  records'[l][g].state \notin Usable]_ledgerVars
  <2> SUFFICES ASSUME Next, NEW l \in Leases, NEW g \in Generations,
                      records[l][g].state \notin Usable \cup {"NONE"}
               PROVE  records'[l][g].state \notin Usable
    BY <1>1
  <2>1. MayBecome(l, g, records[l][g], records'[l][g])
    BY <1>1, RecordsMove
  <2>2. records[l][g] \in Record /\ records'[l][g] \in Record
    BY <1>1 DEF IInv, TypeOK
  <2> QED
    BY <2>1, <2>2, AgeingKeepsState DEF MayBecome
<1> QED
  BY <1>1, Invariance, PTL DEF Spec, NeverUsableAgain

\* Without its key a record is out of reach of every method: only the eviction
\* that verified it before the key was retired can still move it.
THEOREM RetirementFreezes == Spec => RetiredKeyFreezes
<1>1. ASSUME IInv, [Next]_ledgerVars
      PROVE  [\A l \in Leases, g \in Generations :
                /\ records[l][g].state # "NONE"
                /\ records[l][g].signer \notin keys
                =>
                  \/ eviction.lease = l /\ eviction.generation = g
                  \/ [records'[l][g] EXCEPT !.expired = records[l][g].expired]
                       = records[l][g]]_ledgerVars
  <2> SUFFICES ASSUME Next, NEW l \in Leases, NEW g \in Generations,
                      records[l][g].state # "NONE",
                      records[l][g].signer \notin keys
               PROVE  \/ eviction.lease = l /\ eviction.generation = g
                      \/ [records'[l][g] EXCEPT !.expired = records[l][g].expired]
                           = records[l][g]
    BY <1>1
  <2>1. MayBecome(l, g, records[l][g], records'[l][g])
    BY <1>1, RecordsMove
  <2> QED
    BY <2>1 DEF MayBecome, Trusted
<1> QED
  BY <1>1, Invariance, PTL DEF Spec, RetiredKeyFreezes

\* A failure on the way of an eviction, in the secret hook or in the adapter,
\* can only end in quarantine.
THEOREM FailureIsNeverEvicted == Spec => FailureQuarantines
<1>1. ASSUME IInv, IInv', [Next]_ledgerVars
      PROVE  [\A l \in Leases, g \in Generations :
                eviction.failed /\ eviction.lease = l /\ eviction.generation = g
                  => records'[l][g].state # "EVICTED"]_ledgerVars
  <2> SUFFICES ASSUME Next, NEW l \in Leases, NEW g \in Generations,
                      eviction.failed, eviction.lease = l,
                      eviction.generation = g
               PROVE  records'[l][g].state # "EVICTED"
    BY <1>1
  <2>1. MayBecome(l, g, records[l][g], records'[l][g])
    BY <1>1, RecordsMove
  <2>2. records[l][g] \in Record /\ records'[l][g] \in Record
    BY <1>1 DEF IInv, TypeOK
  <2>3. eviction # NoEviction
    BY DEF NoEviction
  <2>4. records[l][g].state \notin Terminal \cup {"NONE"}
    BY <1>1, <2>3, HolderState
  <2> QED
    BY <2>1, <2>2, <2>3, <2>4, AgeingKeepsState
       DEF MayBecome, LockFree, Terminal
<1> QED
  BY <1>1, Invariance, PTL DEF Spec, FailureQuarantines

-----------------------------------------------------------------------------
(* The ledger implements LeaseLifecycle.                                   *)

\* The abstract phases of the records.
phaseBar == [l \in Leases |->
               [g \in Generations |-> PhaseOf(records[l][g].state)]]

\* Storing a record moves one abstract phase.
LEMMA PhaseMoves ==
  ASSUME IInv, NEW l \in Leases, NEW g \in Generations, NEW r \in Record,
         Store(l, g, r)
  PROVE  phaseBar' = [phaseBar EXCEPT ![l][g] = PhaseOf(r.state)]
<1>1. /\ records'[l][g] = r
      /\ \A m \in Leases, h \in Generations :
           m # l \/ h # g => records'[m][h] = records[m][h]
  BY StoreEffect DEF IInv, TypeOK, RecordTable
<1>2. [h \in Generations |-> PhaseOf(records'[l][h].state)]
        = [[h \in Generations |-> PhaseOf(records[l][h].state)]
             EXCEPT ![g] = PhaseOf(r.state)]
  BY <1>1
<1>3. \A m \in Leases : m # l =>
        [h \in Generations |-> PhaseOf(records'[m][h].state)]
          = [h \in Generations |-> PhaseOf(records[m][h].state)]
  BY <1>1
<1> QED
  BY <1>2, <1>3 DEF phaseBar

\* Storing a record of the same phase is no abstract step.
LEMMA PhaseStays ==
  ASSUME IInv, NEW l \in Leases, NEW g \in Generations, NEW r \in Record,
         Store(l, g, r), PhaseOf(r.state) = PhaseOf(records[l][g].state)
  PROVE  phaseBar' = phaseBar
<1>1. /\ records'[l][g] = r
      /\ \A m \in Leases, h \in Generations :
           m # l \/ h # g => records'[m][h] = records[m][h]
  BY StoreEffect DEF IInv, TypeOK, RecordTable
<1>2. \A m \in Leases, h \in Generations :
        PhaseOf(records'[m][h].state) = PhaseOf(records[m][h].state)
  BY <1>1
<1> QED
  BY <1>2 DEF phaseBar

\* The phases of the states that the ledger stores.
LEMMA Phases ==
  /\ PhaseOf("NONE") = "absent"
  /\ PhaseOf("ISSUED") = "pending"
  /\ PhaseOf("ACTIVE") = "live"
  /\ \A s \in {"REVOKING", "EVICTING", "VERIFYING"} : PhaseOf(s) = "draining"
  /\ PhaseOf("EVICTED") = "reclaimed"
  /\ PhaseOf("QUARANTINED") = "quarantined"
  BY DEF PhaseOf

\* A record of the current generation that may still be torn down maps to a
\* phase from which LeaseLifecycle can conclude.
LEMMA ConcludeMaps ==
  ASSUME IInv, NEW l \in Leases, NEW g \in Generations, NEW r \in Record,
         NEW final \in Terminal, Conclude(l, g, r, final), g = current[l],
         records[l][g].state \notin Terminal \cup {"NONE"}
  PROVE  Lifecycle!LifecycleNext
<1> DEFINE q == Signed([r EXCEPT !.state = final])
<1>1. final \in States /\ activeKey \in KeyIds /\ boot \in Boots
  BY DEF States, IInv, TypeOK
<1>2. q \in Record /\ q.state = final
  BY <1>1, RecordType, RecordFields
<1>3. Store(l, g, q) /\ current' = current
  BY DEF Conclude
<1>4. phaseBar' = [phaseBar EXCEPT ![l][g] = PhaseOf(final)]
  BY <1>2, <1>3, PhaseMoves
<1>5. PhaseOf(final) \in {"reclaimed", "quarantined"}
  BY Phases DEF Terminal
<1>6. phaseBar[l][g] \in {"pending", "live", "draining"}
  <2>1. records[l][g].state \in States \cup {"NONE"}
    BY DEF IInv, TypeOK, Record
  <2>2. PhaseOf(records[l][g].state) \in {"pending", "live", "draining"}
    BY <2>1, Phases DEF States, Usable, Terminal
  <2> QED
    BY <2>2 DEF phaseBar
<1>7. g > 0
  BY DEF Generations
<1>8. Lifecycle!Conclude(l, PhaseOf(final))
  BY <1>3, <1>4, <1>6, <1>7
     DEF Lifecycle!Conclude, Lifecycle!Move, Lifecycle!Usable, phaseBar
<1> QED
  BY <1>5, <1>8 DEF Lifecycle!LifecycleNext, Lifecycle!Final

\* Revoking the current generation drains it, or is no abstract step if it
\* drains already.
LEMMA RevokeMaps ==
  ASSUME IInv, NEW l \in Leases, NEW g \in Generations, MayRevoke(l, g),
         Store(l, g, RevokingRecord(records[l][g])), current' = current
  PROVE  [Lifecycle!LifecycleNext]_Lifecycle!lifecycleVars
<1> DEFINE r == RevokingRecord(records[l][g])
<1>1. records[l][g] \in Record /\ activeKey \in KeyIds /\ boot \in Boots
  BY DEF IInv, TypeOK
<1>2. r \in Record /\ r.state = "REVOKING"
  BY <1>1, RecordType, RecordFields DEF States
<1>3. g = current[l] /\ g > 0
  BY DEF MayRevoke, IsCurrent, Generations
<1>4. CASE records[l][g].state \in Usable
  <2>1. phaseBar' = [phaseBar EXCEPT ![l][g] = "draining"]
    BY <1>2, PhaseMoves, Phases
  <2>2. phaseBar[l][g] \in {"pending", "live"}
    BY <1>4, Phases DEF phaseBar, Usable
  <2>3. Lifecycle!Drain(l)
    BY <1>3, <2>1, <2>2
       DEF Lifecycle!Drain, Lifecycle!Move, Lifecycle!Usable, phaseBar
  <2> QED
    BY <2>3 DEF Lifecycle!LifecycleNext
<1>5. CASE records[l][g].state = "REVOKING"
  <2>1. phaseBar' = phaseBar
    BY <1>2, <1>5, PhaseStays
  <2> QED
    BY <2>1 DEF Lifecycle!lifecycleVars, phaseBar
<1> QED
  BY <1>4, <1>5 DEF MayRevoke, Revokable

\* A ledger that keeps its current generations and the states of its records,
\* but for changes within one phase, takes no abstract step.
LEMMA StutterMaps ==
  ASSUME phaseBar' = phaseBar, current' = current
  PROVE  [Lifecycle!LifecycleNext]_Lifecycle!lifecycleVars
  BY DEF Lifecycle!lifecycleVars, phaseBar

\* In one step renewal drains the live generation and grants its successor.
LEMMA RenewMaps ==
  ASSUME IInv, NEW l \in Leases, NEW g \in Generations, Renew(l, g)
  PROVE  [Lifecycle!LifecycleNext]_Lifecycle!lifecycleVars
<1> DEFINE row == [h \in Generations |-> PhaseOf(records[l][h].state)]
<1>1. /\ g = current[l]
      /\ records[l][g].state = "ACTIVE"
      /\ g + 1 \in Generations
      /\ current' = [current EXCEPT ![l] = g + 1]
  BY RenewEffect
<1>2. g # g + 1 /\ g \in 1..(MaxGeneration - 1)
  BY <1>1, LedgerAssumption DEF Generations
<1>3. /\ records'[l][g].state = "REVOKING"
      /\ records'[l][g + 1].state = "ACTIVE"
      /\ \A m \in Leases, h \in Generations :
           m # l \/ (h # g /\ h # g + 1) => records'[m][h] = records[m][h]
  BY RenewEffect
<1>4. [h \in Generations |-> PhaseOf(records'[l][h].state)]
        = [row EXCEPT ![g] = "draining", ![g + 1] = "live"]
  <2>1. \A h \in Generations :
          PhaseOf(records'[l][h].state)
            = IF h = g + 1 THEN "live" ELSE IF h = g THEN "draining" ELSE row[h]
    BY <1>1, <1>2, <1>3, Phases
  <2> QED
    BY <1>1, <1>2, <2>1
<1>5. \A m \in Leases : m # l =>
        [h \in Generations |-> PhaseOf(records'[m][h].state)]
          = [h \in Generations |-> PhaseOf(records[m][h].state)]
  BY <1>3
<1>6. phaseBar' = [phaseBar EXCEPT ![l][g] = "draining", ![l][g + 1] = "live"]
  BY <1>4, <1>5 DEF phaseBar
<1>7. phaseBar[l][g] = "live"
  BY <1>1, Phases DEF phaseBar
<1>8. Lifecycle!Succeed(l)
  BY <1>1, <1>2, <1>6, <1>7 DEF Lifecycle!Succeed, phaseBar
<1> QED
  BY <1>8 DEF Lifecycle!LifecycleNext

\* Within a teardown the abstract generation drains, until it concludes.
LEMMA TeardownMaps ==
  ASSUME IInv, NEW ok \in BOOLEAN, NEW dead \in BOOLEAN,
         NEW released \in BOOLEAN,
         \/ EvictBinding(ok)
         \/ EvictTerminate(ok)
         \/ EvictVerify(dead, released)
  PROVE  [Lifecycle!LifecycleNext]_Lifecycle!lifecycleVars
<1> DEFINE l == eviction.lease
           g == eviction.generation
           Moved(s) == Signed([records[l][g] EXCEPT !.state = s])
<1>1. eviction # NoEviction
  BY DEF EvictBinding, EvictTerminate, EvictVerify, Proceed, NoEviction
<1>2. /\ l \in Leases
      /\ g \in Generations
      /\ g = current[l]
      /\ records[l][g].state = StateDuring(eviction.call)
      /\ records[l][g].state \notin Terminal \cup {"NONE"}
      /\ records[l][g] \in Record
      /\ activeKey \in KeyIds
      /\ boot \in Boots
  BY <1>1, HolderState DEF IInv, TypeOK
<1>3. CASE \E s \in {"EVICTING", "VERIFYING"} :
             Store(l, g, Moved(s)) /\ current' = current
  <2>1. PICK s \in {"EVICTING", "VERIFYING"} :
          Store(l, g, Moved(s)) /\ current' = current
    BY <1>3
  <2>2. s \in States
    BY DEF States
  <2>3. Moved(s) \in Record /\ Moved(s).state = s
    BY <1>2, <2>2, RecordType, RecordFields
  <2>4. PhaseOf(s) = PhaseOf(records[l][g].state)
    <3>1. records[l][g].state \in {"REVOKING", "EVICTING", "VERIFYING"}
      BY <1>2 DEF StateDuring
    <3> QED
      BY <3>1, Phases
  <2>5. phaseBar' = phaseBar
    BY <1>2, <2>1, <2>3, <2>4, PhaseStays
  <2> QED
    BY <2>1, <2>5, StutterMaps
<1>4. CASE \E final \in Terminal : Conclude(l, g, records[l][g], final)
  BY <1>2, <1>4, ConcludeMaps
<1>5. Outcome(dead, released) \in Terminal /\ "QUARANTINED" \in Terminal
  BY DEF Outcome, Terminal
<1>6. CASE EvictBinding(ok)
  BY <1>3, <1>4, <1>5, <1>6 DEF EvictBinding
<1>7. CASE EvictTerminate(ok)
  BY <1>3, <1>7 DEF EvictTerminate
<1>8. CASE EvictVerify(dead, released)
  BY <1>4, <1>5, <1>8 DEF EvictVerify
<1> QED
  BY <1>6, <1>7, <1>8

\* Each step of the ledger is a step of LeaseLifecycle or leaves it alone.
LEMMA StepMaps ==
  ASSUME IInv, Next
  PROVE  [Lifecycle!LifecycleNext]_Lifecycle!lifecycleVars
<1> DEFINE Mapped == [Lifecycle!LifecycleNext]_Lifecycle!lifecycleVars
<1>0. /\ records \in RecordTable
      /\ current \in [Leases -> 0..MaxGeneration]
      /\ activeKey \in KeyIds
      /\ boot \in Boots
      /\ \A l \in Leases, g \in Generations : records[l][g] \in Record
  BY DEF IInv, TypeOK, RecordTable
<1>1. ASSUME NEW l \in Leases, Issue(l) PROVE Mapped
  <2>1. /\ Store(l, 1, IssuedRecord)
        /\ records[l][1].state = "NONE"
        /\ current' = [current EXCEPT ![l] = 1]
        /\ 1 \in Generations
    BY <1>1, LedgerAssumption DEF Issue, Generations
  <2>2. IssuedRecord \in Record /\ IssuedRecord.state = "ISSUED"
    BY <1>0, <2>1, RecordType, IssuedFields
  <2>3. phaseBar' = [phaseBar EXCEPT ![l][1] = "pending"]
    BY <2>1, <2>2, PhaseMoves, Phases
  <2>4. phaseBar[l][1] = "absent"
    BY <2>1, Phases DEF phaseBar
  <2>5. current[l] = 0
    BY <1>0, <2>1 DEF IInv, GenerationChain
  <2>6. Lifecycle!Grant(l)
    BY <2>1, <2>3, <2>4, <2>5 DEF Lifecycle!Grant, Lifecycle!Move, phaseBar
  <2> QED
    BY <2>6 DEF Lifecycle!LifecycleNext
<1>2. ASSUME NEW l \in Leases, NEW g \in Generations, Activate(l, g)
      PROVE  Mapped
  <2> DEFINE r == Signed([records[l][g] EXCEPT !.state = "ACTIVE"])
  <2>1. /\ Store(l, g, r)
        /\ records[l][g].state = "ISSUED"
        /\ g = current[l] /\ g > 0
        /\ current' = current
    BY <1>2 DEF Activate, Activatable, IsCurrent, Generations
  <2>2. "ACTIVE" \in States
    BY DEF States, Usable
  <2>3. r \in Record /\ r.state = "ACTIVE"
    BY <1>0, <2>2, RecordType, RecordFields
  <2>4. phaseBar' = [phaseBar EXCEPT ![l][g] = "live"]
    BY <2>1, <2>3, PhaseMoves, Phases
  <2>5. phaseBar[l][g] = "pending"
    BY <2>1, Phases DEF phaseBar
  <2>6. Lifecycle!Start(l)
    BY <2>1, <2>4, <2>5 DEF Lifecycle!Start, Lifecycle!Move, phaseBar
  <2> QED
    BY <2>6 DEF Lifecycle!LifecycleNext
<1>3. ASSUME NEW l \in Leases, NEW g \in Generations, NEW p \in Projections,
             Attach(l, g, p)
      PROVE  Mapped
  <2> DEFINE r == Signed([records[l][g] EXCEPT !.refs = @ \cup {p}])
  <2>1. r \in Record
    BY <1>0, RecordType
  <2>2. r.state = records[l][g].state
    BY <1>0 DEF Record, Signed
  <2>3. Store(l, g, r) /\ current' = current
    BY <1>3 DEF Attach
  <2>4. phaseBar' = phaseBar
    BY <2>1, <2>2, <2>3, PhaseStays
  <2> QED
    BY <2>3, <2>4, StutterMaps
<1>4. ASSUME NEW l \in Leases, NEW g \in Generations, Renew(l, g)
      PROVE  Mapped
  BY <1>4, RenewMaps
<1>5. ASSUME NEW l \in Leases, NEW g \in Generations, BeginRevoke(l, g)
      PROVE  Mapped
  BY <1>5, RevokeMaps DEF BeginRevoke
<1>6. ASSUME NEW l \in Leases, NEW g \in Generations, NEW rb \in BOOLEAN,
             EvictBegin(l, g, rb)
      PROVE  Mapped
  <2>1. CASE Store(l, g, RevokingRecord(records[l][g])) /\ current' = current
    BY <1>6, <2>1, RevokeMaps DEF EvictBegin
  <2>2. CASE Conclude(l, g, RevokingRecord(records[l][g]), "QUARANTINED")
    <3>1. /\ g = current[l]
          /\ records[l][g].state \notin Terminal \cup {"NONE"}
      BY <1>6 DEF EvictBegin, MayRevoke, IsCurrent, Revokable, Usable, Terminal
    <3>2. RevokingRecord(records[l][g]) \in Record /\ "QUARANTINED" \in Terminal
      BY <1>0, RecordType DEF Terminal
    <3> QED
      BY <2>2, <3>1, <3>2, ConcludeMaps
  <2> QED
    BY <1>6, <2>1, <2>2 DEF EvictBegin
<1>7. ASSUME NEW ok \in BOOLEAN, EvictSecrets(ok) PROVE Mapped
  BY <1>7, StutterMaps DEF EvictSecrets, phaseBar
<1>8. ASSUME NEW ok \in BOOLEAN, NEW dead \in BOOLEAN, NEW released \in BOOLEAN,
             \/ EvictBinding(ok)
             \/ EvictTerminate(ok)
             \/ EvictVerify(dead, released)
      PROVE  Mapped
  BY <1>8, TeardownMaps
<1>9. ASSUME Environment PROVE Mapped
  <2>1. ASSUME NEW l \in Leases, NEW g \in Generations, Expire(l, g)
        PROVE  Mapped
    <3> DEFINE r == [records[l][g] EXCEPT !.expired = TRUE]
    <3>1. Store(l, g, r) /\ current' = current
      BY <2>1 DEF Expire
    <3>2. r \in Record /\ r.state = records[l][g].state
      BY <1>0, RecordType, RecordFields DEF States
    <3>3. phaseBar' = phaseBar
      BY <3>1, <3>2, PhaseStays
    <3> QED
      BY <3>1, <3>3, StutterMaps
  <2>2. CASE UNCHANGED <<records, current>>
    BY <2>2, StutterMaps DEF phaseBar
  <2> QED
    BY <1>9, <2>1, <2>2 DEF Environment, Rotate, Retire, Reboot
<1> QED
  BY <1>1, <1>2, <1>3, <1>4, <1>5, <1>6, <1>7, <1>8, <1>9 DEF Next, Method

\* The initial states of the ledger are initial states of LeaseLifecycle.
LEMMA InitMaps == Init => Lifecycle!LifecycleInit
  BY Phases
     DEF Init, NoRecord, Lifecycle!LifecycleInit, Lifecycle!Generations,
         Generations

\* The ledger implements the abstract lifecycle: whatever the callers, the
\* keyring, the clock and the answers of hook and adapter do, a caller sees
\* leases of which only the newest generation is usable and which end once.
THEOREM Refinement == Spec => ImplementsLifecycle
<1>1. Init => Lifecycle!LifecycleInit
  BY InitMaps
<1>2. IInv /\ [Next]_ledgerVars
        => [Lifecycle!LifecycleNext]_Lifecycle!lifecycleVars
  <2> SUFFICES ASSUME IInv, [Next]_ledgerVars
               PROVE  [Lifecycle!LifecycleNext]_Lifecycle!lifecycleVars
    OBVIOUS
  <2>1. CASE Next
    BY <2>1, StepMaps
  <2>2. CASE UNCHANGED ledgerVars
    BY <2>2, StutterMaps DEF ledgerVars, phaseBar
  <2> QED
    BY <2>1, <2>2
<1> QED
  BY <1>1, <1>2, Invariance, PTL
     DEF Spec, ImplementsLifecycle, Lifecycle!LifecycleSpec

-----------------------------------------------------------------------------
(* Part 2.  An eviction with the Secret Broker, the hook, the adapter and  *)
(* the workload (HrbEviction).  The system is a ledger whose calls get     *)
(* particular answers (LedgerInside), so that everything proved in part 1  *)
(* holds of it and serves here as a fact about each step.                  *)

\* The projections attached to the generation under eviction.
Attached == records[eviction.lease][eviction.generation].refs

\* Where the hook stands: what it passed is zeroized, what it holds is revoked,
\* has the artifact that the broker named in its reply and, once it is to be
\* acknowledged, not as a file any more.
HookFollows ==
  /\ hook.at # "IDLE" =>
       \A p \in Attached \ hook.todo : store[p].state = "ZEROIZED"
  /\ hook.at \in {"ZEROIZE", "ACK"} =>
       /\ store[hook.ref].state = "REVOKED"
       /\ hook.target = store[hook.ref].artifact
  /\ hook.at = "ZEROIZE" => hook.target \in Copies
  /\ hook.at = "ACK" /\ hook.target # NoCopy =>
       file[hook.ref][hook.target] = "unlinked"

\* The broker knows no artifact of a zeroized projection.
ZeroizedIsForgotten ==
  \A p \in Projections : store[p].state = "ZEROIZED" => store[p].artifact = NoCopy

\* An eviction past its secrets has recorded a failure or zeroized them all.
CleanOrFailed ==
  eviction.call \in {"BINDING", "TERMINATE", "VERIFY"} /\ ~eviction.failed =>
    \A p \in Attached : store[p].state = "ZEROIZED"

\* The inductive invariant, next to the ledger's IInv.
WorldInv ==
  /\ WorldTypeOK
  /\ ZeroizedIsForgotten
  /\ EvictedMeansReclaimed
  /\ HookFollows
  /\ CleanOrFailed

-----------------------------------------------------------------------------
(* The ledger inside the system.                                           *)

\* The hook gives up and succeeds with a failed and a successful call.
LEMMA EvictionStepIsLedgerStep ==
  ASSUME EvictionStep
  PROVE  Next \/ UNCHANGED ledgerVars
<1> USE DEF Next
<1>1. CASE HookBegin
  BY <1>1 DEF HookBegin
<1>2. CASE \E p \in Projections : HookRevoke(p)
  BY <1>2 DEF HookRevoke, HookGivesUp, HookWaits
<1>3. CASE HookZeroize
  BY <1>3 DEF HookZeroize, HookGivesUp
<1>4. CASE HookAck
  BY <1>4 DEF HookAck, HookGivesUp, HookWaits
<1>5. CASE HookSucceeds
  BY <1>5 DEF HookSucceeds
<1>6. CASE CheckBinding
  BY <1>6 DEF CheckBinding
<1>7. CASE Terminate
  BY <1>7 DEF Terminate
<1>8. CASE VerifyDead
  BY <1>8 DEF VerifyDead, DeathAnswers
<1> QED
  BY <1>1, <1>2, <1>3, <1>4, <1>5, <1>6, <1>7, <1>8 DEF EvictionStep

\* Each step of the system is a step of the ledger or leaves it alone.
LEMMA SystemStepIsLedgerStep ==
  ASSUME [SystemNext]_vars
  PROVE  [Next]_ledgerVars
<1>1. CASE EvictionStep
  BY <1>1, EvictionStepIsLedgerStep
<1>2. CASE LedgerStep
  BY <1>2 DEF LedgerStep, Next
<1>3. CASE WorldStep
  BY <1>3
     DEF WorldStep, IssueProjection, WriteFile, BindArtifact, WorkloadExit, BrokerCloses,
         HookGivesUp, Next
<1>4. CASE UNCHANGED vars
  BY <1>4 DEF vars
<1> QED  BY <1>1, <1>2, <1>3, <1>4 DEF SystemNext

\* The hook, the broker, the adapter and the workload only choose among the
\* answers that LeaseLedger allows: its theorems hold of the system.
THEOREM LedgerInside == SystemSpec => Spec
<1>1. SystemInit => Init
  BY DEF SystemInit
<1>2. [SystemNext]_vars => [Next]_ledgerVars
  BY SystemStepIsLedgerStep
<1> QED  BY <1>1, <1>2, PTL DEF SystemSpec, Spec

-----------------------------------------------------------------------------
(* What the ledger's own steps do to what an eviction relies on.           *)

\* A record is EVICTED after the step only if it was, with the same refs.
Quiet ==
  \A l \in Leases, g \in Generations :
    records'[l][g].state = "EVICTED" =>
      records[l][g].state = "EVICTED" /\ records'[l][g].refs = records[l][g].refs

\* Storing a record that is not EVICTED evicts nothing.
LEMMA StoreIsQuiet ==
  ASSUME TypeOK, NEW l \in Leases, NEW g \in Generations, NEW r \in Record,
         Store(l, g, r), r.state # "EVICTED"
  PROVE  Quiet
<1>1. /\ records'[l][g] = r
      /\ \A m \in Leases, h \in Generations :
           m # l \/ h # g => records'[m][h] = records[m][h]
  BY StoreEffect DEF TypeOK, RecordTable
<1> SUFFICES ASSUME NEW m \in Leases, NEW h \in Generations,
                    records'[m][h].state = "EVICTED"
             PROVE  records'[m][h] = records[m][h]
  BY DEF Quiet
<1> QED  BY <1>1

\* Nor does a step that stores nothing.
LEMMA SameRecordsAreQuiet ==
  ASSUME records' = records
  PROVE  Quiet
BY DEF Quiet

\* No method but the end of an eviction makes a record EVICTED.
LEMMA MethodIsQuiet ==
  ASSUME IInv, NEW l \in Leases, Method(l)
  PROVE  Quiet
<1>0. /\ activeKey \in KeyIds
      /\ boot \in Boots
      /\ \A g \in Generations : records[l][g] \in Record
      /\ TypeOK
  BY DEF IInv, TypeOK
<1>1. CASE Issue(l)
  <2>1. 1 \in Generations
    BY LedgerAssumption DEF Generations
  <2>2. IssuedRecord \in Record /\ IssuedRecord.state # "EVICTED"
    BY <1>0, <2>1, RecordType, IssuedFields
  <2> QED  BY <1>0, <1>1, <2>1, <2>2, StoreIsQuiet DEF Issue
<1>2. ASSUME NEW g \in Generations, Activate(l, g) PROVE Quiet
  <2>1. "ACTIVE" \in States
    BY DEF States, Usable
  <2> QED  BY <1>0, <1>2, <2>1, RecordType, RecordFields, StoreIsQuiet DEF Activate
<1>3. ASSUME NEW g \in Generations, Renew(l, g) PROVE Quiet
  <2>1. /\ records'[l][g].state = "REVOKING"
        /\ records'[l][g + 1].state = "ACTIVE"
        /\ \A m \in Leases, h \in Generations :
             m # l \/ (h # g /\ h # g + 1) => records'[m][h] = records[m][h]
    BY <1>3, RenewEffect
  <2> SUFFICES ASSUME NEW m \in Leases, NEW h \in Generations,
                      records'[m][h].state = "EVICTED"
               PROVE  records'[m][h] = records[m][h]
    BY DEF Quiet
  <2> QED  BY <2>1
<1>4. ASSUME NEW g \in Generations, NEW p \in Projections, Attach(l, g, p)
      PROVE  Quiet
  <2>1. Signed([records[l][g] EXCEPT !.refs = @ \cup {p}]).state = "ACTIVE"
    BY <1>0, <1>4 DEF Attach, Signed, Record
  <2> QED  BY <1>0, <1>4, <2>1, RecordType, StoreIsQuiet DEF Attach
<1>5. ASSUME NEW g \in Generations, BeginRevoke(l, g) PROVE Quiet
  <2>1. "REVOKING" \in States
    BY DEF States
  <2> QED  BY <1>0, <1>5, <2>1, RecordType, RecordFields, StoreIsQuiet DEF BeginRevoke
<1>6. ASSUME NEW g \in Generations, NEW b \in BOOLEAN, EvictBegin(l, g, b)
      PROVE  Quiet
  <2>1. "QUARANTINED" \in States /\ "REVOKING" \in States
    BY DEF States, Terminal
  <2>2. RevokingRecord(records[l][g]) \in Record
    BY <1>0, RecordType
  <2> QED  BY <1>0, <1>6, <2>1, <2>2, RecordType, RecordFields, StoreIsQuiet
              DEF EvictBegin, Conclude
<1> QED
  BY <1>1, <1>2, <1>3, <1>4, <1>5, <1>6 DEF Method

\* Keyring and clock evict nothing and leave the attached projections alone.
LEMMA EnvironmentIsQuiet ==
  ASSUME TypeOK, Environment
  PROVE  /\ Quiet
         /\ eviction' = eviction
         /\ \A l \in Leases, g \in Generations :
              records'[l][g].refs = records[l][g].refs
<1>1. CASE records' = records /\ eviction' = eviction
  BY <1>1, SameRecordsAreQuiet
<1>2. ASSUME NEW l \in Leases, NEW g \in Generations, Expire(l, g)
      PROVE  /\ Quiet
             /\ eviction' = eviction
             /\ \A m \in Leases, h \in Generations :
                  records'[m][h].refs = records[m][h].refs
  <2> DEFINE r == [records[l][g] EXCEPT !.expired = TRUE]
  <2>1. records[l][g] \in Record /\ records[l][g].state \in Usable
    BY <1>2 DEF TypeOK, Expire
  <2>3. r \in Record /\ r.state # "EVICTED" /\ r.refs = records[l][g].refs
    BY <2>1 DEF Record, Usable
  <2>2. Store(l, g, r) /\ eviction' = eviction
    BY <1>2 DEF Expire
  <2> HIDE DEF r
  <2>4. Quiet
    BY <2>2, <2>3, StoreIsQuiet
  <2>5. /\ records'[l][g] = r
        /\ \A m \in Leases, h \in Generations :
             m # l \/ h # g => records'[m][h] = records[m][h]
    BY <2>2, <2>3, StoreEffect DEF TypeOK, RecordTable
  <2>6. \A m \in Leases, h \in Generations :
          records'[m][h].refs = records[m][h].refs
    BY <2>3, <2>5
  <2> QED  BY <2>2, <2>4, <2>6
<1> QED
  BY <1>1, <1>2 DEF Environment, Rotate, Retire, Reboot

\* A method needs the lock; if it starts an eviction, its call is the hook's.
LEMMA MethodAndLock ==
  ASSUME NEW l \in Leases, Method(l)
  PROVE  /\ LockFree
         /\ eviction' = NoEviction \/ eviction'.call = "SECRETS"
<1>1. ASSUME LockFree, UNCHANGED eviction PROVE eviction' = NoEviction
  BY <1>1 DEF LockFree
<1>2. CASE Issue(l)
  BY <1>1, <1>2 DEF Issue
<1>3. ASSUME NEW g \in Generations,
             \/ Activate(l, g) \/ Renew(l, g) \/ BeginRevoke(l, g)
             \/ \E p \in Projections : Attach(l, g, p)
      PROVE  LockFree /\ eviction' = NoEviction
  BY <1>1, <1>3 DEF Activate, Renew, BeginRevoke, Attach, MayRevoke
<1>4. ASSUME NEW g \in Generations, NEW b \in BOOLEAN, EvictBegin(l, g, b)
      PROVE  LockFree /\ (eviction' = NoEviction \/ eviction'.call = "SECRETS")
  BY <1>4 DEF EvictBegin, Conclude, MayRevoke
<1> QED  BY <1>2, <1>3, <1>4 DEF Method

\* The adapter's answers move the record under eviction, keep its refs, and
\* make it EVICTED only without a failure and with the workload dead.
LEMMA AdapterMoves ==
  ASSUME IInv, NEW bound \in BOOLEAN, NEW ok \in BOOLEAN, NEW dead \in BOOLEAN,
         NEW released \in BOOLEAN,
         EvictBinding(bound) \/ EvictTerminate(ok) \/ EvictVerify(dead, released)
  PROVE  /\ eviction.lease \in Leases
         /\ eviction.generation \in Generations
         /\ eviction' = NoEviction \/ Attached' = Attached
         /\ \A l \in Leases, g \in Generations :
              records'[l][g].state = "EVICTED" =>
                /\ records'[l][g].refs = records[l][g].refs
                /\ \/ records[l][g].state = "EVICTED"
                   \/ /\ EvictVerify(dead, released)
                      /\ l = eviction.lease
                      /\ g = eviction.generation
                      /\ dead
                      /\ ~eviction.failed
<1> DEFINE l == eviction.lease
           g == eviction.generation
           old == records[l][g]
           Becomes(s) == Signed([old EXCEPT !.state = s])
<1>0. eviction # NoEviction
  BY DEF EvictBinding, EvictTerminate, EvictVerify, Proceed, NoEviction
<1>1. TypeOK /\ l \in Leases /\ g \in Generations
  BY <1>0, HolderType DEF IInv
<1>2. old \in Record /\ activeKey \in KeyIds /\ boot \in Boots
  BY <1>1 DEF TypeOK
<1>3. \A s \in States : /\ Becomes(s) \in Record
                        /\ Becomes(s).state = s
                        /\ Becomes(s).refs = old.refs
  BY <1>2, RecordType, RecordFields DEF Signed, Record
<1>4. {"EVICTING", "VERIFYING", "EVICTED", "QUARANTINED"} \subseteq States
  BY DEF States, Terminal
<1>5. PICK s \in {"EVICTING", "VERIFYING", "EVICTED", "QUARANTINED"} :
        /\ Store(l, g, Becomes(s))
        /\ s = "EVICTED" => EvictVerify(dead, released) /\ dead /\ ~eviction.failed
  <2>1. CASE EvictBinding(bound)
    BY <2>1 DEF EvictBinding, Conclude
  <2>2. CASE EvictTerminate(ok)
    BY <2>2 DEF EvictTerminate
  <2>3. CASE EvictVerify(dead, released)
    BY <2>3 DEF EvictVerify, Conclude, Outcome
  <2> QED  BY <2>1, <2>2, <2>3
<1>6. \/ eviction' = NoEviction
      \/ eviction'.lease = l /\ eviction'.generation = g
  <2>0. eviction \in Eviction
    BY <1>0, <1>1, HolderType
  <2>1. CASE EvictBinding(bound)
    <3>1. CASE Proceed("BINDING", "TERMINATE", TRUE)
      BY <2>0, <3>1 DEF Proceed, Eviction
    <3>2. CASE eviction' = NoEviction
      BY <3>2
    <3> QED  BY <2>1, <3>1, <3>2 DEF EvictBinding, Conclude
  <2>2. CASE EvictTerminate(ok)
    BY <2>0, <2>2 DEF EvictTerminate, Proceed, Eviction
  <2>3. CASE EvictVerify(dead, released)
    BY <2>3 DEF EvictVerify, Conclude
  <2> QED  BY <2>1, <2>2, <2>3
<1> HIDE DEF Becomes
<1>7. /\ records'[l][g] = Becomes(s)
      /\ \A m \in Leases, h \in Generations :
           m # l \/ h # g => records'[m][h] = records[m][h]
  BY <1>1, <1>3, <1>4, <1>5, StoreEffect DEF TypeOK, RecordTable
<1>8. eviction' = NoEviction \/ Attached' = Attached
  BY <1>3, <1>4, <1>6, <1>7 DEF Attached
<1>9. ASSUME NEW m \in Leases, NEW h \in Generations,
             records'[m][h].state = "EVICTED"
      PROVE  /\ records'[m][h].refs = records[m][h].refs
             /\ \/ records[m][h].state = "EVICTED"
                \/ /\ EvictVerify(dead, released)
                   /\ m = l /\ h = g
                   /\ dead
                   /\ ~eviction.failed
  <2>1. CASE m = l /\ h = g
    BY <1>3, <1>4, <1>5, <1>7, <1>9, <2>1
  <2>2. CASE m # l \/ h # g
    BY <1>7, <1>9, <2>2
  <2> QED  BY <2>1, <2>2
<1> QED  BY <1>1, <1>8, <1>9

-----------------------------------------------------------------------------
(* The invariant, for each kind of step.                                   *)

\* Who holds the lock and what is attached to its generation.
LEMMA HolderRefs ==
  ASSUME IInv, WorldTypeOK
  PROVE  /\ eviction # NoEviction => Attached \in SUBSET Projections
         /\ eviction # NoEviction => eviction.lease \in Leases
                                       /\ eviction.generation \in Generations
         /\ eviction.call # "NONE" => eviction # NoEviction
         /\ hook.at # "IDLE" => eviction # NoEviction
<1>1. ASSUME eviction # NoEviction
      PROVE  /\ eviction.lease \in Leases /\ eviction.generation \in Generations
             /\ Attached \in SUBSET Projections
  <2>1. eviction.lease \in Leases /\ eviction.generation \in Generations
    BY <1>1, HolderType DEF IInv
  <2>2. records[eviction.lease][eviction.generation] \in Record
    BY <2>1 DEF IInv, TypeOK
  <2> QED  BY <2>1, <2>2 DEF Attached, Record
<1> QED  BY <1>1 DEF WorldTypeOK, NoEviction

\* The ledger's own steps: under a free lock the hook is idle.
LEMMA LedgerStepKeeps ==
  ASSUME IInv, WorldInv, LedgerStep
  PROVE  WorldInv'
<1>1. UNCHANGED worldVars /\ ((\E l \in Leases : Method(l)) \/ Environment)
  BY DEF LedgerStep
<1>2. Quiet
  BY <1>1, MethodIsQuiet, EnvironmentIsQuiet DEF IInv
<1>3. EvictedMeansReclaimed'
  BY <1>1, <1>2 DEF Quiet, WorldInv, EvictedMeansReclaimed, worldVars
<1>4. ZeroizedIsForgotten'
  BY <1>1 DEF WorldInv, ZeroizedIsForgotten, worldVars
<1>5. CASE \E l \in Leases : Method(l)
  <2>1. LockFree /\ (eviction' = NoEviction \/ eviction'.call = "SECRETS")
    BY <1>5, MethodAndLock
  <2>2. hook.at = "IDLE"
    BY <2>1 DEF LockFree, NoEviction, WorldInv, WorldTypeOK
  <2>3. eviction'.call \in {"NONE", "SECRETS"}
    BY <2>1 DEF NoEviction
  <2> QED  BY <1>1, <1>3, <1>4, <2>2, <2>3
           DEF WorldInv, WorldTypeOK, HookFollows, CleanOrFailed, worldVars
<1>6. CASE Environment
  <2>1. /\ eviction' = eviction
        /\ \A l \in Leases, g \in Generations :
             records'[l][g].refs = records[l][g].refs
    BY <1>6, EnvironmentIsQuiet DEF IInv
  <2>2. eviction # NoEviction => Attached' = Attached
    BY <2>1, HolderRefs DEF Attached, WorldInv
  <2>3. WorldTypeOK'
    BY <1>1, <2>1 DEF WorldInv, WorldTypeOK, worldVars
  <2>4. HookFollows'
    BY <1>1, <2>1, <2>2, HolderRefs DEF WorldInv, HookFollows, worldVars
  <2>5. CleanOrFailed'
    BY <1>1, <2>1, <2>2, HolderRefs DEF WorldInv, CleanOrFailed, worldVars
  <2> QED  BY <1>3, <1>4, <2>3, <2>4, <2>5 DEF WorldInv
<1> QED  BY <1>1, <1>5, <1>6

\* A request of the hook failed, whatever the broker made of it: the failure is
\* recorded in the eviction, or the hook waits on.
LEMMA RequestFailsKeeps ==
  ASSUME IInv, WorldInv, HookGivesUp \/ HookWaits, hook.at # "IDLE",
         store' \in [Projections -> Entry],
         file' \in [Projections -> [Copies -> {"none", "written", "unlinked"}]],
         UNCHANGED <<workload, signalled, freed>>, ZeroizedIsForgotten',
         \A p \in Projections : store[p].state = "ZEROIZED" =>
                                  store'[p].state = "ZEROIZED"
  PROVE  WorldInv'
<1>1. records' = records /\ eviction.call = "SECRETS" /\ eviction # NoEviction
  BY HolderRefs
     DEF HookGivesUp, HookWaits, EvictSecrets, Proceed, WorldInv, WorldTypeOK, ledgerVars
<1>2. EvictedMeansReclaimed'
  <2>1. \A l \in Leases, g \in Generations : records[l][g].refs \subseteq Projections
    BY DEF IInv, TypeOK, Record
  <2> QED  BY <1>1, <2>1 DEF WorldInv, EvictedMeansReclaimed
<1>3. CASE HookGivesUp
  <2>1. /\ hook' = IdleHook
        /\ eviction' = [eviction EXCEPT !.call = "BINDING", !.failed = @ \/ ~FALSE]
    BY <1>3 DEF HookGivesUp, EvictSecrets, Proceed
  <2>2. eviction'.failed
    <3>1. eviction \in Eviction
      BY <1>1, HolderType DEF IInv
    <3> QED  BY <2>1, <3>1 DEF Eviction
  <2>3. WorldTypeOK'
    BY <2>1 DEF WorldInv, WorldTypeOK, IdleHook, Hook, HookSteps
  <2> QED  BY <1>2, <2>1, <2>2, <2>3 DEF WorldInv, HookFollows, CleanOrFailed, IdleHook
<1>4. CASE HookWaits
  <2>1. /\ hook' \in Hook /\ hook'.at = "STUCK" /\ hook'.todo = hook.todo
        /\ eviction' = eviction
    BY <1>4 DEF HookWaits, WorldInv, WorldTypeOK, Hook, HookSteps, ledgerVars
  <2>2. Attached' = Attached /\ Attached \in SUBSET Projections
    BY <1>1, <2>1, HolderRefs DEF Attached, WorldInv
  <2>3. WorldTypeOK'
    BY <1>1, <2>1 DEF WorldInv, WorldTypeOK
  <2>4. HookFollows'
    BY <2>1, <2>2 DEF WorldInv, HookFollows
  <2>5. CleanOrFailed'
    BY <1>1, <2>1 DEF CleanOrFailed
  <2> QED  BY <1>2, <2>3, <2>4, <2>5 DEF WorldInv
<1> QED  BY <1>3, <1>4

\* The broker and the workload: a bind needs an active projection, nothing is
\* un-zeroized, and a file that was unlinked is not written again.
LEMMA WorldStepKeeps ==
  ASSUME IInv, WorldInv, WorldStep
  PROVE  WorldInv'
<1>1. ASSUME NEW p \in Projections, NEW l \in Leases, NEW g \in Generations,
             IssueProjection(p, l, g)
      PROVE  WorldInv'
  <2>0. UNCHANGED <<records, eviction, file, workload, signalled, freed, hook>>
    BY <1>1 DEF IssueProjection, ledgerVars
  <2>1. /\ store[p].state = "NONE"
        /\ store' = [store EXCEPT ![p] = [state |-> "ACTIVE", lease |-> l,
                                          generation |-> g, artifact |-> NoCopy]]
    BY <1>1 DEF IssueProjection
  <2>2. WorldTypeOK'
    BY <2>0, <2>1, LedgerAssumption
       DEF WorldInv, WorldTypeOK, Entry, Generations
  <2>3. \A q \in Projections : store'[q] = store[q] \/ store[q].state = "NONE"
    BY <2>1 DEF WorldInv, WorldTypeOK
  <2>4. store'[p].state = "ACTIVE"
    BY <2>1 DEF WorldInv, WorldTypeOK
  <2>5. \A q \in Projections : q # p => store'[q] = store[q]
    BY <2>1 DEF WorldInv, WorldTypeOK
  <2>6. ZeroizedIsForgotten'
    BY <2>4, <2>5 DEF WorldInv, ZeroizedIsForgotten
  <2>7. EvictedMeansReclaimed'
    <3>1. \A m \in Leases, h \in Generations : records[m][h].refs \subseteq Projections
      BY DEF IInv, TypeOK, Record
    <3> QED  BY <2>0, <2>3, <3>1 DEF WorldInv, EvictedMeansReclaimed
  <2>8. HookFollows'
    <3>1. \A q \in Projections : store[q].state # "NONE" => store'[q] = store[q]
      BY <2>3
    <3>2. hook.at # "IDLE" => Attached' = Attached /\ Attached \in SUBSET Projections
      BY <2>0, HolderRefs DEF WorldInv, Attached
    <3>3. hook.at \in {"ZEROIZE", "ACK"} => hook.ref \in Projections
      BY DEF WorldInv, WorldTypeOK, Hook
    <3> QED  BY <2>0, <3>1, <3>2, <3>3 DEF WorldInv, HookFollows
  <2>9. CleanOrFailed'
    BY <2>0, <2>3, HolderRefs DEF WorldInv, CleanOrFailed, Attached
  <2> QED  BY <2>2, <2>6, <2>7, <2>8, <2>9 DEF WorldInv
<1>2. ASSUME NEW p \in Projections, NEW c \in Copies, WriteFile(p, c)
      PROVE  WorldInv'
  <2>0. UNCHANGED <<records, eviction, store, workload, signalled, freed, hook>>
    BY <1>2 DEF WriteFile, ledgerVars
  <2>1. file' = [file EXCEPT ![p][c] = "written"] /\ file[p][c] = "none"
    BY <1>2 DEF WriteFile, Copies
  <2>2. /\ file' \in [Projections -> [Copies -> {"none", "written", "unlinked"}]]
        /\ \A q \in Projections, d \in Copies :
             file[q][d] = "unlinked" => file'[q][d] = "unlinked"
    BY <2>1 DEF WorldInv, WorldTypeOK
  <2>3. WorldTypeOK'
    BY <2>0, <2>2 DEF WorldInv, WorldTypeOK
  <2>4. HookFollows'
    <3>1. hook.at = "ACK" => hook.ref \in Projections /\ hook.target \in Copies \cup {NoCopy}
      BY DEF WorldInv, WorldTypeOK, Hook
    <3> QED  BY <2>0, <2>2, <3>1 DEF WorldInv, HookFollows, Attached
  <2>5. ZeroizedIsForgotten' /\ EvictedMeansReclaimed' /\ CleanOrFailed'
    BY <2>0 DEF WorldInv, ZeroizedIsForgotten, EvictedMeansReclaimed, CleanOrFailed, Attached
  <2> QED  BY <2>3, <2>4, <2>5 DEF WorldInv
<1>3. ASSUME NEW p \in Projections, NEW c \in Copies, BindArtifact(p, c)
      PROVE  WorldInv'
  <2>0. UNCHANGED <<records, eviction, file, workload, signalled, freed, hook>>
    BY <1>3 DEF BindArtifact, ledgerVars
  <2>1. store[p].state = "ACTIVE" /\ store' = [store EXCEPT ![p].artifact = c]
    BY <1>3 DEF BindArtifact, Bindable
  <2>2. /\ store' \in [Projections -> Entry]
        /\ \A q \in Projections : store'[q] = store[q] \/ q = p
        /\ \A q \in Projections : store'[q].state = store[q].state
    BY <2>1 DEF WorldInv, WorldTypeOK, Entry
  <2>3. WorldTypeOK'
    BY <2>0, <2>2 DEF WorldInv, WorldTypeOK
  <2>4. HookFollows'
    BY <2>0, <2>1, <2>2, HolderRefs DEF WorldInv, WorldTypeOK, HookFollows, Attached
  <2>5. ZeroizedIsForgotten'
    BY <2>1, <2>2 DEF WorldInv, ZeroizedIsForgotten
  <2>6. EvictedMeansReclaimed'
    <3>1. \A l \in Leases, g \in Generations : records[l][g].refs \subseteq Projections
      BY DEF IInv, TypeOK, Record
    <3> QED  BY <2>0, <2>2, <3>1 DEF WorldInv, EvictedMeansReclaimed
  <2>7. CleanOrFailed'
    BY <2>0, <2>2, HolderRefs DEF WorldInv, CleanOrFailed, Attached
  <2> QED  BY <2>3, <2>4, <2>5, <2>6, <2>7 DEF WorldInv
<1>4. ASSUME NEW l \in Leases, WorkloadExit(l)
      PROVE  WorldInv'
  <2>1. /\ workload' = [workload EXCEPT ![l] = "gone"]
        /\ UNCHANGED <<records, eviction, store, file, signalled, freed, hook>>
    BY <1>4 DEF WorkloadExit, ledgerVars
  <2> QED  BY <2>1
           DEF WorldInv, WorldTypeOK, ZeroizedIsForgotten, EvictedMeansReclaimed,
               HookFollows, CleanOrFailed, Attached
<1>5. CASE BrokerCloses
  <2>1. /\ hook.at # "IDLE" /\ HookGivesUp
        /\ UNCHANGED <<store, file, workload, signalled, freed>>
    BY <1>5 DEF BrokerCloses
  <2> QED  BY <2>1, RequestFailsKeeps DEF WorldInv, WorldTypeOK, ZeroizedIsForgotten
<1> QED  BY <1>1, <1>2, <1>3, <1>4, <1>5 DEF WorldStep

\* Each request of the hook, with its lost replies.
LEMMA HookKeeps ==
  ASSUME IInv, WorldInv,
         \/ HookBegin \/ HookZeroize \/ HookAck \/ HookSucceeds
         \/ \E p \in Projections : HookRevoke(p)
  PROVE  WorldInv'
<1>0. UNCHANGED <<records, workload, freed>>
  BY DEF HookBegin, HookZeroize, HookAck, HookSucceeds, HookRevoke, HookGivesUp, HookWaits,
         EvictSecrets, ledgerVars
<1>00. \A l \in Leases, g \in Generations : records[l][g].refs \subseteq Projections
  BY DEF IInv, TypeOK, Record
<1>1. CASE HookBegin
  <2>1. /\ eviction.call = "SECRETS" /\ eviction # NoEviction
        /\ hook' = [at |-> "REVOKE", ref |-> NoProjection, target |-> NoCopy,
                    todo |-> Attached]
        /\ UNCHANGED <<eviction, store, file, signalled>>
    <3>1. eviction.call = "SECRETS" /\ UNCHANGED <<eviction, store, file, signalled>>
      BY <1>1 DEF HookBegin, ledgerVars
    <3>2. hook' = [IdleHook EXCEPT !.at = "REVOKE", !.todo = Attached]
      BY <1>1 DEF HookBegin, Attached
    <3>3. hook' = [at |-> "REVOKE", ref |-> NoProjection, target |-> NoCopy,
                   todo |-> Attached]
      BY <3>2 DEF IdleHook
    <3>4. eviction # NoEviction
      BY <3>1 DEF NoEviction
    <3> QED  BY <3>1, <3>3, <3>4
  <2>2. Attached' = Attached /\ Attached \in SUBSET Projections
    BY <1>0, <2>1, HolderRefs DEF Attached, WorldInv
  <2>3. WorldTypeOK'
    BY <1>0, <2>1, <2>2 DEF WorldInv, WorldTypeOK, Hook, HookSteps
  <2>4. ZeroizedIsForgotten' /\ EvictedMeansReclaimed'
    BY <1>0, <2>1 DEF WorldInv, ZeroizedIsForgotten, EvictedMeansReclaimed
  <2>5. HookFollows' /\ CleanOrFailed'
    BY <2>1, <2>2 DEF HookFollows, CleanOrFailed
  <2> QED  BY <2>3, <2>4, <2>5 DEF WorldInv
<1>2. ASSUME NEW p \in Projections, HookRevoke(p)
      PROVE  WorldInv'
  <2>0. /\ hook.at = "REVOKE" /\ p \in hook.todo
        /\ UNCHANGED <<file, signalled>>
        /\ eviction.call = "SECRETS"
    BY <1>2 DEF HookRevoke, WorldInv, WorldTypeOK
  <2>1. CASE (HookGivesUp \/ HookWaits) /\ UNCHANGED store
    BY <1>0, <2>0, <2>1, RequestFailsKeeps DEF WorldInv, WorldTypeOK, ZeroizedIsForgotten
  <2>2. CASE /\ store[p].state \in {"ACTIVE", "REVOKED"}
             /\ store' = [store EXCEPT ![p].state = "REVOKED"]
             /\ \/ /\ hook' = [hook EXCEPT !.at = IF store[p].artifact = NoCopy
                                                  THEN "ACK" ELSE "ZEROIZE",
                                           !.ref = p,
                                           !.target = store[p].artifact]
                   /\ UNCHANGED ledgerVars
                \/ HookGivesUp \/ HookWaits
    <3>1. /\ store' \in [Projections -> Entry]
          /\ store'[p].state = "REVOKED" /\ store'[p].artifact = store[p].artifact
          /\ store[p].artifact \in Copies \cup {NoCopy}
          /\ \A q \in Projections : q # p => store'[q] = store[q]
      BY <2>2 DEF WorldInv, WorldTypeOK, Entry
    <3>2. ZeroizedIsForgotten'
      BY <3>1 DEF WorldInv, ZeroizedIsForgotten
    <3>3. \A q \in Projections : store[q].state = "ZEROIZED" =>
                                   store'[q].state = "ZEROIZED"
      BY <2>2, <3>1
    <3>4. CASE HookGivesUp \/ HookWaits
      BY <1>0, <2>0, <3>1, <3>2, <3>3, <3>4, RequestFailsKeeps DEF WorldInv, WorldTypeOK
    <3>5. CASE /\ hook' = [hook EXCEPT !.at = IF store[p].artifact = NoCopy
                                              THEN "ACK" ELSE "ZEROIZE",
                                       !.ref = p,
                                       !.target = store[p].artifact]
               /\ UNCHANGED ledgerVars
      <4>1. /\ hook'.at = IF store[p].artifact = NoCopy THEN "ACK" ELSE "ZEROIZE"
            /\ hook'.ref = p /\ hook'.todo = hook.todo /\ hook'.target = store[p].artifact
            /\ hook' \in Hook
        BY <3>1, <3>5 DEF WorldInv, WorldTypeOK, Hook, HookSteps
      <4>2. UNCHANGED eviction /\ Attached' = Attached
        BY <3>5 DEF ledgerVars, Attached
      <4>3. Attached \in SUBSET Projections
        BY <2>0, HolderRefs DEF WorldInv
      <4>4. WorldTypeOK'
        BY <1>0, <2>0, <3>1, <4>1, <4>2 DEF WorldInv, WorldTypeOK
      <4>5. EvictedMeansReclaimed'
        BY <1>0, <1>00, <3>3 DEF WorldInv, EvictedMeansReclaimed
      <4>6. HookFollows'
        BY <2>0, <3>1, <3>3, <4>1, <4>2, <4>3 DEF WorldInv, HookFollows
      <4>7. CleanOrFailed'
        BY <2>0, <4>2 DEF CleanOrFailed
      <4> QED  BY <3>2, <4>4, <4>5, <4>6, <4>7 DEF WorldInv
    <3> QED  BY <2>2, <3>4, <3>5
  <2> QED  BY <1>2, <2>1, <2>2 DEF HookRevoke
<1>3. CASE HookZeroize
  <2>0. /\ hook.at = "ZEROIZE" /\ hook.ref \in hook.todo
        /\ UNCHANGED <<store, signalled>>
        /\ eviction.call = "SECRETS"
    BY <1>3 DEF HookZeroize, WorldInv, WorldTypeOK
  <2>1. CASE HookGivesUp /\ UNCHANGED file
    BY <1>0, <2>0, <2>1, RequestFailsKeeps DEF WorldInv, WorldTypeOK, ZeroizedIsForgotten
  <2>2. CASE /\ file' = [file EXCEPT ![hook.ref][hook.target] = "unlinked"]
             /\ hook' = [hook EXCEPT !.at = "ACK"]
             /\ UNCHANGED ledgerVars
    <3>0. hook.ref \in Projections /\ hook.target \in Copies
      BY <2>0 DEF WorldInv, WorldTypeOK, HookFollows, Hook
    <3>1. /\ file' \in [Projections -> [Copies -> {"none", "written", "unlinked"}]]
          /\ file'[hook.ref][hook.target] = "unlinked"
      BY <2>2, <3>0 DEF WorldInv, WorldTypeOK
    <3>2. /\ hook'.at = "ACK" /\ hook'.ref = hook.ref /\ hook'.todo = hook.todo
          /\ hook'.target = hook.target /\ hook' \in Hook
      BY <2>2 DEF WorldInv, WorldTypeOK, Hook, HookSteps
    <3>3. UNCHANGED eviction /\ Attached' = Attached
      BY <2>2 DEF ledgerVars, Attached
    <3>4. WorldTypeOK'
      BY <1>0, <2>0, <3>1, <3>2, <3>3 DEF WorldInv, WorldTypeOK
    <3>5. ZeroizedIsForgotten'
      BY <2>0 DEF WorldInv, ZeroizedIsForgotten
    <3>6. EvictedMeansReclaimed' /\ CleanOrFailed'
      BY <1>0, <2>0, <3>3 DEF WorldInv, EvictedMeansReclaimed, CleanOrFailed
    <3>7. HookFollows'
      BY <2>0, <3>1, <3>2, <3>3 DEF WorldInv, HookFollows
    <3> QED  BY <3>4, <3>5, <3>6, <3>7 DEF WorldInv
  <2> QED  BY <1>3, <2>1, <2>2 DEF HookZeroize
<1>4. CASE HookAck
  <2>0. /\ hook.at = "ACK" /\ hook.ref \in hook.todo /\ hook.ref \in Projections
        /\ UNCHANGED <<file, signalled>>
        /\ eviction.call = "SECRETS"
    BY <1>4 DEF HookAck, WorldInv, WorldTypeOK, Hook
  <2>1. CASE (HookGivesUp \/ HookWaits) /\ UNCHANGED store
    BY <1>0, <2>0, <2>1, RequestFailsKeeps DEF WorldInv, WorldTypeOK, ZeroizedIsForgotten
  <2>2. CASE /\ store' = [store EXCEPT ![hook.ref].state = "ZEROIZED",
                                       ![hook.ref].artifact = NoCopy]
             /\ (hook' = NextRef /\ UNCHANGED ledgerVars) \/ HookGivesUp \/ HookWaits
    <3>1. /\ store' \in [Projections -> Entry]
          /\ store'[hook.ref].state = "ZEROIZED" /\ store'[hook.ref].artifact = NoCopy
          /\ \A q \in Projections : q # hook.ref => store'[q] = store[q]
      BY <2>0, <2>2 DEF WorldInv, WorldTypeOK, Entry
    <3>2. ZeroizedIsForgotten'
      BY <3>1 DEF WorldInv, ZeroizedIsForgotten
    <3>3. \A q \in Projections : store[q].state = "ZEROIZED" =>
                                   store'[q].state = "ZEROIZED"
      BY <3>1
    <3>4. CASE HookGivesUp \/ HookWaits
      BY <1>0, <2>0, <3>1, <3>2, <3>3, <3>4, RequestFailsKeeps DEF WorldInv, WorldTypeOK
    <3>5. CASE hook' = NextRef /\ UNCHANGED ledgerVars
      <4>1. UNCHANGED eviction /\ Attached' = Attached
        BY <3>5 DEF ledgerVars, Attached
      <4>2. /\ hook'.at = "REVOKE" /\ hook'.todo = hook.todo \ {hook.ref}
            /\ hook' \in Hook
        BY <3>5 DEF NextRef, IdleHook, WorldInv, WorldTypeOK, Hook, HookSteps
      <4>3. Attached \in SUBSET Projections
        BY <2>0, HolderRefs DEF WorldInv
      <4>4. WorldTypeOK'
        BY <1>0, <2>0, <3>1, <4>1, <4>2 DEF WorldInv, WorldTypeOK
      <4>5. EvictedMeansReclaimed'
        BY <1>0, <1>00, <3>3 DEF WorldInv, EvictedMeansReclaimed
      <4>6. HookFollows'
        BY <2>0, <3>1, <3>3, <4>1, <4>2, <4>3 DEF WorldInv, HookFollows
      <4>7. CleanOrFailed'
        BY <2>0, <4>1 DEF CleanOrFailed
      <4> QED  BY <3>2, <4>4, <4>5, <4>6, <4>7 DEF WorldInv
    <3> QED  BY <2>2, <3>4, <3>5
  <2> QED  BY <1>4, <2>1, <2>2 DEF HookAck
<1>5. CASE HookSucceeds
  <2>1. /\ hook.at = "REVOKE" /\ hook.todo = {}
        /\ hook' = IdleHook
        /\ UNCHANGED <<store, file, signalled>>
        /\ eviction.call = "SECRETS"
        /\ eviction' = [eviction EXCEPT !.call = "BINDING", !.failed = @ \/ ~TRUE]
    BY <1>5 DEF HookSucceeds, EvictSecrets, Proceed
  <2>2. eviction \in Eviction
    BY <2>1, HolderType DEF IInv, NoEviction
  <2>3. Attached' = Attached
    BY <1>0, <2>1, <2>2 DEF Attached, Eviction
  <2>4. \A p \in Attached : store[p].state = "ZEROIZED"
    BY <2>1 DEF WorldInv, HookFollows
  <2>5. WorldTypeOK'
    BY <1>0, <2>1 DEF WorldInv, WorldTypeOK, IdleHook, Hook, HookSteps
  <2> QED  BY <1>0, <2>1, <2>3, <2>4, <2>5
           DEF WorldInv, ZeroizedIsForgotten, EvictedMeansReclaimed,
               HookFollows, CleanOrFailed, IdleHook
<1> QED  BY <1>1, <1>2, <1>3, <1>4, <1>5

\* The adapter's part: the hook is out of its loop, and EVICTED is reached only
\* by an eviction without a failure whose workload is dead.
LEMMA AdapterKeeps ==
  ASSUME IInv, WorldInv,
         \/ eviction.call = "BINDING" /\ CheckBinding
         \/ eviction.call = "TERMINATE" /\ Terminate
         \/ eviction.call = "VERIFY" /\ VerifyDead
  PROVE  WorldInv'
<1>1. /\ UNCHANGED <<store, file, workload, hook>>
      /\ signalled' \in [Leases -> BOOLEAN]
      /\ freed' \in [Leases -> BOOLEAN]
      /\ \A l \in Leases : freed[l] => freed'[l]
  BY DEF CheckBinding, Terminate, VerifyDead, DeathAnswers, worldVars,
         WorldInv, WorldTypeOK
<1>2. hook.at = "IDLE" /\ eviction.call \in {"BINDING", "TERMINATE", "VERIFY"}
  BY DEF WorldInv, WorldTypeOK
<1>3. PICK bound \in BOOLEAN, ok \in BOOLEAN, dead \in BOOLEAN, released \in BOOLEAN :
        /\ \/ EvictBinding(bound) /\ eviction.call = "BINDING"
           \/ EvictTerminate(ok) /\ eviction.call = "TERMINATE"
           \/ EvictVerify(dead, released)
        /\ EvictVerify(dead, released) /\ eviction.call = "VERIFY" /\ dead =>
             workload[eviction.lease] = "gone" /\ freed'[eviction.lease]
  <2>0. eviction.lease \in Leases
    BY <1>2, HolderRefs DEF WorldInv
  <2>1. CASE eviction.call = "BINDING" /\ CheckBinding
    BY <2>1 DEF CheckBinding
  <2>2. CASE eviction.call = "TERMINATE" /\ Terminate
    BY <2>2 DEF Terminate
  <2>3. CASE eviction.call = "VERIFY" /\ VerifyDead
    <3>1. PICK dead \in DeathAnswers(eviction.lease), released \in BOOLEAN :
            /\ EvictVerify(dead, released)
            /\ freed' = [freed EXCEPT ![eviction.lease] = @ \/ dead]
      BY <2>3 DEF VerifyDead
    <3>2. dead \in BOOLEAN /\ (dead => workload[eviction.lease] = "gone")
      BY DEF DeathAnswers
    <3>3. dead => freed'[eviction.lease]
      BY <2>0, <3>1, <3>2 DEF WorldInv, WorldTypeOK
    <3> QED  BY <3>1, <3>2, <3>3
  <2> QED  BY <2>1, <2>2, <2>3
<1>4. /\ eviction.lease \in Leases
      /\ eviction.generation \in Generations
      /\ eviction' = NoEviction \/ Attached' = Attached
      /\ \A l \in Leases, g \in Generations :
           records'[l][g].state = "EVICTED" =>
             /\ records'[l][g].refs = records[l][g].refs
             /\ \/ records[l][g].state = "EVICTED"
                \/ /\ EvictVerify(dead, released)
                   /\ l = eviction.lease
                   /\ g = eviction.generation
                   /\ dead
                   /\ ~eviction.failed
  BY <1>3, AdapterMoves
<1>5. WorldTypeOK'
  BY <1>1, <1>2 DEF WorldInv, WorldTypeOK
<1>6. ZeroizedIsForgotten' /\ HookFollows'
  BY <1>1, <1>2 DEF WorldInv, ZeroizedIsForgotten, HookFollows
<1>7. EvictedMeansReclaimed'
  <2> SUFFICES ASSUME NEW l \in Leases, NEW g \in Generations,
                      records'[l][g].state = "EVICTED"
               PROVE  /\ workload'[l] = "gone"
                      /\ freed'[l]
                      /\ \A p \in records'[l][g].refs : store'[p].state = "ZEROIZED"
    BY DEF EvictedMeansReclaimed
  <2>1. CASE records[l][g].state = "EVICTED"
    BY <1>1, <1>4, <2>1 DEF WorldInv, EvictedMeansReclaimed
  <2>2. CASE records[l][g].state # "EVICTED"
    <3>1. /\ EvictVerify(dead, released) /\ dead /\ ~eviction.failed
          /\ l = eviction.lease /\ g = eviction.generation
      BY <1>4, <2>2
    <3>2. eviction.call = "VERIFY"
      BY <3>1 DEF EvictVerify
    <3>3. \A p \in Attached : store[p].state = "ZEROIZED"
      BY <3>1, <3>2 DEF WorldInv, CleanOrFailed
    <3> QED  BY <1>1, <1>3, <1>4, <3>1, <3>2, <3>3 DEF Attached
  <2> QED  BY <2>1, <2>2
<1>8. CleanOrFailed'
  <2>1. CASE eviction' = NoEviction
    BY <2>1 DEF CleanOrFailed, NoEviction
  <2>2. CASE eviction' # NoEviction
    <3>1. eviction'.failed = FALSE => ~eviction.failed
      <4>1. eviction \in Eviction
        BY <1>2, HolderType DEF IInv, NoEviction
      <4>2. \E c \in Calls, b \in BOOLEAN :
              eviction' = [eviction EXCEPT !.call = c, !.failed = @ \/ ~b]
        BY <1>3, <2>2 DEF EvictBinding, EvictTerminate, EvictVerify, Conclude,
                          Proceed, Calls
      <4> QED  BY <4>1, <4>2 DEF Eviction
    <3>2. eviction'.failed \in BOOLEAN
      <4>1. eviction \in Eviction
        BY <1>2, HolderType DEF IInv, NoEviction
      <4>2. \E c \in Calls, b \in BOOLEAN :
              eviction' = [eviction EXCEPT !.call = c, !.failed = @ \/ ~b]
        BY <1>3, <2>2 DEF EvictBinding, EvictTerminate, EvictVerify, Conclude,
                          Proceed, Calls
      <4> QED  BY <4>1, <4>2 DEF Eviction
    <3> QED  BY <1>1, <1>2, <1>4, <2>2, <3>1, <3>2 DEF WorldInv, CleanOrFailed
  <2> QED  BY <2>1, <2>2
<1> QED  BY <1>5, <1>6, <1>7, <1>8 DEF WorldInv

-----------------------------------------------------------------------------
(* The theorems.                                                           *)

\* No eviction, no projection, no file at the start.
LEMMA InitWorldInv == SystemInit => WorldInv
<1> SUFFICES ASSUME SystemInit PROVE WorldInv
  OBVIOUS
<1>1. WorldTypeOK
  BY LedgerAssumption
     DEF SystemInit, Init, WorldInit, WorldTypeOK, IdleHook, Hook, HookSteps, Entry, NoEntry
<1>2. ZeroizedIsForgotten /\ HookFollows
  BY DEF SystemInit, WorldInit, ZeroizedIsForgotten, HookFollows, NoEntry, IdleHook
<1>3. EvictedMeansReclaimed
  BY DEF SystemInit, Init, EvictedMeansReclaimed, NoRecord
<1>4. CleanOrFailed
  BY DEF SystemInit, Init, CleanOrFailed, NoEviction
<1> QED  BY <1>1, <1>2, <1>3, <1>4 DEF WorldInv

\* Each step of the system keeps the invariant, given the ledger's.
LEMMA NextWorldInv ==
  ASSUME IInv, WorldInv, [SystemNext]_vars
  PROVE  WorldInv'
<1>1. CASE EvictionStep
  BY <1>1, HookKeeps, AdapterKeeps DEF EvictionStep
<1>2. CASE LedgerStep
  BY <1>2, LedgerStepKeeps
<1>3. CASE WorldStep
  BY <1>3, WorldStepKeeps
<1>4. CASE UNCHANGED vars
  BY <1>4 DEF vars, worldVars, ledgerVars, WorldInv, WorldTypeOK,
              ZeroizedIsForgotten, EvictedMeansReclaimed, HookFollows,
              CleanOrFailed, Attached
<1> QED  BY <1>1, <1>2, <1>3, <1>4 DEF SystemNext

\* The invariant of the system, on top of the invariant of its ledger.
THEOREM WorldInvariance == SystemSpec => []WorldInv
<1>1. SystemInit => WorldInv
  BY InitWorldInv
<1>2. IInv /\ WorldInv /\ [SystemNext]_vars => WorldInv'
  BY NextWorldInv
<1>3. SystemSpec => []IInv
  BY LedgerInside, Invariance, PTL
<1> QED  BY <1>1, <1>2, <1>3, PTL DEF SystemSpec

\* Every variable of the parties keeps its type, and the hook is in its loop
\* only while evict waits for it.
THEOREM WorldTypeCorrectness == SystemSpec => []WorldTypeOK
  BY WorldInvariance, PTL DEF WorldInv

\* A projection becomes zeroized when the file bound to it is not on disk: a bind
\* needs an active projection, so the artifact that the broker named to the hook is
\* the one that it forgets with the acknowledgement.
THEOREM NoZeroizedFileIsLeft == SystemSpec => ZeroizedFileIsGone
<1> DEFINE Gone == \A p \in Projections : store'[p].state = "ZEROIZED" =>
                     /\ store'[p].artifact = NoCopy
                     /\ store[p].artifact # NoCopy =>
                          file[p][store[p].artifact] # "written"
<1>1. ASSUME IInv, WorldInv, [SystemNext]_vars PROVE Gone
  <2>1. WorldInv'
    BY <1>1, NextWorldInv
  <2>2. CASE \A p \in Projections : store'[p].state = "ZEROIZED" =>
                                      store[p].state = "ZEROIZED"
    BY <1>1, <2>1, <2>2 DEF WorldInv, ZeroizedIsForgotten
  <2>3. CASE HookAck
    <3>1. CASE store' = [store EXCEPT ![hook.ref].state = "ZEROIZED",
                                      ![hook.ref].artifact = NoCopy]
      <4>1. \A q \in Projections : q # hook.ref => store'[q] = store[q]
        BY <1>1, <3>1 DEF WorldInv, WorldTypeOK
      <4>2. store[hook.ref].artifact # NoCopy =>
              file[hook.ref][store[hook.ref].artifact] # "written"
        BY <1>1, <2>3 DEF HookAck, WorldInv, HookFollows
      <4> QED  BY <1>1, <2>1, <4>1, <4>2 DEF WorldInv, ZeroizedIsForgotten
    <3> QED  BY <2>2, <2>3, <3>1 DEF HookAck
  <2>4. ASSUME NEW q \in Projections, HookRevoke(q) PROVE Gone
    <3>1. CASE store' = [store EXCEPT ![q].state = "REVOKED"]
      BY <1>1, <2>2, <3>1 DEF WorldInv, WorldTypeOK, Entry
    <3> QED  BY <2>2, <2>4, <3>1 DEF HookRevoke
  <2>5. CASE EvictionStep
    BY <2>2, <2>3, <2>4, <2>5
       DEF EvictionStep, HookBegin, HookZeroize, HookSucceeds, CheckBinding,
           Terminate, VerifyDead, worldVars
  <2>6. CASE WorldStep
    <3>1. ASSUME NEW q \in Projections, NEW l \in Leases, NEW g \in Generations,
                 IssueProjection(q, l, g)
          PROVE  Gone
      BY <1>1, <2>2, <3>1 DEF IssueProjection, WorldInv, WorldTypeOK
    <3>2. ASSUME NEW q \in Projections, NEW c \in Copies, BindArtifact(q, c)
          PROVE  Gone
      BY <1>1, <2>2, <3>2 DEF BindArtifact, WorldInv, WorldTypeOK, Entry
    <3> QED  BY <2>2, <2>6, <3>1, <3>2 DEF WorldStep, WriteFile, WorkloadExit, BrokerCloses
  <2> QED  BY <1>1, <2>2, <2>5, <2>6 DEF SystemNext, LedgerStep, vars, worldVars
<1>2. SystemSpec => []IInv
  BY LedgerInside, Invariance, PTL
<1> QED  BY <1>1, <1>2, WorldInvariance, PTL DEF SystemSpec, ZeroizedFileIsGone

\* EVICTED certifies the whole teardown, whatever the hook, the broker and the
\* adapter lose or race: that is what CleanOrFailed carries from the hook's last
\* acknowledgement to verify_dead.
THEOREM EvictedIsReclaimed == SystemSpec => []EvictedMeansReclaimed
  BY WorldInvariance, PTL DEF WorldInv

\* Nobody is signalled before the secrets of the generation are zeroized, but
\* by an eviction that recorded a failure and can only quarantine.
THEOREM SignalComesAfterSecrets == SystemSpec => SecretsBeforeSignal
<1> DEFINE Careful == \A l \in Leases :
                        ~signalled[l] /\ signalled'[l] =>
                          \/ eviction.failed
                          \/ \A p \in records[l][eviction.generation].refs :
                               store[p].state = "ZEROIZED"
<1>1. ASSUME IInv, WorldInv, [SystemNext]_vars PROVE Careful
  <2>1. CASE eviction.call = "TERMINATE" /\ Terminate
    <3>1. \A l \in Leases : ~signalled[l] /\ signalled'[l] => l = eviction.lease
      BY <1>1, <2>1 DEF Terminate, WorldInv, WorldTypeOK
    <3>2. eviction.failed \/ \A p \in Attached : store[p].state = "ZEROIZED"
      BY <1>1, <2>1 DEF WorldInv, CleanOrFailed
    <3> QED  BY <3>1, <3>2 DEF Attached
  <2>2. CASE UNCHANGED signalled
    BY <2>2
  <2>3. CASE EvictionStep
    BY <2>1, <2>2, <2>3
       DEF EvictionStep, HookBegin, HookRevoke, HookZeroize, HookAck,
           HookSucceeds, CheckBinding, VerifyDead, worldVars
  <2> QED  BY <1>1, <2>2, <2>3
           DEF SystemNext, LedgerStep, WorldStep, IssueProjection, WriteFile,
               BindArtifact, WorkloadExit, BrokerCloses, vars, worldVars
<1>2. SystemSpec => []IInv
  BY LedgerInside, Invariance, PTL
<1> QED  BY <1>1, <1>2, WorldInvariance, PTL DEF SystemSpec, SecretsBeforeSignal

-----------------------------------------------------------------------------
(* Part 3.  The issuer of derived leases (CompositeLease).  The sum of the *)
(* amounts is the cardinality of the set of units that the children hold,  *)
(* which grows by the slice of a derived child and shrinks by that of a    *)
(* released one.                                                           *)

Slice(c, amount) == {c} \X (1..amount)

\* All that the children of p hold, and what those of one generation hold.
Held(p) == Units(p, Known(p))
HeldUnder(p, generation) == Units(p, Under(p, generation))

\* The registered parent is on terms the HRB granted, every child was derived
\* under granted terms, and a generation has one set of terms.
TermsAreKept ==
  \A p \in Parents :
    /\ parents[p].state # "NONE" => Terms(parents[p]) \in granted[p]
    /\ \A c \in Known(p) : \E terms \in granted[p] :
         terms.generation = children[p][c].parentGeneration
    /\ \A t, u \in granted[p] : t.generation = u.generation => t = u

\* The inductive invariant of the issuer.  Finitely many children are known,
\* whatever the set Children is.
IssuerInv ==
  /\ IssuerTypeOK
  /\ \A p \in Parents : IsFiniteSet(Held(p))
  /\ AllocationIsSum
  /\ TermsAreKept
  /\ GenerationWithinParent

\* A slice has as many units as its amount.
LEMMA SliceCardinality ==
  ASSUME NEW c, NEW amount \in 0..MaxBudget
  PROVE  /\ IsFiniteSet(Slice(c, amount))
         /\ Cardinality(Slice(c, amount)) = amount
<1>1. /\ IsFiniteSet(1..amount)
      /\ Cardinality(1..amount) = amount
  <2>1. 1 \in Int /\ amount \in Int /\ amount >= 0
    BY CompositeAssumption
  <2> QED
    BY <2>1, FS_Interval
<1>2. IsFiniteSet({c}) /\ Cardinality({c}) = 1
  BY FS_Singleton
<1>3. /\ IsFiniteSet({c} \X (1..amount))
      /\ Cardinality({c} \X (1..amount)) = 1 * amount
  BY <1>1, <1>2, FS_Product
<1> QED
  BY <1>3, CompositeAssumption DEF Slice

\* A slice added to units of other children adds its amount to their number.
LEMMA AddedSlice ==
  ASSUME NEW U, IsFiniteSet(U), NEW c, NEW amount \in 0..MaxBudget,
         \A u \in U : u[1] # c
  PROVE  /\ IsFiniteSet(U \cup Slice(c, amount))
         /\ Cardinality(U) \in Nat
         /\ Cardinality(U \cup Slice(c, amount)) = Cardinality(U) + amount
<1>1. U \cap Slice(c, amount) = {}
  BY DEF Slice
<1>2. Cardinality(U \cap Slice(c, amount)) = 0
  BY <1>1, FS_EmptySet
<1>3. Cardinality(U) \in Nat
  BY FS_CardinalityType
<1>4. /\ IsFiniteSet(U \cup Slice(c, amount))
      /\ Cardinality(U \cup Slice(c, amount)) =
           Cardinality(U) + Cardinality(Slice(c, amount))
             - Cardinality(U \cap Slice(c, amount))
  BY SliceCardinality, FS_Union
<1> QED
  BY <1>2, <1>3, <1>4, SliceCardinality, CompositeAssumption

\* What the children of one generation hold is part of what all hold.
LEMMA HeldUnderIsFinite ==
  ASSUME NEW p \in Parents, NEW generation, IsFiniteSet(Held(p))
  PROVE  /\ HeldUnder(p, generation) \subseteq Held(p)
         /\ IsFiniteSet(HeldUnder(p, generation))
         /\ Cardinality(HeldUnder(p, generation)) \in Nat
         /\ Cardinality(Held(p)) \in Nat
         /\ Cardinality(HeldUnder(p, generation)) <= Cardinality(Held(p))
<1>1. HeldUnder(p, generation) \subseteq Held(p)
  BY DEF Held, HeldUnder, Units, Under
<1> QED
  BY <1>1, FS_Subset, FS_CardinalityType

-----------------------------------------------------------------------------
\* The issuer starts with nothing granted and nothing held.
LEMMA InitIssuerInv == IssuerInit => IssuerInv
<1> SUFFICES ASSUME IssuerInit PROVE IssuerInv
  OBVIOUS
<1> USE DEF IssuerInit, KeyringInit
<1>1. IssuerTypeOK
  <2>1. NoParent \in ParentLease /\ NoChild \in ChildLease
    BY KeyringAssumption, CompositeAssumption
    DEF NoParent, NoChild, ParentLease, ChildLease
  <2>2. \A p \in Parents : 0 \in 0..MaxBudget
    BY CompositeAssumption
  <2> QED
    BY <2>1, <2>2, KeyringAssumption DEF IssuerTypeOK
<1>2. \A p \in Parents : Known(p) = {}
  BY DEF Known, NoChild
<1>3. \A p \in Parents : Held(p) = {}
  BY <1>2 DEF Held, Units
<1>4. \A p \in Parents : IsFiniteSet(Held(p)) /\ Cardinality(Held(p)) = 0
  BY <1>3, FS_EmptySet
<1>5. AllocationIsSum
  BY <1>4 DEF AllocationIsSum, AmountOf, Held
<1>6. TermsAreKept /\ GenerationWithinParent
  BY <1>2 DEF TermsAreKept, GenerationWithinParent, NoParent
<1> QED
  BY <1>1, <1>4, <1>5, <1>6 DEF IssuerInv

\* A step that keeps of each child whether it is known, its amount, its
\* generation and its scope keeps what the children hold.
LEMMA SameChildrenHoldTheSame ==
  ASSUME NEW p \in Parents,
         \A c \in Children :
           /\ children'[p][c].state = "NONE" <=> children[p][c].state = "NONE"
           /\ children'[p][c].amount = children[p][c].amount
           /\ children'[p][c].parentGeneration = children[p][c].parentGeneration
  PROVE  /\ Known(p)' = Known(p)
         /\ Held(p)' = Held(p)
         /\ \A generation : Under(p, generation)' = Under(p, generation)
         /\ \A generation : HeldUnder(p, generation)' = HeldUnder(p, generation)
<1>1. Known(p)' = Known(p)
  BY DEF Known
<1>2. \A generation : Under(p, generation)' = Under(p, generation)
  BY <1>1 DEF Under, Known
<1>3. Held(p)' = Held(p)
  BY <1>1 DEF Held, Units, Known
<1>4. \A generation : HeldUnder(p, generation)' = HeldUnder(p, generation)
  BY <1>2 DEF HeldUnder, Units, Under, Known
<1> QED
  BY <1>1, <1>2, <1>3, <1>4

\* The number of units is the sum of the amounts: none for no child, and each
\* child adds its own.
LEMMA AmountAddsUp ==
  ASSUME NEW p \in Parents, NEW S \in SUBSET Children, IsFiniteSet(Units(p, S)),
         NEW c \in Children \ S, children[p][c].amount \in 0..MaxBudget
  PROVE  /\ AmountOf(p, {}) = 0
         /\ AmountOf(p, S \cup {c}) = AmountOf(p, S) + children[p][c].amount
<1>1. Units(p, {}) = {}
  BY DEF Units
<1>2. Units(p, S \cup {c}) = Units(p, S) \cup Slice(c, children[p][c].amount)
  BY CompositeAssumption DEF Units, Slice
<1>3. \A u \in Units(p, S) : u[1] # c
  BY DEF Units
<1>4. Cardinality(Units(p, S) \cup Slice(c, children[p][c].amount)) =
        Cardinality(Units(p, S)) + children[p][c].amount
  BY <1>3, AddedSlice
<1> QED
  BY <1>1, <1>2, <1>4, FS_EmptySet DEF AmountOf

-----------------------------------------------------------------------------
(* Every action of the issuer keeps the invariant.                         *)

\* Registration changes no child.
LEMMA RegisterKeepsIssuerInv ==
  ASSUME IssuerInv, NEW p \in Parents, NEW lease \in ActiveParent,
         Register(p, lease)
  PROVE  IssuerInv'
<1> USE DEF Register
<1>1. lease \in ParentLease /\ Terms(lease) \in Grant
  BY CompositeAssumption DEF ActiveParent, ParentLease, Terms, Grant
<1>2. IssuerTypeOK'
  BY <1>1 DEF IssuerInv, IssuerTypeOK, keyringVars
<1>3. \A q \in Parents :
        /\ parents'[q] = IF q = p THEN lease ELSE parents[q]
        /\ granted'[q] = IF q = p THEN granted[q] \cup {Terms(lease)}
                                  ELSE granted[q]
  BY DEF IssuerInv, IssuerTypeOK
<1>4. \A q \in Parents :
        /\ Known(q)' = Known(q)
        /\ Held(q)' = Held(q)
        /\ \A generation : Under(q, generation)' = Under(q, generation)
        /\ \A generation : HeldUnder(q, generation)' = HeldUnder(q, generation)
  BY SameChildrenHoldTheSame
<1>5. (\A q \in Parents : IsFiniteSet(Held(q)))' /\ AllocationIsSum'
  BY <1>4 DEF IssuerInv, AllocationIsSum, AmountOf, Held
<1>6. TermsAreKept'
  <2> SUFFICES ASSUME NEW q \in Parents
               PROVE  /\ parents'[q].state # "NONE" =>
                           Terms(parents'[q]) \in granted'[q]
                      /\ \A c \in Known(q) : \E terms \in granted'[q] :
                           terms.generation = children[q][c].parentGeneration
                      /\ \A t, u \in granted'[q] :
                           t.generation = u.generation => t = u
    BY <1>4 DEF TermsAreKept, Terms
  <2>1. \A terms \in granted[p] :
          terms.generation = Terms(lease).generation => terms = Terms(lease)
    BY DEF Terms
  <2>2. parents'[q].state # "NONE" => Terms(parents'[q]) \in granted'[q]
    <3>1. CASE q = p
      BY <1>3, <3>1
    <3>2. CASE q # p
      BY <1>3, <3>2 DEF IssuerInv, TermsAreKept
    <3> QED
      BY <3>1, <3>2
  <2>3. \A c \in Known(q) : \E terms \in granted'[q] :
          terms.generation = children[q][c].parentGeneration
    BY <1>3 DEF IssuerInv, TermsAreKept
  <2>4. \A t, u \in granted'[q] : t.generation = u.generation => t = u
    <3>1. \A t, u \in granted[q] : t.generation = u.generation => t = u
      BY DEF IssuerInv, TermsAreKept
    <3>2. CASE q = p
      BY <1>3, <2>1, <3>1, <3>2
    <3>3. CASE q # p
      BY <1>3, <3>1, <3>3
    <3> QED
      BY <3>2, <3>3
  <2> QED
    BY <2>2, <2>3, <2>4
<1>7. GenerationWithinParent'
  <2> SUFFICES ASSUME NEW q \in Parents, NEW terms \in granted'[q]
               PROVE  /\ Cardinality(HeldUnder(q, terms.generation)) <= terms.budget
                      /\ \A c \in Under(q, terms.generation) :
                           children[q][c].scope \subseteq terms.scope
    BY <1>4 DEF GenerationWithinParent, AmountOf, HeldUnder
  <2>1. CASE terms \in granted[q]
    BY <2>1 DEF IssuerInv, GenerationWithinParent, AmountOf, HeldUnder
  <2>2. CASE terms \notin granted[q]
    <3>1. q = p /\ terms = Terms(lease)
      BY <1>3, <2>2
    <3>2. Under(q, terms.generation) = {}
      <4> SUFFICES ASSUME NEW c \in Under(q, terms.generation) PROVE FALSE
        OBVIOUS
      <4>1. PICK t \in granted[q] : t.generation = terms.generation
        BY DEF IssuerInv, TermsAreKept, Under
      <4>2. t = terms
        BY <3>1, <4>1 DEF Terms
      <4> QED
        BY <2>2, <4>1, <4>2
    <3>3. HeldUnder(q, terms.generation) = {}
      BY <3>2 DEF HeldUnder, Units
    <3>4. Cardinality(HeldUnder(q, terms.generation)) = 0 /\ terms.budget \in Nat
      BY <3>1, <3>3, <1>1, CompositeAssumption, FS_EmptySet DEF Grant
    <3> QED
      BY <3>2, <3>4
  <2> QED
    BY <2>1, <2>2
<1> QED
  BY <1>2, <1>5, <1>6, <1>7 DEF IssuerInv

\* A derived child adds its slice to what its generation and its parent hold.
LEMMA DeriveKeepsIssuerInv ==
  ASSUME IssuerInv, NEW p \in Parents, NEW c \in Children,
         NEW amount \in 0..MaxBudget, NEW scope \in SUBSET Scopes,
         Derive(p, c, amount, scope)
  PROVE  IssuerInv'
<1> DEFINE g == parents[p].generation
           child == [state |-> "ISSUED", parentGeneration |-> g,
                     amount |-> amount, scope |-> scope, signer |-> activeKey]
<1> USE DEF Derive, MayDerive, Fits
<1>0. /\ children \in [Parents -> [Children -> ChildLease]]
      /\ allocated \in [Parents -> 0..MaxBudget]
      /\ parents[p] \in ParentLease
      /\ UNCHANGED <<granted, parents, asked, keys, activeKey>>
  BY DEF IssuerInv, IssuerTypeOK, keyringVars
<1>1. child \in ChildLease
  BY <1>0 DEF IssuerInv, IssuerTypeOK, ParentLease, ChildLease
<1>2. \A q \in Parents, d \in Children :
        children'[q][d] = IF q = p /\ d = c THEN child ELSE children[q][d]
  BY <1>0
<1>3. \A q \in Parents :
        allocated'[q] = IF q = p THEN allocated[q] + amount ELSE allocated[q]
  BY <1>0
<1>4. allocated[p] + amount <= parents[p].budget /\ parents[p].budget \in 0..MaxBudget
  BY <1>0, CompositeAssumption DEF ParentLease
<1>5. IssuerTypeOK'
  <2>1. children' \in [Parents -> [Children -> ChildLease]]
    BY <1>0, <1>1
  <2>2. allocated[p] + amount \in 0..MaxBudget
    BY <1>0, <1>4, CompositeAssumption
  <2>3. allocated' \in [Parents -> 0..MaxBudget]
    BY <1>0, <2>2
  <2> QED
    BY <1>0, <2>1, <2>3 DEF IssuerInv, IssuerTypeOK
<1>6. \A q \in Parents \ {p} :
        /\ Known(q)' = Known(q)
        /\ Held(q)' = Held(q)
        /\ \A generation : Under(q, generation)' = Under(q, generation)
        /\ \A generation : HeldUnder(q, generation)' = HeldUnder(q, generation)
  BY <1>2, SameChildrenHoldTheSame
<1>7. c \notin Known(p) /\ Known(p)' = Known(p) \cup {c}
  BY <1>2 DEF Known
<1>8. \A h : Under(p, h)' = IF h = g THEN Under(p, h) \cup {c} ELSE Under(p, h)
  BY <1>2, <1>7 DEF Under, Known
<1>9. Held(p)' = Held(p) \cup Slice(c, amount)
  BY <1>2, <1>7, CompositeAssumption DEF Held, Units, Slice, Known
<1>10. \A h : HeldUnder(p, h)' = IF h = g THEN HeldUnder(p, h) \cup Slice(c, amount)
                                          ELSE HeldUnder(p, h)
  <2> SUFFICES ASSUME NEW h
               PROVE  HeldUnder(p, h)' =
                        IF h = g THEN HeldUnder(p, h) \cup Slice(c, amount)
                                 ELSE HeldUnder(p, h)
    OBVIOUS
  <2>1. /\ Under(p, h) \subseteq Children \ {c}
        /\ \A d \in Under(p, h) : children'[p][d] = children[p][d]
    BY <1>2, <1>7 DEF Under, Known
  <2>2. /\ children'[p][c].amount = amount
        /\ HeldUnder(p, h) =
             {u \in Under(p, h) \X (1..MaxBudget) : u[2] <= children[p][u[1]].amount}
        /\ HeldUnder(p, h)' =
             {u \in Under(p, h)' \X (1..MaxBudget) : u[2] <= children'[p][u[1]].amount}
    BY <1>2 DEF HeldUnder, Units
  <2>3. CASE h = g
    BY <1>8, <2>1, <2>2, <2>3, CompositeAssumption DEF Slice
  <2>4. CASE h # g
    BY <1>8, <2>1, <2>2, <2>4
  <2> QED
    BY <2>3, <2>4
<1>11. /\ IsFiniteSet(Held(p)')
       /\ Cardinality(Held(p)') = allocated'[p]
  <2>1. \A u \in Held(p) : u[1] # c
    BY <1>7 DEF Held, Units
  <2>2. IsFiniteSet(Held(p)) /\ allocated[p] = Cardinality(Held(p))
    BY DEF IssuerInv, AllocationIsSum, AmountOf, Held
  <2> QED
    BY <1>3, <1>9, <2>1, <2>2, AddedSlice
<1>12. (\A q \in Parents : IsFiniteSet(Held(q)))' /\ AllocationIsSum'
  BY <1>3, <1>6, <1>11 DEF IssuerInv, AllocationIsSum, AmountOf, Held
<1>13. Terms(parents[p]) \in granted[p]
  BY DEF IssuerInv, TermsAreKept
<1>14. TermsAreKept'
  <2> SUFFICES ASSUME NEW q \in Parents, NEW d \in Known(q)'
               PROVE  \E terms \in granted[q] :
                        terms.generation = children'[q][d].parentGeneration
    <3>1. \A q \in Parents :
            /\ parents[q].state # "NONE" => Terms(parents[q]) \in granted[q]
            /\ \A t, u \in granted[q] : t.generation = u.generation => t = u
      BY DEF IssuerInv, TermsAreKept
    <3>2. \A q \in Parents : Terms(parents[q])' = Terms(parents[q])
      BY <1>0 DEF Terms
    <3> QED
      BY <1>0, <3>1, <3>2 DEF TermsAreKept
  <2>1. CASE q = p /\ d = c
    BY <1>2, <1>13, <2>1 DEF Terms
  <2>2. CASE ~(q = p /\ d = c)
    BY <1>2, <1>6, <1>7, <2>2 DEF IssuerInv, TermsAreKept, Known
  <2> QED
    BY <2>1, <2>2
<1>15. GenerationWithinParent'
  <2> SUFFICES ASSUME NEW q \in Parents, NEW terms \in granted[q]
               PROVE  /\ Cardinality(HeldUnder(q, terms.generation)') <= terms.budget
                      /\ \A d \in Under(q, terms.generation)' :
                           children'[q][d].scope \subseteq terms.scope
    BY <1>0 DEF GenerationWithinParent, AmountOf, HeldUnder
  <2>1. /\ Cardinality(HeldUnder(q, terms.generation)) <= terms.budget
        /\ \A d \in Under(q, terms.generation) :
             children[q][d].scope \subseteq terms.scope
    BY DEF IssuerInv, GenerationWithinParent, AmountOf, HeldUnder
  <2>2. CASE ~(q = p /\ terms.generation = g)
    <3>1. /\ HeldUnder(q, terms.generation)' = HeldUnder(q, terms.generation)
          /\ Under(q, terms.generation)' = Under(q, terms.generation)
      BY <1>6, <1>8, <1>10, <2>2
    <3>2. \A d \in Under(q, terms.generation) : children'[q][d] = children[q][d]
      BY <1>2, <1>7 DEF Under, Known
    <3> QED
      BY <2>1, <3>1, <3>2
  <2>3. CASE q = p /\ terms.generation = g
    <3>1. terms = Terms(parents[p])
      BY <1>13, <2>3 DEF IssuerInv, TermsAreKept, Terms
    <3>2. /\ terms.budget = parents[p].budget
          /\ terms.scope = parents[p].scope
      BY <3>1 DEF Terms
    <3>3. HeldUnder(p, g)' \subseteq Held(p)'
      BY <1>9, <1>10, HeldUnderIsFinite DEF IssuerInv
    <3>4. Cardinality(HeldUnder(p, g)') <= Cardinality(Held(p)')
      BY <1>11, <3>3, FS_Subset
    <3>5. Cardinality(HeldUnder(p, g)') \in Nat
      BY <1>11, <3>3, FS_Subset, FS_CardinalityType
    <3>6. Cardinality(HeldUnder(p, g)') <= terms.budget
      BY <1>0, <1>3, <1>4, <1>11, <3>2, <3>4, <3>5, CompositeAssumption
    <3>7. \A d \in Under(p, g)' : children'[p][d].scope \subseteq terms.scope
      BY <1>2, <1>8, <2>1, <2>3, <3>2 DEF Under, Known
    <3> QED
      BY <2>3, <3>6, <3>7
  <2> QED
    BY <2>2, <2>3
<1> QED
  BY <1>5, <1>12, <1>14, <1>15 DEF IssuerInv

\* A released child takes its slice with it, and the count comes down by as
\* much: the cut at zero never bites.
LEMMA ReleaseKeepsIssuerInv ==
  ASSUME IssuerInv, NEW p \in Parents, NEW c \in Children, Release(p, c)
  PROVE  IssuerInv'
<1> DEFINE amount == children[p][c].amount
           left == [q \in Parents |-> IF q = p THEN MaxZero(allocated[q], amount)
                                               ELSE allocated[q]]
<1> USE DEF Release, ReleasedChild
<1>0. /\ children \in [Parents -> [Children -> ChildLease]]
      /\ allocated \in [Parents -> 0..MaxBudget]
      /\ UNCHANGED <<granted, parents, asked, keys, activeKey>>
      /\ amount \in 0..MaxBudget
  BY DEF IssuerInv, IssuerTypeOK, keyringVars, ChildLease
<1>1. NoChild \in ChildLease
  BY KeyringAssumption, CompositeAssumption DEF NoChild, ChildLease
<1>2. \A q \in Parents, d \in Children :
        children'[q][d] = IF q = p /\ d = c THEN NoChild ELSE children[q][d]
  BY <1>0
<1>3. allocated' = left
  BY <1>0
<1>4. \A q \in Parents \ {p} :
        /\ Known(q)' = Known(q)
        /\ Held(q)' = Held(q)
        /\ \A generation : Under(q, generation)' = Under(q, generation)
        /\ \A generation : HeldUnder(q, generation)' = HeldUnder(q, generation)
  BY <1>2, SameChildrenHoldTheSame
<1>5. c \in Known(p) /\ Known(p)' = Known(p) \ {c}
  BY <1>2 DEF Known, NoChild
<1>6. \A h : Under(p, h)' = Under(p, h) \ {c}
  BY <1>2, <1>5 DEF Under, Known
<1>7. /\ Held(p) = Held(p)' \cup Slice(c, amount)
      /\ \A u \in Held(p)' : u[1] # c
  <2>1. /\ Held(p) = {u \in Known(p) \X (1..MaxBudget) :
                         u[2] <= children[p][u[1]].amount}
        /\ Held(p)' = {u \in (Known(p) \ {c}) \X (1..MaxBudget) :
                          u[2] <= children'[p][u[1]].amount}
    BY <1>5 DEF Held, Units
  <2>2. \A d \in Known(p) \ {c} : children'[p][d] = children[p][d]
    BY <1>2 DEF Known
  <2>3. 1..amount \subseteq 1..MaxBudget
    BY <1>0, CompositeAssumption
  <2>4. Slice(c, amount) = {u \in {c} \X (1..MaxBudget) : u[2] <= amount}
    BY <1>0, <2>3 DEF Slice
  <2> QED
    BY <1>5, <2>1, <2>2, <2>4
<1>8. \A h : HeldUnder(p, h)' \subseteq HeldUnder(p, h)
  BY <1>2, <1>6 DEF HeldUnder, Units, Under, Known
<1>9. /\ IsFiniteSet(Held(p)')
      /\ Cardinality(Held(p)') \in Nat
      /\ allocated[p] = Cardinality(Held(p)') + amount
  <2>1. IsFiniteSet(Held(p)) /\ allocated[p] = Cardinality(Held(p))
    BY DEF IssuerInv, AllocationIsSum, AmountOf, Held
  <2>2. IsFiniteSet(Held(p)')
    BY <1>7, <2>1, FS_Subset
  <2> HIDE DEF amount
  <2>3. \A u \in Held(p)' : u[1] # c
    BY <1>7
  <2>4. amount \in 0..MaxBudget
    BY <1>0
  <2>5. /\ Cardinality(Held(p)') \in Nat
        /\ Cardinality(Held(p)' \cup Slice(c, amount))
             = Cardinality(Held(p)') + amount
    BY <2>2, <2>3, <2>4, AddedSlice
  <2> QED
    BY <1>7, <2>1, <2>2, <2>5
<1>10. allocated'[p] = Cardinality(Held(p)')
  <2>1. allocated'[p] = MaxZero(allocated[p], amount)
    BY <1>3
  <2>2. amount \in Nat
    BY <1>0, CompositeAssumption
  <2> HIDE DEF amount
  <2> QED
    BY <1>9, <2>1, <2>2 DEF MaxZero
<1>11. IssuerTypeOK'
  <2>1. children' \in [Parents -> [Children -> ChildLease]]
    BY <1>0, <1>1
  <2>2. MaxZero(allocated[p], amount) \in 0..MaxBudget
    BY <1>0, CompositeAssumption DEF MaxZero
  <2>3. allocated' \in [Parents -> 0..MaxBudget]
    BY <1>0, <1>3, <2>2
  <2> QED
    BY <1>0, <2>1, <2>3 DEF IssuerInv, IssuerTypeOK
<1>12. (\A q \in Parents : IsFiniteSet(Held(q)))' /\ AllocationIsSum'
  <2>1. \A q \in Parents \ {p} : allocated'[q] = allocated[q]
    BY <1>3
  <2> QED
    BY <1>4, <1>9, <1>10, <2>1 DEF IssuerInv, AllocationIsSum, AmountOf, Held
<1>13. \A q \in Parents : \A d \in Known(q)' :
         d \in Known(q) /\ children'[q][d] = children[q][d]
  BY <1>2, <1>4, <1>5 DEF Known
<1>14. TermsAreKept'
  <2>1. \A q \in Parents :
          /\ parents[q].state # "NONE" => Terms(parents[q]) \in granted[q]
          /\ \A t, u \in granted[q] : t.generation = u.generation => t = u
    BY DEF IssuerInv, TermsAreKept
  <2>2. \A q \in Parents : Terms(parents[q])' = Terms(parents[q])
    BY <1>0 DEF Terms
  <2>3. \A q \in Parents : \A d \in Known(q)' : \E terms \in granted[q] :
          terms.generation = children'[q][d].parentGeneration
    BY <1>13 DEF IssuerInv, TermsAreKept
  <2> QED
    BY <1>0, <2>1, <2>2, <2>3 DEF TermsAreKept
<1>15. GenerationWithinParent'
  <2> SUFFICES ASSUME NEW q \in Parents, NEW terms \in granted[q]
               PROVE  /\ Cardinality(HeldUnder(q, terms.generation)') <= terms.budget
                      /\ \A d \in Under(q, terms.generation)' :
                           children'[q][d].scope \subseteq terms.scope
    BY <1>0 DEF GenerationWithinParent, AmountOf, HeldUnder
  <2>1. /\ Cardinality(HeldUnder(q, terms.generation)) <= terms.budget
        /\ \A d \in Under(q, terms.generation) :
             children[q][d].scope \subseteq terms.scope
    BY DEF IssuerInv, GenerationWithinParent, AmountOf, HeldUnder
  <2>2. \A d \in Under(q, terms.generation)' :
          d \in Under(q, terms.generation) /\ children'[q][d] = children[q][d]
    BY <1>4, <1>6, <1>13 DEF Under
  <2>3. Cardinality(HeldUnder(q, terms.generation)') <= terms.budget
    <3>1. CASE q = p
      <4>1. terms.budget \in Nat
        BY CompositeAssumption DEF IssuerInv, IssuerTypeOK, Grant
      <4>2. /\ IsFiniteSet(HeldUnder(p, terms.generation))
            /\ Cardinality(HeldUnder(p, terms.generation)) \in Nat
        BY HeldUnderIsFinite DEF IssuerInv
      <4>3. HeldUnder(p, terms.generation)' \subseteq HeldUnder(p, terms.generation)
        BY <1>8
      <4>4. /\ Cardinality(HeldUnder(p, terms.generation)')
                 <= Cardinality(HeldUnder(p, terms.generation))
            /\ IsFiniteSet(HeldUnder(p, terms.generation)')
        BY <4>2, <4>3, FS_Subset
      <4>5. Cardinality(HeldUnder(p, terms.generation)') \in Nat
        BY <4>4, FS_CardinalityType
      <4> QED
        BY <2>1, <3>1, <4>1, <4>2, <4>4, <4>5
    <3>2. CASE q # p
      BY <1>4, <2>1, <3>2
    <3> QED
      BY <3>1, <3>2
  <2> QED
    BY <2>1, <2>2, <2>3
<1> QED
  BY <1>11, <1>12, <1>14, <1>15 DEF IssuerInv

\* Revoking a parent keeps the amounts of its children, whether it succeeds or
\* stops at a child that does not verify.
LEMMA RevokeKeepsIssuerInv ==
  ASSUME IssuerInv, NEW p \in Parents, RevokeParent(p)
  PROVE  IssuerInv'
<1> USE DEF RevokeParent
<1>0. /\ parents \in [Parents -> ParentLease]
      /\ children \in [Parents -> [Children -> ChildLease]]
      /\ asked \in [Parents -> BOOLEAN]
      /\ activeKey \in KeyIds
      /\ UNCHANGED <<granted, allocated, keys, activeKey>>
  BY DEF IssuerInv, IssuerTypeOK, keyringVars
<1>1. /\ Signed([parents[p] EXCEPT !.state = "REVOKING"]) \in ParentLease
      /\ \A c \in Children : RevokedChild(children[p][c]) \in ChildLease
  <2>1. \A lease \in ParentLease :
          Signed([lease EXCEPT !.state = "REVOKING"]) \in ParentLease
    BY <1>0 DEF Signed, ParentLease
  <2>2. \A lease \in ChildLease : RevokedChild(lease) \in ChildLease
    BY <1>0 DEF Signed, RevokedChild, ChildLease
  <2> QED
    BY <1>0, <2>1, <2>2
<1>2. /\ parents' \in [Parents -> ParentLease]
      /\ children' \in [Parents -> [Children -> ChildLease]]
      /\ asked' \in [Parents -> BOOLEAN]
  <2>1. asked' \in [Parents -> BOOLEAN]
    BY <1>0
  <2>2. CASE UNCHANGED <<parents, children>>
    BY <1>0, <2>1, <2>2
  <2>3. CASE ~UNCHANGED <<parents, children>>
    <3> DEFINE cascaded == [c \in Children |-> IF c \in Known(p)
                                                 THEN RevokedChild(children[p][c])
                                                 ELSE children[p][c]]
    <3>1. parents' = [parents EXCEPT ![p] =
                        Signed([parents[p] EXCEPT !.state = "REVOKING"])]
      BY <2>3
    <3>2. children' = [children EXCEPT ![p] = cascaded]
      BY <2>3
    <3>3. cascaded \in [Children -> ChildLease]
      BY <1>0, <1>1
    <3> HIDE DEF cascaded
    <3> QED
      BY <1>0, <1>1, <2>1, <3>1, <3>2, <3>3
  <2> QED
    BY <2>2, <2>3
<1>3. IssuerTypeOK'
  BY <1>0, <1>2 DEF IssuerInv, IssuerTypeOK
<1>4. \A q \in Parents :
        /\ Terms(parents'[q]) = Terms(parents[q])
        /\ parents'[q].state = "NONE" => parents[q].state = "NONE"
        /\ parents[q].state = "NONE" => parents'[q].state = "NONE"
  <2>1. \A q \in Parents :
          \/ parents'[q] = parents[q]
          \/ /\ parents[q].state # "NONE"
             /\ parents'[q] = Signed([parents[q] EXCEPT !.state = "REVOKING"])
    BY <1>0
  <2>2. \A lease \in ParentLease :
          /\ Signed([lease EXCEPT !.state = "REVOKING"]).state = "REVOKING"
          /\ Terms(Signed([lease EXCEPT !.state = "REVOKING"])) = Terms(lease)
    BY DEF Signed, Terms, ParentLease
  <2> QED
    BY <1>0, <2>1, <2>2
<1>5. \A q \in Parents, c \in Children :
        /\ children'[q][c].state = "NONE" <=> children[q][c].state = "NONE"
        /\ children'[q][c].amount = children[q][c].amount
        /\ children'[q][c].parentGeneration = children[q][c].parentGeneration
        /\ children'[q][c].scope = children[q][c].scope
  <2>1. CASE UNCHANGED children
    BY <2>1
  <2>2. CASE children' = [children EXCEPT ![p] =
               [c \in Children |-> IF c \in Known(p) THEN RevokedChild(@[c])
                                                     ELSE @[c]]]
    <3>1. \A q \in Parents, c \in Children :
            \/ children'[q][c] = children[q][c]
            \/ /\ children[q][c].state # "NONE"
               /\ children'[q][c] = RevokedChild(children[q][c])
      BY <1>0, <2>2 DEF Known
    <3>2. \A lease \in ChildLease :
            /\ RevokedChild(lease).state = "REVOKING"
            /\ RevokedChild(lease).amount = lease.amount
            /\ RevokedChild(lease).parentGeneration = lease.parentGeneration
            /\ RevokedChild(lease).scope = lease.scope
      BY DEF RevokedChild, Signed, ChildLease
    <3> QED
      BY <1>0, <3>1, <3>2
  <2> QED
    BY <2>1, <2>2
<1>6. \A q \in Parents :
        /\ Known(q)' = Known(q)
        /\ Held(q)' = Held(q)
        /\ \A generation : Under(q, generation)' = Under(q, generation)
        /\ \A generation : HeldUnder(q, generation)' = HeldUnder(q, generation)
  BY <1>5, SameChildrenHoldTheSame
<1>7. (\A q \in Parents : IsFiniteSet(Held(q)))' /\ AllocationIsSum'
  BY <1>0, <1>6 DEF IssuerInv, AllocationIsSum, AmountOf, Held
<1>8. TermsAreKept'
  <2>1. \A q \in Parents :
          /\ parents'[q].state # "NONE" => Terms(parents'[q]) \in granted[q]
          /\ \A t, u \in granted[q] : t.generation = u.generation => t = u
    BY <1>4 DEF IssuerInv, TermsAreKept
  <2>2. \A q \in Parents : \A d \in Known(q) : \E terms \in granted[q] :
          terms.generation = children'[q][d].parentGeneration
    BY <1>5 DEF IssuerInv, TermsAreKept, Known
  <2>3. \A q \in Parents : Terms(parents[q])' = Terms(parents'[q])
    BY DEF Terms
  <2> QED
    BY <1>0, <1>6, <2>1, <2>2, <2>3 DEF TermsAreKept
<1>9. GenerationWithinParent'
  <2> SUFFICES ASSUME NEW q \in Parents, NEW terms \in granted[q]
               PROVE  /\ Cardinality(HeldUnder(q, terms.generation)) <= terms.budget
                      /\ \A d \in Under(q, terms.generation) :
                           children'[q][d].scope \subseteq terms.scope
    BY <1>0, <1>6 DEF GenerationWithinParent, AmountOf, HeldUnder
  <2> QED
    BY <1>5 DEF IssuerInv, GenerationWithinParent, AmountOf, HeldUnder, Under, Known
<1> QED
  BY <1>3, <1>7, <1>8, <1>9 DEF IssuerInv

LEMMA IssuerStutterKeepsIssuerInv ==
  ASSUME IssuerInv, UNCHANGED issuerTables, activeKey' \in keys', keys' \subseteq KeyIds
  PROVE  IssuerInv'
<1> USE DEF issuerTables
<1>1. IssuerTypeOK'
  BY DEF IssuerInv, IssuerTypeOK
<1>2. \A q \in Parents :
        /\ Known(q)' = Known(q)
        /\ Held(q)' = Held(q)
        /\ \A generation : Under(q, generation)' = Under(q, generation)
        /\ \A generation : HeldUnder(q, generation)' = HeldUnder(q, generation)
  BY SameChildrenHoldTheSame
<1>3. (\A q \in Parents : IsFiniteSet(Held(q)))' /\ AllocationIsSum'
  BY <1>2 DEF IssuerInv, AllocationIsSum, AmountOf, Held
<1>4. TermsAreKept'
  BY <1>2 DEF IssuerInv, TermsAreKept, Terms
<1>5. GenerationWithinParent'
  BY <1>2 DEF IssuerInv, GenerationWithinParent, AmountOf, HeldUnder
<1> QED
  BY <1>1, <1>3, <1>4, <1>5 DEF IssuerInv

LEMMA NextIssuerInv == IssuerInv /\ [IssuerNext]_issuerVars => IssuerInv'
<1> SUFFICES ASSUME IssuerInv, [IssuerNext]_issuerVars PROVE IssuerInv'
  OBVIOUS
<1>1. ASSUME NEW p \in Parents, NEW lease \in ActiveParent, Register(p, lease)
      PROVE  IssuerInv'
  BY <1>1, RegisterKeepsIssuerInv
<1>2. ASSUME NEW p \in Parents, NEW c \in Children, NEW amount \in 0..MaxBudget,
             NEW scope \in SUBSET Scopes, Derive(p, c, amount, scope)
      PROVE  IssuerInv'
  BY <1>2, DeriveKeepsIssuerInv
<1>3. ASSUME NEW p \in Parents, NEW c \in Children, Release(p, c)
      PROVE  IssuerInv'
  BY <1>3, ReleaseKeepsIssuerInv
<1>4. ASSUME NEW p \in Parents, RevokeParent(p)
      PROVE  IssuerInv'
  BY <1>4, RevokeKeepsIssuerInv
<1>5. CASE KeyringStep
  BY <1>5, IssuerStutterKeepsIssuerInv
  DEF KeyringStep, RotateKey, RetireKey, IssuerInv, IssuerTypeOK
<1>6. CASE UNCHANGED issuerVars
  BY <1>6, IssuerStutterKeepsIssuerInv
  DEF issuerVars, keyringVars, IssuerInv, IssuerTypeOK
<1> QED
  BY <1>1, <1>2, <1>3, <1>4, <1>5, <1>6 DEF IssuerNext

\* The issuer's invariant holds in every reachable state, for any set of
\* parents and children and any budget.
THEOREM IssuerInvariance == IssuerSpec => []IssuerInv
<1>1. IssuerInit => IssuerInv
  BY InitIssuerInv
<1>2. IssuerInv /\ [IssuerNext]_issuerVars => IssuerInv'
  BY NextIssuerInv
<1> QED
  BY <1>1, <1>2, PTL DEF IssuerSpec

\* The issuer's tables keep their types, and no count leaves 0..MaxBudget.
THEOREM IssuerTypeCorrectness == IssuerSpec => []IssuerTypeOK
<1>1. IssuerInv => IssuerTypeOK
  BY DEF IssuerInv
<1> QED
  BY <1>1, IssuerInvariance, PTL

\* What the issuer counts as given out is what the children in its table hold.
THEOREM CountsAreSums == IssuerSpec => []AllocationIsSum
<1>1. IssuerInv => AllocationIsSum
  BY DEF IssuerInv
<1> QED
  BY <1>1, IssuerInvariance, PTL

\* The children derived under a generation fit in what it was granted.
THEOREM GenerationsFit == IssuerSpec => []GenerationWithinParent
<1>1. IssuerInv => GenerationWithinParent
  BY DEF IssuerInv
<1> QED
  BY <1>1, IssuerInvariance, PTL
=============================================================================
