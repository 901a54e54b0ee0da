--------------------------- MODULE ReadPoolProofs ---------------------------
(***************************************************************************)
(* Proofs about ReadPool, for every number of threads and every request.   *)
(***************************************************************************)
EXTENDS ReadPoolInv, RowAddress, FiniteSetTheorems, TLAPS

-----------------------------------------------------------------------------
(* Slices.                                                                 *)

\* The slices of run() (lines 291-292) reach the last row: as many slices of
\* `step` rows as there are parts cover all n rows.
LEMMA CeilCovers ==
    ASSUME NEW n \in Nat, NEW p \in Nat \ {0}
    PROVE  /\ (n + p - 1) \div p \in Nat
           /\ p * ((n + p - 1) \div p) >= n
<1> DEFINE m == n + p - 1
           q == m \div p
<1>1. m \in Nat /\ q \in Int  BY SMT
<1>2. m = p * q + (m % p) /\ m % p \in 0 .. p - 1  BY <1>1, SMT
<1>3. p * q > m - p  BY <1>1, <1>2, SMT
<1>4. q >= 0  BY <1>1, <1>2, SMT
<1>5. QED  BY <1>1, <1>3, <1>4, SMT

\* A gather of n > 0 rows has between 1 and n parts, and they cover it.
LEMMA SlicesCover ==
    ASSUME NEW n \in Nat \ {0}
    PROVE  /\ Parts(n) \in Nat \ {0}
           /\ Helpers(n) \in Nat
           /\ StepOf(n) \in Nat
           /\ (Helpers(n) + 1) * StepOf(n) >= n
<1>1. Cardinality(Workers) \in Nat
  BY ThreadsAssumption, FS_CardinalityType
<1>2. Parts(n) \in Nat \ {0}
  BY <1>1 DEF Parts, MinOf
<1>3. Helpers(n) \in Nat /\ Helpers(n) + 1 = Parts(n)
  BY <1>2 DEF Helpers
<1>4. StepOf(n) \in Nat /\ Parts(n) * StepOf(n) >= n
  BY <1>2, CeilCovers DEF StepOf
<1>5. QED  BY <1>2, <1>3, <1>4

-----------------------------------------------------------------------------
(* Types.                                                                  *)

LEMMA CallerGoes ==
    ASSUME PcOK, NEW c \in Callers, NEW s \in CallerPCs, GoTo(c, s)
    PROVE  PcOK'
BY ThreadsAssumption DEF PcOK, GoTo, Threads

LEMMA WorkerGoes ==
    ASSUME PcOK, NEW w \in Workers, NEW s \in WorkerPCs, GoTo(w, s)
    PROVE  PcOK'
BY ThreadsAssumption DEF PcOK, GoTo, Threads

\* A thread leaves a slice, a block or a row for a place of its own role.
LEMMA ThreadGoes ==
    ASSUME PcOK, NEW t \in Threads,
           NEW s \in {"rows", "copy"}, GoTo(t, s)
    PROVE  PcOK'
BY ThreadsAssumption DEF PcOK, GoTo, Threads, CallerPCs, WorkerPCs

LEMMA CallTyped == TypeOK /\ [Next]_vars => CallOK'
<1> SUFFICES ASSUME TypeOK, [Next]_vars PROVE CallOK'
  OBVIOUS
<1> USE DEF TypeOK, CallOK, callVars
<1>1. ASSUME NEW c \in Callers, Call(c) PROVE CallOK'
  <2>1. PICK r \in Requests :
          req' = [req EXCEPT ![c] = [id |-> calls + 1, n |-> r.n, owned |-> r.owned]]
    BY <1>1 DEF Call
  <2>2. [id |-> calls + 1, n |-> r.n, owned |-> r.owned] \in Jobs
    BY RequestsAssumption DEF Jobs
  <2>3. QED  BY <1>1, <2>1, <2>2 DEF Call
<1>2. CASE UNCHANGED <<calls, req>> /\ DOMAIN out' = DOMAIN out
  BY <1>2
<1>3. QED
  BY <1>1, <1>2 DEF Next, vars, CallerStep, WorkerStep, SliceStep, CloseStep,
     AcquireBusy, Publish, ClearDone, ReleaseOne, Return, Raise, CallerReadFails, Finish,
     WorkerWakes, WorkerStops, WorkerClaims, Tally, WorkerReadFails, BeginSlice,
     SkipRow, EndSlice, ReadBlock, CopyRow, ReadInPlace, CloseStop, CloseRelease, CloseFd, Served
LEMMA SyncTyped == TypeOK /\ RequestsKept /\ [Next]_vars => SyncOK'
<1> SUFFICES ASSUME TypeOK, RequestsKept, [Next]_vars PROVE SyncOK'
  OBVIOUS
<1> USE DEF TypeOK, SyncOK, syncVars
<1>1. ASSUME NEW c \in Callers, ClearDone(c) PROVE SyncOK'
  BY <1>1 DEF ClearDone
<1>2. ASSUME NEW c \in Callers, ReleaseOne(c) PROVE SyncOK'
  BY <1>2 DEF ReleaseOne
<1>3. ASSUME NEW w \in Workers, WorkerWakes(w) PROVE SyncOK'
  BY <1>3 DEF WorkerWakes
<1>4. ASSUME NEW w \in Workers, WorkerReadFails(w) PROVE SyncOK'
  BY <1>4 DEF WorkerReadFails
<1>5. ASSUME NEW w \in Workers, Tally(w) PROVE SyncOK'
  BY <1>5 DEF Tally
<1>6. CASE CloseRelease
  BY <1>6, ThreadsAssumption, FS_CardinalityType DEF CloseRelease
<1>7. ASSUME NEW c \in Callers, Publish(c) PROVE SyncOK'
  <2>1. Helpers(req[c].n) \in Nat
      BY <1>7, SlicesCover DEF RequestsKept, Publish
  <2>2. left' \in Int  BY <1>7, <2>1 DEF Publish
    <2>3. error' = FALSE /\ done' = done /\ go' = go
      BY <1>7 DEF Publish, ErrorAtStart
    <2>4. QED  BY <2>2, <2>3
<1>8. CASE UNCHANGED syncVars
  BY <1>8, SMTT(40)
<1>9. QED
  BY <1>1, <1>2, <1>3, <1>4, <1>5, <1>6, <1>7, <1>8, ZenonT(40)
  DEF Next, vars, Threads, CallerStep, WorkerStep, SliceStep, CloseStep, Call,
     AcquireBusy, Publish, ClearDone, ReleaseOne, Return, Raise, CallerReadFails,
     Finish, WorkerWakes, WorkerStops, WorkerClaims, Tally, WorkerReadFails,
     BeginSlice, SkipRow, EndSlice, ReadBlock, CopyRow, ReadInPlace,
     CloseStop, CloseRelease, CloseFd, Served

LEMMA RunTyped == TypeOK /\ RequestsKept /\ WakesKept /\ [Next]_vars => RunOK'
<1> SUFFICES ASSUME TypeOK, RequestsKept, WakesKept, [Next]_vars PROVE RunOK'
  OBVIOUS
<1> USE DEF TypeOK, RunOK, runVars
<1>1. ASSUME NEW c \in Callers, AcquireBusy(c) PROVE RunOK'
  BY <1>1 DEF AcquireBusy
<1>2. ASSUME NEW c \in Callers, Publish(c) PROVE RunOK'
  <2>1. req[c] \in Jobs /\ StepOf(req[c].n) \in Nat
    BY <1>2, SlicesCover DEF RequestsKept, Publish, CallOK
  <2>2. dst' \in [0 .. job'.n - 1 -> Cells]
    BY <1>2, <2>1 DEF Publish, Fresh, Cells, Zero
  <2>3. QED  BY <1>2, <2>1, <2>2 DEF Publish, FirstClaim
<1>3. ASSUME NEW c \in Callers, ClearDone(c) PROVE RunOK'
  <2>1. Helpers(req[c].n) \in Nat
      BY <1>3, SlicesCover DEF RequestsKept, ClearDone
  <2>2. QED  BY <1>3, <2>1 DEF ClearDone
<1>4. ASSUME NEW c \in Callers, ReleaseOne(c) PROVE RunOK'
  BY <1>4 DEF ReleaseOne, WakesKept
<1>5. ASSUME NEW w \in Workers, WorkerClaims(w) PROVE RunOK'
  BY <1>5 DEF WorkerClaims
<1>6. ASSUME NEW t \in Threads, CopyRow(t) PROVE RunOK'
  BY <1>6 DEF CopyRow, Store, ScratchOf, SliceOK
<1>7. ASSUME NEW t \in Threads, ReadInPlace(t) PROVE RunOK'
  BY <1>7 DEF ReadInPlace, Store, SliceOK, Row, Cells, Jobs
<1>8. ASSUME NEW c \in Callers, Return(c) PROVE RunOK'
  BY <1>8 DEF Return, Finish
<1>9. ASSUME NEW c \in Callers, Raise(c) PROVE RunOK'
  BY <1>9 DEF Raise, Finish
<1>10. ASSUME NEW c \in Callers, CallerReadFails(c) PROVE RunOK'
  BY <1>10 DEF CallerReadFails, Finish
<1>11. CASE UNCHANGED runVars
  BY <1>11, SMTT(40)
<1>12. QED
  BY <1>1, <1>2, <1>3, <1>4, <1>5, <1>6, <1>7, <1>8, <1>9, <1>10, <1>11, ZenonT(40)
  DEF Next, vars, Threads, CallerStep, WorkerStep, SliceStep, CloseStep, Call,
     AcquireBusy, Publish, ClearDone, ReleaseOne, Return, Raise, CallerReadFails,
     Finish, WorkerWakes, WorkerStops, WorkerClaims, Tally, WorkerReadFails,
     BeginSlice, SkipRow, EndSlice, ReadBlock, CopyRow, ReadInPlace,
     CloseStop, CloseRelease, CloseFd, Served

LEMMA SliceTyped == TypeOK /\ [Next]_vars => SliceOK'
<1> SUFFICES ASSUME TypeOK, [Next]_vars PROVE SliceOK'
  OBVIOUS
<1> USE DEF TypeOK, SliceOK, sliceVars
<1>1. ASSUME NEW w \in Workers, WorkerClaims(w) PROVE SliceOK'
  BY <1>1, ThreadsAssumption DEF WorkerClaims, ClaimedPart, Threads, RunOK
<1>2. ASSUME NEW t \in Threads, BeginSlice(t) PROVE SliceOK'
  BY <1>2, SMTT(40) DEF BeginSlice, RunOK, MinOf, Jobs
<1>3. ASSUME NEW t \in Threads, SkipRow(t) PROVE SliceOK'
  BY <1>3 DEF SkipRow, NextRow
<1>4. ASSUME NEW t \in Threads, EndSlice(t) PROVE SliceOK'
  BY <1>4 DEF EndSlice, NoLocals, NoJob, Jobs
<1>5. ASSUME NEW t \in Threads, ReadBlock(t) PROVE SliceOK'
  BY <1>5 DEF ReadBlock, AtRow, Row, Cells, Jobs
<1>6. ASSUME NEW t \in Threads, CopyRow(t) PROVE SliceOK'
  BY <1>6 DEF CopyRow, NextRow
<1>7. ASSUME NEW t \in Threads, ReadInPlace(t) PROVE SliceOK'
  BY <1>7 DEF ReadInPlace, NextRow
<1>8. ASSUME NEW w \in Workers, WorkerReadFails(w) PROVE SliceOK'
  BY <1>8 DEF WorkerReadFails, ReadFails, NoLocals, NoJob, Jobs
<1>9. ASSUME NEW c \in Callers, CallerReadFails(c) PROVE SliceOK'
  BY <1>9 DEF CallerReadFails, ReadFails, NoLocals, NoJob, Jobs
<1>10. CASE UNCHANGED sliceVars
  BY <1>10
<1>11. QED
  BY <1>1, <1>2, <1>3, <1>4, <1>5, <1>6, <1>7, <1>8, <1>9, <1>10, ZenonT(40)
  DEF Next, vars, Threads, CallerStep, WorkerStep, SliceStep, CloseStep, Call,
     AcquireBusy, Publish, ClearDone, ReleaseOne, Return, Raise, CallerReadFails,
     Finish, WorkerWakes, WorkerStops, WorkerClaims, Tally, WorkerReadFails,
     BeginSlice, SkipRow, EndSlice, ReadBlock, CopyRow, ReadInPlace,
     CloseStop, CloseRelease, CloseFd, Served

LEMMA RestTyped == TypeOK /\ [Next]_vars => RestOK'
<1> SUFFICES ASSUME TypeOK, [Next]_vars PROVE RestOK'
  OBVIOUS
<1> USE DEF TypeOK, RestOK
<1>1. CASE CloseStop
  BY <1>1 DEF CloseStop
<1>2. CASE CloseRelease
  BY <1>2 DEF CloseRelease
<1>3. CASE CloseFd
  BY <1>3 DEF CloseFd
<1>4. ASSUME NEW w \in Workers, WorkerReadFails(w) PROVE RestOK'
  BY <1>4 DEF WorkerReadFails, ReadFails, AtRow, SliceOK, Jobs, Threads
<1>5. ASSUME NEW c \in Callers, CallerReadFails(c) PROVE RestOK'
  BY <1>5 DEF CallerReadFails, ReadFails, AtRow, SliceOK, Jobs, Threads
<1>6. CASE UNCHANGED <<closer, faults>>
  BY <1>6
<1>7. QED
  BY <1>1, <1>2, <1>3, <1>4, <1>5, <1>6, ZenonT(40)
  DEF Next, vars, Threads, CallerStep, WorkerStep, SliceStep, CloseStep, Call,
     AcquireBusy, Publish, ClearDone, ReleaseOne, Return, Raise, CallerReadFails,
     Finish, WorkerWakes, WorkerStops, WorkerClaims, Tally, WorkerReadFails,
     BeginSlice, SkipRow, EndSlice, ReadBlock, CopyRow, ReadInPlace,
     CloseStop, CloseRelease, CloseFd, Served

LEMMA PcTyped == TypeOK /\ [Next]_vars => PcOK'
<1> SUFFICES ASSUME TypeOK, [Next]_vars PROVE PcOK'
  OBVIOUS
<1> USE DEF TypeOK
<1>1. ASSUME NEW c \in Callers, Call(c) PROVE PcOK'
  BY <1>1, CallerGoes DEF Call, CallerPCs
<1>2. ASSUME NEW c \in Callers, AcquireBusy(c) PROVE PcOK'
  BY <1>2, CallerGoes DEF AcquireBusy, CallerPCs
<1>3. ASSUME NEW c \in Callers, Publish(c) PROVE PcOK'
  BY <1>3, CallerGoes DEF Publish, CallerPCs
<1>4. ASSUME NEW c \in Callers, ClearDone(c) PROVE PcOK'
  BY <1>4, CallerGoes DEF ClearDone, CallerPCs
<1>5. ASSUME NEW c \in Callers, ReleaseOne(c) PROVE PcOK'
  BY <1>5, CallerGoes DEF ReleaseOne, CallerPCs
<1>6. ASSUME NEW c \in Callers, Return(c) \/ Raise(c) \/ CallerReadFails(c) PROVE PcOK'
  BY <1>6, CallerGoes DEF Return, Raise, CallerReadFails, Finish, CallerPCs
<1>7. ASSUME NEW w \in Workers, WorkerWakes(w) PROVE PcOK'
  BY <1>7, WorkerGoes DEF WorkerWakes, WorkerPCs
<1>8. ASSUME NEW w \in Workers, WorkerStops(w) PROVE PcOK'
  BY <1>8, WorkerGoes DEF WorkerStops, WorkerPCs
<1>9. ASSUME NEW w \in Workers, WorkerClaims(w) PROVE PcOK'
  BY <1>9, WorkerGoes DEF WorkerClaims, WorkerPCs
<1>10. ASSUME NEW w \in Workers, Tally(w) PROVE PcOK'
  BY <1>10, WorkerGoes DEF Tally, WorkerPCs
<1>11. ASSUME NEW w \in Workers, WorkerReadFails(w) PROVE PcOK'
  BY <1>11, WorkerGoes DEF WorkerReadFails, WorkerPCs
<1>12. ASSUME NEW t \in Threads, BeginSlice(t) PROVE PcOK'
  BY <1>12, ThreadGoes DEF BeginSlice
<1>13. ASSUME NEW t \in Threads, ReadBlock(t) PROVE PcOK'
  BY <1>13, ThreadGoes DEF ReadBlock
<1>14. ASSUME NEW t \in Threads, CopyRow(t) PROVE PcOK'
  BY <1>14, ThreadGoes DEF CopyRow
<1>15. ASSUME NEW t \in Threads, EndSlice(t) PROVE PcOK'
  <2>1. CASE t \in Callers
    BY <1>15, <2>1, CallerGoes DEF EndSlice, CallerPCs
  <2>2. CASE t \in Workers
    BY <1>15, <2>2, WorkerGoes, ThreadsAssumption DEF EndSlice, WorkerPCs
  <2>3. QED  BY <2>1, <2>2 DEF Threads
<1>16. CASE UNCHANGED pc
  BY <1>16 DEF PcOK
<1>17. QED
  BY <1>1, <1>2, <1>3, <1>4, <1>5, <1>6, <1>7, <1>8, <1>9, <1>10, <1>11, <1>12,
     <1>13, <1>14, <1>15, <1>16
  DEF Next, vars, Threads, CallerStep, WorkerStep, SliceStep, CloseStep,
      SkipRow, ReadInPlace, CloseStop, CloseRelease, CloseFd, Served

LEMMA TypeStep == TypeOK /\ RequestsKept /\ WakesKept /\ [Next]_vars => TypeOK'
BY CallTyped, SyncTyped, RunTyped, SliceTyped, RestTyped, PcTyped DEF TypeOK

LEMMA TypeInit == Init => TypeOK /\ RequestsKept /\ WakesKept
<1> SUFFICES ASSUME Init PROVE TypeOK /\ RequestsKept /\ WakesKept
  OBVIOUS
<1> USE ThreadsAssumption DEF Init, Threads, NoJob, NoLocals, Zero
<1>1. PcOK  BY DEF PcOK, CallerPCs, WorkerPCs
<1>2. CallOK  BY DEF CallOK, Jobs
<1>3. RunOK  BY DEF RunOK, Jobs, Cells
<1>4. SyncOK
  <2>1. left = 0 /\ go = 0 /\ error = FALSE /\ done = FALSE  OBVIOUS
  <2>2. left \in Int /\ go \in Nat  BY <2>1
  <2>3. error \in BOOLEAN /\ done \in BOOLEAN  BY <2>1, Zenon
  <2>4. QED  BY <2>2, <2>3 DEF SyncOK
<1>5. SliceOK  BY DEF SliceOK, Jobs, Cells
<1>6. RestOK  BY DEF RestOK
<1>7. RequestsKept /\ WakesKept  BY DEF RequestsKept, WakesKept
<1>8. QED  BY <1>1, <1>2, <1>3, <1>4, <1>5, <1>6, <1>7 DEF TypeOK
-----------------------------------------------------------------------------
(* What the callers know of their own gather.                              *)

LEMMA RequestsStep == TypeOK /\ RequestsKept /\ [Next]_vars => RequestsKept'
<1> SUFFICES ASSUME TypeOK, RequestsKept, [Next]_vars,
                    NEW d \in Callers, pc'[d] # "idle"
             PROVE  req'[d].n \in Nat \ {0} /\ req'[d].owned \subseteq 0 .. req'[d].n - 1
  BY DEF RequestsKept
<1> USE ThreadsAssumption DEF TypeOK, PcOK, CallOK, RequestsKept, Threads, GoTo
<1>1. ASSUME NEW c \in Callers, Call(c), c = d
      PROVE  req'[d].n \in Nat \ {0} /\ req'[d].owned \subseteq 0 .. req'[d].n - 1
  BY <1>1, RequestsAssumption DEF Call
<1>2. CASE req'[d] = req[d] /\ pc[d] # "idle"
  BY <1>2
<1>3. ASSUME NEW c \in Callers, Call(c), c # d
      PROVE  req'[d] = req[d] /\ pc[d] # "idle"
  BY <1>3 DEF Call
<1>4. ASSUME NEW c \in Callers, CallerStep(c)
      PROVE  req'[d] = req[d] /\ pc[d] # "idle"
  BY <1>4 DEF CallerStep, SliceStep, AcquireBusy, Publish, ClearDone, ReleaseOne,
     CallerReadFails, ReadFails, Return, Raise, Finish, BeginSlice, SkipRow, ReadBlock,
     CopyRow, ReadInPlace, EndSlice, AtRow, callVars
<1>5. ASSUME NEW w \in Workers, WorkerStep(w)
      PROVE  req'[d] = req[d] /\ pc[d] # "idle"
  BY <1>5 DEF WorkerStep, SliceStep, WorkerWakes, WorkerStops, WorkerClaims,
     WorkerReadFails, ReadFails, BeginSlice, SkipRow, ReadBlock, CopyRow, ReadInPlace,
     EndSlice, Tally, callVars
<1>6. CASE CloseStep \/ UNCHANGED vars \/ Served
  BY <1>6 DEF CloseStep, CloseStop, CloseRelease, CloseFd, Served, vars, callVars
<1>7. QED
  BY <1>1, <1>2, <1>3, <1>4, <1>5, <1>6 DEF Next

LEMMA WakesStep ==
    TypeOK /\ RequestsKept /\ WakesKept /\ [Next]_vars => WakesKept'
<1> SUFFICES ASSUME TypeOK, RequestsKept, WakesKept, [Next]_vars, NEW d \in Callers
             PROVE  /\ pc'[d] = "clear" => Helpers(req'[d].n) > 0
                    /\ pc'[d] = "wake" => toWake'[d] > 0
                    /\ pc'[d] # "wake" => toWake'[d] = 0
                    /\ part'[d] = 0
  BY DEF WakesKept
<1> USE ThreadsAssumption DEF TypeOK, PcOK, CallOK, WakesKept, Threads, GoTo, callVars
<1> DEFINE Kept == /\ pc'[d] = "clear" => Helpers(req'[d].n) > 0
                   /\ pc'[d] = "wake" => toWake'[d] > 0
                   /\ pc'[d] # "wake" => toWake'[d] = 0
                   /\ part'[d] = 0
<1>1. ASSUME NEW c \in Callers, Call(c) PROVE Kept
  BY <1>1 DEF Call, runVars, sliceVars
<1>2. ASSUME NEW c \in Callers, AcquireBusy(c) PROVE Kept
  BY <1>2 DEF AcquireBusy, sliceVars
<1>3. ASSUME NEW c \in Callers, Publish(c) PROVE Kept
  BY <1>3 DEF Publish, sliceVars
<1>4. ASSUME NEW c \in Callers, ClearDone(c) PROVE Kept
  BY <1>4 DEF ClearDone, sliceVars, RunOK
<1>5. ASSUME NEW c \in Callers, ReleaseOne(c) PROVE Kept
  BY <1>5 DEF ReleaseOne, sliceVars, RunOK
<1>6. ASSUME NEW c \in Callers, Return(c) \/ Raise(c) PROVE Kept
  BY <1>6 DEF Return, Raise, Finish, sliceVars, RunOK
<1>7. ASSUME NEW c \in Callers, CallerReadFails(c) PROVE Kept
  BY <1>7 DEF CallerReadFails, ReadFails, AtRow, Finish, RunOK
<1>8. ASSUME NEW t \in Threads, SliceStep(t) PROVE Kept
  BY <1>8 DEF SliceStep, BeginSlice, SkipRow, ReadBlock, CopyRow, ReadInPlace,
              EndSlice, runVars, AtRow
<1>9. ASSUME NEW w \in Workers, WorkerStep(w), ~SliceStep(w) PROVE Kept
  BY <1>9 DEF WorkerStep, WorkerWakes, WorkerStops, WorkerClaims, WorkerReadFails,
              ReadFails, Tally, runVars, sliceVars, SliceOK
<1>10. CASE CloseStep \/ UNCHANGED vars \/ Served
  BY <1>10 DEF CloseStep, CloseStop, CloseRelease, CloseFd, Served, vars, runVars,
               sliceVars
<1>11. QED
  BY <1>1, <1>2, <1>3, <1>4, <1>5, <1>6, <1>7, <1>8, <1>9, <1>10
  DEF Next, CallerStep, WorkerStep

\* The type invariant of the pool holds whatever fails and even when the
\* table is closed under a gather; it needs to know that a caller past its
\* call has at least one row, and that a caller in `wake` has a permit left.
THEOREM TypeCorrect == Spec => []TypeOK
<1>1. Init => TypeOK /\ RequestsKept /\ WakesKept
  BY TypeInit
<1>2. TypeOK /\ RequestsKept /\ WakesKept /\ [Next]_vars
        => (TypeOK /\ RequestsKept /\ WakesKept)'
  BY TypeStep, RequestsStep, WakesStep
<1>3. QED
  BY <1>1, <1>2, PTL DEF Spec
-----------------------------------------------------------------------------
(* In the regime: the lock, the permits and the tally.                     *)

LEMMA OpenStep == Regime /\ TypeOK /\ IsOpen /\ [Next]_vars => IsOpen'
BY DEF Regime, IsOpen, Next, Call, CallerStep, WorkerStep, SliceStep, CloseStep,
   AcquireBusy, Publish, ClearDone, ReleaseOne, CallerReadFails, Return, Raise,
   WorkerWakes, WorkerStops, WorkerClaims, WorkerReadFails, Tally, BeginSlice,
   SkipRow, ReadBlock, CopyRow, ReadInPlace, EndSlice, CloseStop, CloseRelease,
   CloseFd, Served, vars

\* The callers' reads succeed.
LEMMA NoCallerFault ==
    ASSUME Regime, IsOpen, NEW c \in Callers
    PROVE  ~CallerReadFails(c)
BY DEF Regime, IsOpen, CallerReadFails, ReadFails, FdOpen

LEMMA BusyStep ==
    Regime /\ TypeOK /\ IsOpen /\ BusyHeld /\ [Next]_vars => BusyHeld'
<1> SUFFICES ASSUME Regime, TypeOK, IsOpen, BusyHeld, [Next]_vars, NEW d \in Callers
             PROVE  pc'[d] \in Holding <=> busy' = d
  BY DEF BusyHeld
<1> DEFINE Kept == pc'[d] \in Holding <=> busy' = d
<1> USE ThreadsAssumption DEF TypeOK, PcOK, BusyHeld, Threads, GoTo, Holding
<1>1. ASSUME NEW c \in Callers, Call(c) PROVE Kept
  BY <1>1 DEF Call, runVars
<1>2. ASSUME NEW c \in Callers, AcquireBusy(c) PROVE Kept
  BY <1>2 DEF AcquireBusy
<1>3. ASSUME NEW c \in Callers, Publish(c) PROVE Kept
  BY <1>3 DEF Publish
<1>4. ASSUME NEW c \in Callers, ClearDone(c) PROVE Kept
  BY <1>4 DEF ClearDone
<1>5. ASSUME NEW c \in Callers, ReleaseOne(c) PROVE Kept
  BY <1>5 DEF ReleaseOne
<1>6. ASSUME NEW c \in Callers, Return(c) \/ Raise(c) PROVE Kept
  BY <1>6 DEF Return, Raise, Finish
<1>7. ASSUME NEW t \in Threads, SliceStep(t) PROVE Kept
  BY <1>7 DEF SliceStep, BeginSlice, SkipRow, ReadBlock, CopyRow, ReadInPlace,
              EndSlice, runVars, AtRow
<1>8. ASSUME NEW w \in Workers, WorkerStep(w), ~SliceStep(w) PROVE Kept
  BY <1>8 DEF WorkerStep, WorkerWakes, WorkerStops, WorkerClaims, WorkerReadFails,
              ReadFails, Tally, runVars
<1>9. CASE CloseStep \/ UNCHANGED vars \/ Served
  BY <1>9 DEF CloseStep, CloseStop, CloseRelease, CloseFd, Served, vars, runVars
<1>10. QED
  BY <1>1, <1>2, <1>3, <1>4, <1>5, <1>6, <1>7, <1>8, <1>9, NoCallerFault
  DEF Next, CallerStep, WorkerStep

LEMMA ActiveFinite ==
    /\ IsFiniteSet(Active) /\ Cardinality(Active) \in Nat
    /\ IsFiniteSet(Awake) /\ Cardinality(Awake) \in Nat
    /\ Awake \subseteq Active
<1>1. Active \subseteq Workers /\ Awake \subseteq Workers /\ Awake \subseteq Active
  BY DEF Active, Awake, InGather
<1>2. QED
  BY <1>1, ThreadsAssumption, FS_Subset, FS_CardinalityType

\* A worker at work, or a permit, is the business of the gather under way.
LEMMA ActiveBusy ==
    ASSUME TypeOK, BusyHeld, Quiet, go # 0 \/ Active # {}
    PROVE  busy \in Callers /\ pc[busy] \in Published \ {"clear"}
BY DEF TypeOK, RunOK, BusyHeld, Quiet, Holding, Published

\* When the caller's wait is over nobody is at work for it.
LEMMA WaitOver ==
    ASSUME TypeOK, RequestsKept, WakesKept, BusyHeld, Count,
           NEW c \in Callers, pc[c] = "wait", HelpersDone(c)
    PROVE  /\ busy = c /\ left = 0 /\ go = 0
           /\ Active = {} /\ Awake = {}
           /\ claim = Helpers(req[c].n) + 1
<1>1. busy = c /\ pc[c] \in Published
  BY DEF BusyHeld, Holding, Published
<1>2. Helpers(req[c].n) \in Nat
  BY SlicesCover DEF RequestsKept
<1>3. ToWake(c) = 0
  BY DEF ToWake, WakesKept
<1>4. go \in Nat /\ left \in Int /\ claim \in Nat
  BY DEF TypeOK, SyncOK, RunOK
<1>5. /\ left = go + Cardinality(Active)
      /\ left =< Helpers(req[c].n)
      /\ Helpers(req[c].n) + 1 = claim + go + Cardinality(Awake)
      /\ done /\ Helpers(req[c].n) > 0 => left = 0
  BY <1>1, <1>2, <1>3, <1>4, ActiveFinite DEF Count
<1>6. left = 0
  BY <1>2, <1>4, <1>5, ActiveFinite DEF HelpersDone
<1>7. go = 0 /\ Cardinality(Active) = 0
  BY <1>4, <1>5, <1>6, ActiveFinite
<1>8. Active = {}
  BY <1>7, ActiveFinite, FS_EmptySet
<1>9. Awake = {} /\ Cardinality(Awake) = 0
  BY <1>8, ActiveFinite, FS_EmptySet
<1>10. QED
  BY <1>1, <1>2, <1>4, <1>5, <1>6, <1>7, <1>8, <1>9
\* What the tally relies on, and is shown to keep.
TallyInv == TypeOK /\ IsOpen /\ RequestsKept /\ WakesKept /\ BusyHeld /\ Quiet /\ Count

\* Quiet and Count speak of these alone.
LEMMA SameCount ==
    ASSUME TallyInv,
           busy' = busy, left' = left, go' = go, claim' = claim, done' = done,
           Active' = Active, Awake' = Awake,
           busy \in Callers =>
             /\ req'[busy] = req[busy] /\ toWake'[busy] = toWake[busy]
             /\ \/ pc'[busy] = pc[busy]
                \/ /\ pc[busy] \in {"slice", "rows", "copy"}
                   /\ pc'[busy] \in {"slice", "rows", "copy", "wait"}
    PROVE  Quiet' /\ Count'
<1>1. CASE busy = NoCaller
  BY <1>1, ThreadsAssumption DEF TallyInv, Quiet, Count, Threads
<1>2. CASE busy \in Callers
  <2>1. Quiet'
    BY <1>2, ThreadsAssumption DEF TallyInv, Quiet, Threads
  <2>2. ToWake(busy)' = ToWake(busy)
    BY <1>2 DEF TallyInv, ToWake
  <2>3. Count'
    BY <1>2, <2>2 DEF TallyInv, Count, Published, Holding
  <2>4. QED  BY <2>1, <2>3
<1>3. QED  BY <1>1, <1>2 DEF TallyInv, TypeOK, RunOK

\* A caller's step wakes and stops no worker.
LEMMA CallerMoves ==
    ASSUME TypeOK, NEW c \in Callers, NEW s, GoTo(c, s)
    PROVE  /\ Active' = Active /\ Awake' = Awake
           /\ pc'[c] = s
           /\ \A t \in Threads \ {c} : pc'[t] = pc[t]
BY ThreadsAssumption DEF TypeOK, PcOK, Threads, GoTo, Active, Awake, InGather

LEMMA CountCall ==
    ASSUME TallyInv, NEW c \in Callers, Call(c) PROVE Quiet' /\ Count'
<1>1. Active' = Active /\ Awake' = Awake /\ \A t \in Threads \ {c} : pc'[t] = pc[t]
  BY CallerMoves DEF Call, TallyInv
<1>2. busy # c
  BY DEF Call, TallyInv, BusyHeld, Holding
<1>3. busy \in Callers => busy \in Threads \ {c}
  BY <1>2 DEF Threads
<1>4. busy \in Callers => req'[busy] = req[busy]
  BY <1>2 DEF Call, TallyInv, TypeOK, CallOK
<1>5. QED
  BY <1>1, <1>3, <1>4, SameCount DEF Call, runVars, syncVars

LEMMA CountAcquire ==
    ASSUME TallyInv, NEW c \in Callers, AcquireBusy(c) PROVE Quiet' /\ Count'
<1>1. Active' = Active /\ pc'[c] = "publish" /\ busy' = c
  BY CallerMoves DEF AcquireBusy, TallyInv
<1>2. go' = 0 /\ Active' = {}
  BY <1>1 DEF AcquireBusy, TallyInv, Quiet, syncVars
<1>3. QED
  BY <1>1, <1>2 DEF Quiet, Count, Published, Holding

LEMMA CountPublish ==
    ASSUME TallyInv, NEW c \in Callers, Publish(c) PROVE Quiet' /\ Count'
<1> DEFINE h == Helpers(req[c].n)
<1>1. h \in Nat /\ pc[c] = "publish" /\ busy = c /\ busy' = c /\ toWake[c] = 0
  BY SlicesCover DEF Publish, TallyInv, RequestsKept, BusyHeld, Holding, WakesKept
<1>2. /\ Active' = Active /\ Awake' = Awake
      /\ pc'[c] = IF h > 0 THEN "clear" ELSE "slice"
  BY CallerMoves DEF Publish, TallyInv
<1>3. go' = 0 /\ Active' = {} /\ Awake' = {}
  BY <1>1, <1>2, ActiveFinite DEF Publish, TallyInv, Quiet
<1>4. Cardinality(Active') = 0 /\ Cardinality(Awake') = 0
  BY <1>3, FS_EmptySet
<1>5. left' = h /\ claim' = 1 /\ req' = req /\ toWake' = toWake
  BY DEF Publish, FirstClaim, callVars
<1>6. ToWake(c)' = h
  BY <1>1, <1>2, <1>5 DEF ToWake
<1>7. Quiet'
  BY <1>3 DEF Quiet
<1>8. Count'
  BY <1>1, <1>2, <1>3, <1>4, <1>5, <1>6 DEF Count
<1>9. QED  BY <1>7, <1>8

LEMMA CountClear ==
    ASSUME TallyInv, NEW c \in Callers, ClearDone(c) PROVE Quiet' /\ Count'
<1> DEFINE h == Helpers(req[c].n)
<1>1. h \in Nat /\ pc[c] = "clear" /\ busy = c /\ busy' = c
  BY SlicesCover DEF ClearDone, TallyInv, RequestsKept, BusyHeld, Holding
<1>2. Active' = Active /\ Awake' = Awake /\ pc'[c] = "wake"
  BY CallerMoves DEF ClearDone, TallyInv
<1>3. /\ req' = req /\ toWake'[c] = h /\ done' = FALSE
      /\ left' = left /\ claim' = claim /\ go' = go
  BY DEF ClearDone, callVars, TallyInv, TypeOK, RunOK
<1>4. ToWake(c) = h /\ ToWake(c)' = h
  BY <1>1, <1>2, <1>3 DEF ToWake
<1>5. Quiet'
  BY <1>1, <1>2, ThreadsAssumption DEF Quiet, Threads
<1>6. Count'
  BY <1>1, <1>2, <1>3, <1>4 DEF Count, TallyInv, Published, Holding
<1>7. QED  BY <1>5, <1>6

LEMMA CountRelease ==
    ASSUME TallyInv, NEW c \in Callers, ReleaseOne(c) PROVE Quiet' /\ Count'
<1>1. pc[c] = "wake" /\ busy = c /\ busy' = c /\ toWake[c] \in Nat \ {0}
  BY DEF ReleaseOne, TallyInv, BusyHeld, Holding, WakesKept, TypeOK, RunOK
<1>2. Active' = Active /\ Awake' = Awake /\ pc'[c] \in {"wake", "slice"}
  BY CallerMoves DEF ReleaseOne, TallyInv
<1>3. /\ req' = req /\ toWake'[c] = toWake[c] - 1 /\ done' = done
      /\ left' = left /\ claim' = claim /\ go' = go + 1 /\ go \in Nat
  BY DEF ReleaseOne, callVars, TallyInv, TypeOK, RunOK, SyncOK
<1>4. ToWake(c) = toWake[c] /\ ToWake(c)' = toWake[c] - 1
  BY <1>1, <1>2, <1>3 DEF ToWake
<1>5. Quiet'
  BY <1>1, <1>2, ThreadsAssumption DEF Quiet, Threads
<1>6. Count'
  BY <1>1, <1>2, <1>3, <1>4, ActiveFinite DEF Count, TallyInv, Published, Holding,
     TypeOK, RunOK, SyncOK
<1>7. QED  BY <1>5, <1>6

LEMMA CountReturn ==
    ASSUME TallyInv, NEW c \in Callers, Return(c) \/ Raise(c) PROVE Quiet' /\ Count'
<1>1. pc[c] = "wait" /\ HelpersDone(c)
  BY DEF Return, Raise
<1>2. go = 0 /\ Active = {}
  BY <1>1, WaitOver DEF TallyInv
<1>3. Active' = Active /\ go' = go /\ busy' = NoCaller
  BY CallerMoves DEF Return, Raise, Finish, TallyInv, syncVars
<1>4. QED
  BY <1>2, <1>3, ThreadsAssumption DEF Quiet, Count, Threads
\* Count, past its guard and with its types, about the caller c.
CountOf(c) ==
    /\ left \in Int /\ go \in Nat /\ claim \in Nat
    /\ left = ToWake(c) + go + Cardinality(Active)
    /\ left =< Helpers(req[c].n)
    /\ Helpers(req[c].n) + 1 = claim + ToWake(c) + go + Cardinality(Awake)
    /\ claim >= 1
    /\ (done /\ Helpers(req[c].n) > 0 /\ pc[c] # "clear") => left = 0

LEMMA CountNow ==
    ASSUME TypeOK, Count, busy \in Callers, pc[busy] \in Published
    PROVE  CountOf(busy)
BY DEF CountOf, Count, TypeOK, SyncOK, RunOK

LEMMA CountWakes ==
    ASSUME TallyInv, NEW w \in Workers, WorkerWakes(w) PROVE Quiet' /\ Count'
<1>1. go # 0 /\ pc[w] = "parked" /\ go' = go - 1 /\ go \in Nat
  BY DEF WorkerWakes, TallyInv, TypeOK, SyncOK
<1>2. busy \in Callers /\ pc[busy] \in Published \ {"clear"} /\ busy # w
  BY <1>1, ActiveBusy, ThreadsAssumption DEF TallyInv
<1>3. pc' = [pc EXCEPT ![w] = "awake"] /\ pc \in [Threads -> CallerPCs \cup WorkerPCs]
  BY DEF WorkerWakes, GoTo, TallyInv, TypeOK, PcOK
<1>4. w \notin Active /\ w \notin Awake
      /\ Active' = Active \cup {w} /\ Awake' = Awake \cup {w}
  BY <1>1, <1>3 DEF Active, Awake, InGather, Threads
<1>5. /\ Cardinality(Active') = Cardinality(Active) + 1
      /\ Cardinality(Awake') = Cardinality(Awake) + 1
  BY <1>4, ActiveFinite, FS_AddElement
<1>6. pc'[busy] = pc[busy] /\ busy' = busy /\ req' = req /\ toWake' = toWake
      /\ left' = left /\ claim' = claim /\ done' = done
  BY <1>2, <1>3 DEF WorkerWakes, runVars, callVars, Threads
<1>7. ToWake(busy)' = ToWake(busy) /\ ToWake(busy) \in Nat
  BY <1>2, <1>6 DEF ToWake, TallyInv, TypeOK, RunOK
<1>8. Quiet'
  BY <1>2, <1>6, ThreadsAssumption DEF Quiet, Published, Threads
<1>9. Helpers(req[busy].n) \in Nat
  BY <1>2, SlicesCover DEF TallyInv, RequestsKept, Published, Holding
<1>10. CountOf(busy)
  BY <1>2, CountNow DEF TallyInv
<1>11. Count'
  BY <1>1, <1>2, <1>5, <1>6, <1>7, <1>9, <1>10, ActiveFinite DEF Count, CountOf
<1>12. QED  BY <1>8, <1>11

LEMMA CountClaims ==
    ASSUME TallyInv, NEW w \in Workers, WorkerClaims(w) PROVE Quiet' /\ Count'
<1>1. pc[w] = "awake" /\ w \in Active /\ w \in Awake
  BY DEF WorkerClaims, Active, Awake, InGather
<1>2. busy \in Callers /\ pc[busy] \in Published \ {"clear"} /\ busy # w
  BY <1>1, ActiveBusy, ThreadsAssumption DEF TallyInv
<1>3. pc' = [pc EXCEPT ![w] = "slice"] /\ pc \in [Threads -> CallerPCs \cup WorkerPCs]
  BY DEF WorkerClaims, GoTo, TallyInv, TypeOK, PcOK
<1>4. Active' = Active /\ Awake' = Awake \ {w}
  BY <1>1, <1>3 DEF Active, Awake, InGather, Threads
<1>5. Cardinality(Awake') = Cardinality(Awake) - 1
  BY <1>1, <1>4, ActiveFinite, FS_RemoveElement
<1>6. pc'[busy] = pc[busy] /\ busy' = busy /\ req' = req /\ toWake' = toWake
      /\ left' = left /\ claim' = claim + 1 /\ done' = done /\ go' = go
  BY <1>2, <1>3 DEF WorkerClaims, syncVars, callVars, Threads
<1>7. ToWake(busy)' = ToWake(busy) /\ ToWake(busy) \in Nat
  BY <1>2, <1>6 DEF ToWake, TallyInv, TypeOK, RunOK
<1>8. Quiet'
  BY <1>2, <1>6, ThreadsAssumption DEF Quiet, Published, Threads
<1>9. Helpers(req[busy].n) \in Nat
  BY <1>2, SlicesCover DEF TallyInv, RequestsKept, Published, Holding
<1>10. CountOf(busy)
  BY <1>2, CountNow DEF TallyInv
<1>11. Count'
  BY <1>1, <1>2, <1>4, <1>5, <1>6, <1>7, <1>9, <1>10, ActiveFinite DEF Count, CountOf
<1>12. QED  BY <1>8, <1>11

LEMMA CountTally ==
    ASSUME TallyInv, NEW w \in Workers, Tally(w) PROVE Quiet' /\ Count'
<1>1. pc[w] = "tally" /\ w \in Active /\ w \notin Awake
  BY DEF Tally, Active, Awake, InGather
<1>2. busy \in Callers /\ pc[busy] \in Published \ {"clear"} /\ busy # w
  BY <1>1, ActiveBusy, ThreadsAssumption DEF TallyInv
<1>3. pc' = [pc EXCEPT ![w] = "parked"] /\ pc \in [Threads -> CallerPCs \cup WorkerPCs]
  BY DEF Tally, GoTo, TallyInv, TypeOK, PcOK
<1>4. Active' = Active \ {w} /\ Awake' = Awake
  BY <1>1, <1>3 DEF Active, Awake, InGather, Threads
<1>5. Cardinality(Active') = Cardinality(Active) - 1
  BY <1>1, <1>4, ActiveFinite, FS_RemoveElement
<1>6. pc'[busy] = pc[busy] /\ busy' = busy /\ req' = req /\ toWake' = toWake
      /\ left' = left - 1 /\ claim' = claim /\ go' = go
  BY <1>2, <1>3 DEF Tally, runVars, callVars, Threads
<1>7. ToWake(busy)' = ToWake(busy) /\ ToWake(busy) \in Nat
  BY <1>2, <1>6 DEF ToWake, TallyInv, TypeOK, RunOK
<1>8. Quiet'
  BY <1>2, <1>6, ThreadsAssumption DEF Quiet, Published, Threads
<1>9. Helpers(req[busy].n) \in Nat
  BY <1>2, SlicesCover DEF TallyInv, RequestsKept, Published, Holding
<1>10. Cardinality(Active) \in Nat \ {0}
  BY <1>1, ActiveFinite, FS_EmptySet
<1>11. (done' /\ Helpers(req[busy].n) > 0) => left' = 0
  <2>1. left \in Int /\ go \in Nat  BY DEF TallyInv, TypeOK, SyncOK
  <2>2. left = ToWake(busy) + go + Cardinality(Active)
    BY <1>2 DEF TallyInv, Count
  <2>3. left # 0  BY <1>7, <1>10, <2>1, <2>2
  <2>4. ~done \/ Helpers(req[busy].n) = 0
    BY <1>2, <1>9, <2>3 DEF TallyInv, Count
  <2>5. done' => done \/ left = 1  BY DEF Tally
  <2>6. QED  BY <1>6, <1>9, <2>1, <2>4, <2>5
<1>12. CountOf(busy)
  BY <1>2, CountNow DEF TallyInv
<1>13. Count'
  BY <1>1, <1>2, <1>4, <1>5, <1>6, <1>7, <1>9, <1>11, <1>12, ActiveFinite
  DEF Count, CountOf
<1>14. QED  BY <1>8, <1>13

\* Inside a slice the tally and the claims do not move.
LEMMA CountSlice ==
    ASSUME TallyInv, NEW t \in Threads,
           SliceStep(t) \/ (t \in Workers /\ WorkerReadFails(t))
    PROVE  Quiet' /\ Count'
<1>1. /\ busy' = busy /\ left' = left /\ go' = go /\ claim' = claim
      /\ done' = done /\ req' = req /\ toWake' = toWake
  BY DEF SliceStep, BeginSlice, SkipRow, ReadBlock, CopyRow, ReadInPlace, EndSlice,
     WorkerReadFails, callVars, runVars, syncVars
<1>2. /\ pc[t] \in {"slice", "rows", "copy"}
      /\ \/ pc' = pc
         \/ \E s \in {"rows", "copy", "tally", "wait"} :
              /\ pc' = [pc EXCEPT ![t] = s]
              /\ s = "wait" => t \in Callers
              /\ s = "tally" => t \in Workers
  <2>1. CASE SliceStep(t)
    BY <2>1 DEF SliceStep, BeginSlice, SkipRow, ReadBlock, CopyRow, ReadInPlace, EndSlice,
       AtRow, GoTo, Threads
  <2>2. CASE t \in Workers /\ WorkerReadFails(t)
    BY <2>2 DEF WorkerReadFails, ReadFails, AtRow, GoTo
  <2>3. QED  BY <2>1, <2>2
<1>3. pc \in [Threads -> CallerPCs \cup WorkerPCs]
  BY DEF TallyInv, TypeOK, PcOK
<1>4. Active' = Active /\ Awake' = Awake
  BY <1>2, <1>3, ThreadsAssumption DEF Active, Awake, InGather, Threads
<1>5. busy \in Callers => \/ pc'[busy] = pc[busy]
                          \/ /\ pc[busy] \in {"slice", "rows", "copy"}
                             /\ pc'[busy] \in {"slice", "rows", "copy", "wait"}
  BY <1>2, <1>3, ThreadsAssumption DEF Threads
<1>6. QED
  BY <1>1, <1>4, <1>5, SameCount

LEMMA CountStep == Regime /\ TallyInv /\ [Next]_vars => Quiet' /\ Count'
<1> SUFFICES ASSUME Regime, TallyInv, [Next]_vars PROVE Quiet' /\ Count'
  OBVIOUS
<1>1. ASSUME NEW w \in Workers PROVE ~WorkerStops(w)
  BY DEF WorkerStops, Stopped, TallyInv, IsOpen
<1>2. ASSUME NEW c \in Callers PROVE ~CallerReadFails(c)
  BY NoCallerFault DEF TallyInv
<1>3. ~CloseStep
  BY DEF Regime, TallyInv, IsOpen, CloseStep, CloseStop, CloseRelease, CloseFd
<1>4. CASE UNCHANGED vars
  BY <1>4, SameCount
  DEF vars, callVars, runVars, syncVars, Active, Awake, InGather
<1>5. QED
  BY <1>1, <1>2, <1>3, <1>4, CountCall, CountAcquire, CountPublish, CountClear, CountRelease,
     CountReturn, CountWakes, CountClaims, CountTally, CountSlice
  DEF Next, CallerStep, WorkerStep, Served, Threads
-----------------------------------------------------------------------------
(* In the regime: every thread inside _slice works on the published job.   *)

LEMMA SliceBusy ==
    ASSUME TallyInv, NEW t \in Threads, pc[t] \in {"slice", "rows", "copy"}
    PROVE  /\ busy \in Callers /\ pc[busy] \in Published \ {"clear"}
           /\ t \in Callers => busy = t
<1>1. CASE t \in Workers
  <2>1. t \in Active  BY <1>1 DEF Active, InGather
  <2>2. QED
    BY <1>1, <2>1, ActiveBusy, ThreadsAssumption DEF TallyInv
<1>2. CASE t \in Callers
  BY <1>2 DEF TallyInv, BusyHeld, Holding, Published
<1>3. QED  BY <1>1, <1>2 DEF Threads

JobInv == TallyInv /\ JobCurrent /\ LocalsCurrent

LEMMA JobStep == Regime /\ JobInv /\ [Next]_vars => JobCurrent'
<1> SUFFICES ASSUME Regime, JobInv, [Next]_vars,
                    busy' \in Callers, pc'[busy'] \in Published
             PROVE  job' = req'[busy'] /\ step' = StepOf(req'[busy'].n)
  BY DEF JobCurrent
<1> DEFINE Kept == job' = req'[busy'] /\ step' = StepOf(req'[busy'].n)
<1> USE ThreadsAssumption DEF TypeOK, PcOK, Threads, GoTo, JobInv, TallyInv, JobCurrent,
        Published, Holding
<1>1. ASSUME NEW c \in Callers, Call(c) PROVE Kept
  <2>1. busy' = busy /\ job' = job /\ step' = step /\ busy # c
    BY <1>1 DEF Call, runVars, BusyHeld
  <2>2. pc[busy] = pc'[busy] /\ req'[busy] = req[busy]
    BY <1>1, <2>1 DEF Call, CallOK
  <2>3. QED  BY <2>1, <2>2
<1>2. ASSUME NEW c \in Callers, AcquireBusy(c) PROVE Kept
  BY <1>2 DEF AcquireBusy
<1>3. ASSUME NEW c \in Callers, Publish(c) PROVE Kept
  BY <1>3 DEF Publish, callVars, BusyHeld
<1>4. ASSUME NEW c \in Callers, ClearDone(c) PROVE Kept
  BY <1>4 DEF ClearDone, callVars, BusyHeld
<1>5. ASSUME NEW c \in Callers, ReleaseOne(c) PROVE Kept
  BY <1>5 DEF ReleaseOne, callVars, BusyHeld
<1>6. ASSUME NEW c \in Callers, Return(c) \/ Raise(c) PROVE Kept
  BY <1>6 DEF Return, Raise, Finish
<1>7. ASSUME NEW t \in Threads, SliceStep(t) PROVE Kept
  <2>1. pc[t] \in {"slice", "rows", "copy"}
        /\ busy' = busy /\ job' = job /\ step' = step /\ req' = req
    BY <1>7 DEF SliceStep, BeginSlice, SkipRow, ReadBlock, CopyRow, ReadInPlace,
              EndSlice, runVars, callVars, AtRow
  <2>2. QED  BY <2>1, SliceBusy
<1>8. ASSUME NEW w \in Workers, WorkerStep(w), ~SliceStep(w) PROVE Kept
  <2>1. /\ busy' = busy /\ job' = job /\ step' = step /\ req' = req
        /\ \A c \in Callers : pc'[c] = pc[c]
    BY <1>8 DEF WorkerStep, WorkerWakes, WorkerStops, WorkerClaims, WorkerReadFails,
              ReadFails, Tally, runVars, callVars
  <2>2. QED  BY <2>1
<1>9. CASE UNCHANGED vars
  BY <1>9 DEF vars, runVars, callVars
<1>10. CASE CloseStep
  BY <1>10 DEF CloseStep, CloseStop, CloseRelease, CloseFd, runVars, callVars
<1>11. QED
  BY <1>1, <1>2, <1>3, <1>4, <1>5, <1>6, <1>7, <1>8, <1>9, <1>10, NoCallerFault
  DEF Next, CallerStep, WorkerStep, Served

\* What LocalsCurrent says of one thread.
LocalOf(t) ==
    pc[t] \in {"rows", "copy"} =>
        /\ loc[t].job = job
        /\ loc[t].hi =< job.n
        /\ pc[t] = "copy" => /\ loc[t].k < loc[t].hi
                             /\ loc[t].k \in job.owned
                             /\ buf[t] = Row(job.id, loc[t].k)

LEMMA LocalsStep == Regime /\ JobInv /\ [Next]_vars => LocalsCurrent'
<1> SUFFICES ASSUME Regime, JobInv, [Next]_vars, NEW u \in Threads
             PROVE  LocalOf(u)'
  BY DEF LocalsCurrent, LocalOf
<1>0. LocalOf(u)
  BY DEF JobInv, LocalsCurrent, LocalOf
<1> USE ThreadsAssumption DEF PcOK, Threads, GoTo, LocalOf
<1>1. ASSUME job' = job, loc'[u] = loc[u], buf'[u] = buf[u], pc'[u] = pc[u]
      PROVE  LocalOf(u)'
  BY <1>0, <1>1
<1>2. ASSUME pc'[u] \notin {"rows", "copy"} PROVE LocalOf(u)'
  BY <1>2
<1>3. ASSUME NEW c \in Callers,
             Call(c) \/ AcquireBusy(c) \/ ClearDone(c) \/ ReleaseOne(c)
             \/ Return(c) \/ Raise(c)
      PROVE  LocalOf(u)'
  <2>1. job' = job /\ loc' = loc /\ buf' = buf
        /\ \E s \in {"queued", "publish", "wake", "slice", "idle"} :
             pc' = [pc EXCEPT ![c] = s]
    BY <1>3 DEF Call, AcquireBusy, ClearDone, ReleaseOne, Return, Raise, Finish,
       runVars, sliceVars
  <2>2. pc'[u] = pc[u] \/ pc'[u] \notin {"rows", "copy"}
    BY <2>1 DEF JobInv, TallyInv, TypeOK
  <2>3. QED  BY <1>1, <1>2, <2>1, <2>2
<1>4. ASSUME NEW c \in Callers, Publish(c) PROVE LocalOf(u)'
  <2>1. pc[u] \notin {"slice", "rows", "copy"}
    <3>1. busy = c  BY <1>4 DEF Publish, JobInv, TallyInv, BusyHeld, Holding
    <3>2. pc[busy] \notin Published  BY <1>4, <3>1 DEF Publish, Published
    <3>3. QED  BY <3>2, SliceBusy DEF JobInv
  <2>2. pc'[u] \notin {"rows", "copy"}
    BY <1>4, <2>1 DEF Publish, JobInv, TallyInv, TypeOK
  <2>3. QED  BY <1>2, <2>2
<1>5. ASSUME NEW w \in Workers, WorkerStep(w), ~SliceStep(w) PROVE LocalOf(u)'
  <2>1. job' = job /\ buf' = buf /\ (u # w => loc'[u] = loc[u])
        /\ \E s \in {"awake", "slice", "parked", "tally", "exited"} :
             pc' = [pc EXCEPT ![w] = s]
    BY <1>5 DEF WorkerStep, WorkerWakes, WorkerStops, WorkerClaims, WorkerReadFails,
       ReadFails, Tally, runVars, sliceVars, JobInv, TallyInv, TypeOK, SliceOK
  <2>2. CASE u = w
    BY <1>2, <2>1, <2>2 DEF JobInv, TallyInv, TypeOK
  <2>3. CASE u # w
    BY <1>1, <2>1, <2>3 DEF JobInv, TallyInv, TypeOK
  <2>4. QED  BY <2>2, <2>3
<1>6. ASSUME NEW t \in Threads, SliceStep(t), t # u PROVE LocalOf(u)'
  <2>1. job' = job /\ loc'[u] = loc[u] /\ buf'[u] = buf[u] /\ pc'[u] = pc[u]
    BY <1>6 DEF SliceStep, BeginSlice, SkipRow, ReadBlock, CopyRow, ReadInPlace,
       EndSlice, NextRow, ScratchOf, runVars, sliceVars, JobInv, TallyInv, TypeOK, SliceOK
  <2>2. QED  BY <1>1, <2>1
<1>7. CASE BeginSlice(u)
  <2>1. job \in Jobs /\ part[u] \in Nat /\ step \in Nat
    BY DEF JobInv, TallyInv, TypeOK, RunOK, SliceOK
  <2>2. job' = job /\ pc'[u] = "rows" /\ loc'[u].job = job
        /\ loc'[u].hi = MinOf(part[u] * step + step, job.n)
    BY <1>7 DEF BeginSlice, runVars, JobInv, TallyInv, TypeOK, SliceOK
  <2>3. loc'[u].hi =< job.n
    BY <2>1, <2>2 DEF MinOf, Jobs
  <2>4. QED  BY <2>2, <2>3
<1>8. CASE SkipRow(u)
  BY <1>0, <1>8 DEF SkipRow, AtRow, NextRow, runVars, JobInv, TallyInv, TypeOK, SliceOK
<1>9. CASE ReadBlock(u)
  BY <1>0, <1>9
  DEF ReadBlock, AtRow, ScratchOf, runVars, JobInv, TallyInv, TypeOK, SliceOK
<1>10. CASE CopyRow(u)
  BY <1>0, <1>10 DEF CopyRow, NextRow, JobInv, TallyInv, TypeOK, SliceOK
<1>11. CASE ReadInPlace(u)
  BY <1>0, <1>11 DEF ReadInPlace, AtRow, NextRow, JobInv, TallyInv, TypeOK, SliceOK
<1>12. CASE EndSlice(u)
  BY <1>2, <1>12 DEF EndSlice, JobInv, TallyInv, TypeOK
<1>13. CASE CloseStep \/ UNCHANGED vars
  BY <1>1, <1>13
  DEF CloseStep, CloseStop, CloseRelease, CloseFd, vars, runVars, sliceVars
<1>14. QED
  BY <1>3, <1>4, <1>5, <1>6, <1>7, <1>8, <1>9, <1>10, <1>11, <1>12, <1>13, NoCallerFault
  DEF Next, CallerStep, WorkerStep, SliceStep, Served, JobInv, TallyInv
-----------------------------------------------------------------------------
(* In the regime: no row of the published gather is lost.                  *)

RowsInv == JobInv /\ RowsAccounted

RowOf(k) ==
    IF k \in job.owned
    THEN dst[k] = Row(job.id, k) \/ error \/ ToRead(k)
    ELSE dst[k] = Zero

LEMMA RowNow ==
    ASSUME RowsInv, busy \in Callers, pc[busy] \in Published, NEW k \in 0 .. job.n - 1
    PROVE  RowOf(k)
BY DEF RowsInv, RowsAccounted, RowOf

LEMMA RowsPublish ==
    ASSUME RowsInv, NEW c \in Callers, Publish(c), NEW k \in 0 .. job'.n - 1
    PROVE  RowOf(k)'
<1>1. busy = c /\ busy' = c /\ req[c] \in Jobs /\ req[c].n \in Nat \ {0}
  BY DEF RowsInv, JobInv, TallyInv, Publish, BusyHeld, Holding, RequestsKept, TypeOK, CallOK
<1>2. job' = req[c] /\ dst'[k] = Zero /\ claim' = 1 /\ step' = StepOf(req[c].n)
      /\ part' = part
  BY <1>1 DEF Publish, Fresh, FirstClaim, sliceVars
<1>3. step' \in Nat
  BY <1>1, <1>2, SlicesCover
<1>4. pc'[c] \in {"clear", "slice"}
  BY CallerMoves DEF Publish, RowsInv, JobInv, TallyInv
<1>5. part'[c] * step' = 0 /\ claim' * step' = step'
  BY <1>2, <1>3 DEF RowsInv, JobInv, TallyInv, WakesKept
<1>6. k \in Int
  BY <1>1, <1>2 DEF Jobs
<1>7. CASE k >= step'
  BY <1>2, <1>5, <1>7 DEF RowOf, ToRead
<1>8. CASE k < step' /\ pc'[c] = "clear"
  BY <1>1, <1>2, <1>8 DEF RowOf, ToRead
<1>9. CASE k < step' /\ pc'[c] = "slice"
  <2>1. c \in Threads /\ part'[c] * step' =< k /\ k < part'[c] * step' + step'
    BY <1>3, <1>5, <1>6, <1>9, <1>2, <1>1 DEF Threads, Jobs
  <2>2. ToRead(k)'
    BY <1>9, <2>1 DEF ToRead
  <2>3. QED  BY <1>2, <2>2 DEF RowOf
<1>10. QED  BY <1>3, <1>4, <1>6, <1>7, <1>8, <1>9

\* A row still to be read stays so while no thread's slice, and no claim,
\* changes; a caller that leaves `wake` keeps slice 0 to itself.
LEMMA RowsCaller ==
    ASSUME RowsInv, NEW c \in Callers,
           Call(c) \/ ClearDone(c) \/ ReleaseOne(c),
           busy \in Callers, pc'[busy] \in Published, NEW k \in 0 .. job.n - 1
    PROVE  RowOf(k)'
<1>1. /\ busy' = busy /\ job' = job /\ dst' = dst /\ step' = step /\ claim' = claim
      /\ error' = error /\ part' = part /\ loc' = loc
  BY DEF Call, ClearDone, ReleaseOne, runVars, syncVars, sliceVars
<1>2. /\ pc[c] \in {"idle", "clear", "wake"}
      /\ \E s \in {"queued", "wake", "slice"} :
           GoTo(c, s) /\ (s = "queued" => pc[c] = "idle") /\ (s # "queued" => pc[c] # "idle")
  BY DEF Call, ClearDone, ReleaseOne
<1>3. \A t \in Threads \ {c} : pc'[t] = pc[t]
  BY <1>2, CallerMoves DEF RowsInv, JobInv, TallyInv
<1>4. pc[busy] \in Published
  BY <1>2, <1>3, ThreadsAssumption
  DEF Published, Holding, Threads, RowsInv, JobInv, TallyInv, TypeOK, PcOK, GoTo
<1>5. RowOf(k)
  BY <1>4, RowNow
<1>6. ASSUME ToRead(k) PROVE ToRead(k)'
  <2>1. CASE k >= claim * step
    BY <1>1, <2>1 DEF ToRead
  <2>2. CASE pc[busy] \in {"clear", "wake"} /\ k < step
    <3>1. CASE busy # c
      BY <1>1, <1>3, <2>2, <3>1 DEF ToRead, Threads
    <3>2. CASE busy = c
      <4>1. pc'[c] \in {"wake", "slice"}
        BY <1>2, <2>2, <3>2, CallerMoves DEF RowsInv, JobInv, TallyInv
      <4>2. CASE pc'[c] = "wake"
        BY <1>1, <2>2, <3>2, <4>2 DEF ToRead
      <4>3. CASE pc'[c] = "slice"
        <5>1. part'[c] * step' = 0 /\ step' \in Nat /\ job.n \in Nat
          BY <1>1 DEF RowsInv, JobInv, TallyInv, WakesKept, TypeOK, RunOK, Jobs
        <5>2. part'[c] * step' =< k /\ k < part'[c] * step' + step'
          BY <1>1, <2>2, <5>1
        <5>3. QED  BY <4>3, <5>2 DEF ToRead, Threads
      <4>4. QED  BY <4>1, <4>2, <4>3
    <3>3. QED  BY <3>1, <3>2
  <2>3. CASE \E t \in Threads : /\ pc[t] = "slice"
                                /\ part[t] * step =< k
                                /\ k < part[t] * step + step
    BY <1>1, <1>2, <1>3, <2>3 DEF ToRead
  <2>4. CASE \E t \in Threads : /\ pc[t] \in {"rows", "copy"}
                                /\ loc[t].k =< k
                                /\ k < loc[t].hi
    BY <1>1, <1>2, <1>3, <2>4 DEF ToRead
  <2>5. QED  BY <1>6, <2>1, <2>2, <2>3, <2>4 DEF ToRead
<1>7. QED  BY <1>1, <1>5, <1>6 DEF RowOf
\* Waking, and ending the tally, touches no slice.  A claim takes the first
\* unclaimed slice; a failed read records the error.
LEMMA RowsWorker ==
    ASSUME RowsInv, NEW w \in Workers, WorkerStep(w), ~SliceStep(w),
           busy \in Callers, pc[busy] \in Published, NEW k \in 0 .. job.n - 1
    PROVE  RowOf(k)'
<1>1. RowOf(k)
  BY RowNow
<1>2. /\ busy' = busy /\ job' = job /\ dst' = dst /\ step' = step
      /\ pc'[busy] = pc[busy]
      /\ \A t \in Threads \ {w} : pc'[t] = pc[t] /\ part'[t] = part[t] /\ loc'[t] = loc[t]
  BY ThreadsAssumption
  DEF WorkerStep, WorkerWakes, WorkerStops, WorkerClaims, WorkerReadFails, ReadFails,
      Tally, GoTo, runVars, sliceVars, RowsInv, JobInv, TallyInv, TypeOK, PcOK, SliceOK,
      Threads
<1>3. CASE WorkerReadFails(w)
  BY <1>1, <1>2, <1>3 DEF WorkerReadFails, RowOf
<1>4. CASE WorkerWakes(w) \/ WorkerStops(w) \/ Tally(w)
  <2>1. claim' = claim /\ error' = error /\ pc[w] \notin {"slice", "rows", "copy"}
    BY <1>4 DEF WorkerWakes, WorkerStops, Tally, runVars, syncVars
  <2>2. ToRead(k) => ToRead(k)'
    BY <1>2, <2>1 DEF ToRead
  <2>3. QED  BY <1>1, <1>2, <2>1, <2>2 DEF RowOf
<1>5. CASE WorkerClaims(w)
  <2>1. /\ claim' = claim + 1 /\ error' = error /\ pc[w] = "awake"
        /\ pc'[w] = "slice" /\ part'[w] = claim /\ w \in Threads
    BY <1>5
    DEF WorkerClaims, ClaimedPart, syncVars, GoTo, RowsInv, JobInv, TallyInv, TypeOK, PcOK,
        SliceOK, Threads
  <2>2. claim \in Nat /\ step \in Nat /\ job.n \in Nat
    BY DEF RowsInv, JobInv, TallyInv, TypeOK, RunOK, Jobs
  <2>3. claim * step \in Nat /\ (claim + 1) * step = claim * step + step
    BY <2>2
  <2>4. ASSUME k >= claim * step PROVE ToRead(k)'
    <3>1. CASE k >= claim * step + step
      BY <1>2, <2>1, <2>3, <3>1 DEF ToRead
    <3>2. CASE k < claim * step + step
      BY <1>2, <2>1, <2>4, <3>2 DEF ToRead
    <3>3. QED  BY <2>2, <2>3, <3>1, <3>2
  <2>5. ToRead(k) => ToRead(k)'
    BY <1>2, <2>1, <2>4 DEF ToRead
  <2>6. QED  BY <1>1, <1>2, <2>1, <2>5 DEF RowOf
<1>6. QED
  BY <1>3, <1>4, <1>5 DEF WorkerStep

\* A thread that goes through its slice passes a row only when it is in
\* place or not owned.
LEMMA RowsSlice ==
    ASSUME RowsInv, NEW u \in Threads, SliceStep(u), NEW k \in 0 .. job.n - 1
    PROVE  RowOf(k)'
<1>1. /\ busy \in Callers /\ pc[busy] \in Published \ {"clear"}
      /\ pc[u] \in {"slice", "rows", "copy"}
      /\ u \in Callers => busy = u
  BY SliceBusy
  DEF RowsInv, JobInv, SliceStep, BeginSlice, SkipRow, ReadBlock, CopyRow, ReadInPlace,
      EndSlice, AtRow
<1>2. RowOf(k)
  BY <1>1, RowNow
<1>3. /\ busy' = busy /\ job' = job /\ step' = step /\ claim' = claim /\ error' = error
      /\ part' = part
      /\ \A t \in Threads \ {u} : pc'[t] = pc[t] /\ loc'[t] = loc[t]
  BY DEF SliceStep, BeginSlice, SkipRow, ReadBlock, CopyRow, ReadInPlace, EndSlice,
     NextRow, GoTo, runVars, syncVars, sliceVars, RowsInv, JobInv, TallyInv, TypeOK, PcOK,
     SliceOK
<1>4. pc[busy] \in {"clear", "wake"} => pc'[busy] = pc[busy]
  BY <1>1, <1>3 DEF Threads
<1>5. /\ step \in Nat /\ part[u] \in Nat /\ job.n \in Nat
      /\ loc[u] \in [job : Jobs, k : Nat, hi : Nat] /\ k \in Nat
  BY DEF RowsInv, JobInv, TallyInv, TypeOK, RunOK, SliceOK, Jobs
<1>6. LocalOf(u)
  BY DEF RowsInv, JobInv, LocalsCurrent, LocalOf
\* Rows that are not this thread's stay as they are.
<1>7. ASSUME \/ k >= claim * step
             \/ pc[busy] \in {"clear", "wake"} /\ k < step
             \/ \E t \in Threads \ {u} : /\ pc[t] = "slice"
                                         /\ part[t] * step =< k
                                         /\ k < part[t] * step + step
             \/ \E t \in Threads \ {u} : /\ pc[t] \in {"rows", "copy"}
                                         /\ loc[t].k =< k
                                         /\ k < loc[t].hi
      PROVE  ToRead(k)'
  BY <1>3, <1>4, <1>7 DEF ToRead
<1> DEFINE Begun == /\ pc[u] = "slice"
                    /\ part[u] * step =< k
                    /\ k < part[u] * step + step
           Ahead == /\ pc[u] \in {"rows", "copy"}
                    /\ loc[u].k =< k
                    /\ k < loc[u].hi
<1>8. ToRead(k) => ToRead(k)' \/ Begun \/ Ahead
  BY <1>7 DEF ToRead
<1>9. CASE BeginSlice(u)
  <2>1. dst' = dst /\ pc'[u] = "rows" /\ pc[u] = "slice"
        /\ loc'[u].k = part[u] * step
        /\ loc'[u].hi = MinOf(part[u] * step + step, job.n)
    BY <1>9 DEF BeginSlice, runVars, GoTo, RowsInv, JobInv, TallyInv, TypeOK, PcOK, SliceOK
  <2>2. Begun => ToRead(k)'
    BY <1>5, <2>1 DEF ToRead, MinOf
  <2>3. QED  BY <1>2, <1>3, <1>8, <2>1, <2>2 DEF RowOf
<1>10. CASE SkipRow(u)
  <2>1. /\ dst' = dst /\ pc' = pc /\ pc[u] = "rows"
        /\ loc[u].k \notin job.owned
        /\ loc'[u].k = loc[u].k + 1 /\ loc'[u].hi = loc[u].hi
    BY <1>6, <1>10
    DEF SkipRow, AtRow, NextRow, LocalOf, runVars, RowsInv, JobInv, TallyInv, TypeOK, SliceOK
  <2>2. k \in job.owned /\ Ahead => ToRead(k)'
    BY <1>5, <2>1 DEF ToRead
  <2>3. QED  BY <1>2, <1>3, <1>8, <2>1, <2>2 DEF RowOf
<1>11. CASE ReadBlock(u)
  <2>1. dst' = dst /\ pc[u] = "rows" /\ pc'[u] = "copy" /\ loc' = loc
    BY <1>11
    DEF ReadBlock, AtRow, GoTo, runVars, RowsInv, JobInv, TallyInv, TypeOK, PcOK
  <2>2. Ahead => ToRead(k)'
    BY <2>1 DEF ToRead
  <2>3. QED  BY <1>2, <1>3, <1>8, <2>1, <2>2 DEF RowOf
\* In both ways of reading, the row lands in its own place.
<1>12. CASE CopyRow(u) \/ ReadInPlace(u)
  <2>1. /\ pc[u] \in {"rows", "copy"} /\ pc'[u] = "rows"
        /\ loc[u].job = job /\ loc[u].k < loc[u].hi /\ loc[u].hi =< job.n
        /\ loc[u].k \in job.owned
    BY <1>6, <1>12
    DEF CopyRow, ReadInPlace, AtRow, GoTo, LocalOf, RowsInv, JobInv, TallyInv, TypeOK, PcOK
  <2>2. dst' = [dst EXCEPT ![loc[u].k] = Row(job.id, loc[u].k)]
    BY <1>6, <1>12, <2>1 DEF CopyRow, ReadInPlace, Store, ScratchOf, LocalOf, AtRow
  <2>3. loc'[u].k = loc[u].k + 1 /\ loc'[u].hi = loc[u].hi
    BY <1>12 DEF CopyRow, ReadInPlace, NextRow, RowsInv, JobInv, TallyInv, TypeOK, SliceOK
  <2>4. dst \in [0 .. job.n - 1 -> Cells]
    BY DEF RowsInv, JobInv, TallyInv, TypeOK, RunOK
  <2>5. CASE k = loc[u].k
    BY <1>3, <2>1, <2>2, <2>4, <2>5 DEF RowOf
  <2>6. CASE k # loc[u].k
    <3>1. dst'[k] = dst[k]  BY <2>2, <2>4, <2>6
    <3>2. Ahead => ToRead(k)'
      BY <1>5, <2>1, <2>3, <2>6 DEF ToRead
    <3>3. Begun => FALSE  BY <2>1
    <3>4. QED  BY <1>2, <1>3, <1>8, <3>1, <3>2, <3>3 DEF RowOf
  <2>7. QED  BY <2>5, <2>6
<1>13. CASE EndSlice(u)
  <2>1. dst' = dst /\ pc[u] = "rows" /\ loc[u].k >= loc[u].hi
    BY <1>13 DEF EndSlice, runVars
  <2>2. ~Begun /\ ~Ahead
    BY <1>5, <2>1
  <2>3. QED  BY <1>2, <1>3, <1>8, <2>1, <2>2 DEF RowOf
<1>14. QED
  BY <1>9, <1>10, <1>11, <1>12, <1>13 DEF SliceStep
LEMMA RowsStep == Regime /\ RowsInv /\ [Next]_vars => RowsAccounted'
<1> SUFFICES ASSUME Regime, RowsInv, [Next]_vars,
                    busy' \in Callers, pc'[busy'] \in Published,
                    NEW k \in 0 .. job'.n - 1
             PROVE  RowOf(k)'
  BY DEF RowsAccounted, RowOf
<1>1. CASE \E c \in Callers : Publish(c)
  BY <1>1, RowsPublish
<1>2. ASSUME NEW c \in Callers, AcquireBusy(c) \/ Return(c) \/ Raise(c) PROVE FALSE
  BY <1>2, CallerMoves, ThreadsAssumption
  DEF AcquireBusy, Return, Raise, Finish, Published, Threads, RowsInv, JobInv, TallyInv
<1>3. ASSUME NEW c \in Callers, Call(c) \/ ClearDone(c) \/ ReleaseOne(c)
      PROVE  RowOf(k)'
  <2>1. job' = job /\ busy' = busy
    BY <1>3 DEF Call, ClearDone, ReleaseOne, runVars
  <2>2. QED  BY <1>3, <2>1, RowsCaller
<1>4. ASSUME NEW w \in Workers, WorkerStep(w), ~SliceStep(w) PROVE RowOf(k)'
  <2>1. job' = job /\ busy' = busy /\ pc'[busy] = pc[busy]
    BY <1>4, ThreadsAssumption
    DEF WorkerStep, WorkerWakes, WorkerStops, WorkerClaims, WorkerReadFails, ReadFails,
        Tally, GoTo, runVars, RowsInv, JobInv, TallyInv, TypeOK, PcOK, RunOK, Threads
  <2>2. QED  BY <1>4, <2>1, RowsWorker
<1>5. ASSUME NEW t \in Threads, SliceStep(t) PROVE RowOf(k)'
  <2>1. job' = job
    BY <1>5 DEF SliceStep, BeginSlice, SkipRow, ReadBlock, CopyRow, ReadInPlace,
       EndSlice, runVars
  <2>2. QED  BY <1>5, <2>1, RowsSlice
<1>6. CASE UNCHANGED vars
  <2>1. job' = job /\ busy' = busy /\ pc' = pc
    BY <1>6 DEF vars, runVars
  <2>2. RowOf(k)
    BY <2>1, RowNow
  <2>3. QED
    BY <1>6, <2>2 DEF RowOf, ToRead, vars, runVars, syncVars, sliceVars
<1>7. ~CloseStep
  BY DEF Regime, RowsInv, JobInv, TallyInv, IsOpen, CloseStep, CloseStop, CloseRelease,
     CloseFd
<1>8. QED
  BY <1>1, <1>2, <1>3, <1>4, <1>5, <1>6, <1>7, NoCallerFault
  DEF Next, CallerStep, WorkerStep, Served, Threads, RowsInv, JobInv, TallyInv

\* The result that run() hands back is complete.
LEMMA ReturnComplete ==
    ASSUME RowsInv, NEW c \in Callers, Return(c)
    PROVE  dst = Expected(req[c])
<1>1. pc[c] = "wait" /\ HelpersDone(c) /\ ~error
  BY DEF Return
<1>2. /\ busy = c /\ Active = {} /\ Awake = {}
      /\ claim = Helpers(req[c].n) + 1
  BY <1>1, WaitOver DEF RowsInv, JobInv, TallyInv
<1>3. job = req[c] /\ step = StepOf(req[c].n) /\ req[c].n \in Nat \ {0}
  BY <1>1, <1>2
  DEF RowsInv, JobInv, JobCurrent, Published, Holding, TallyInv, RequestsKept
<1>4. claim * step >= job.n /\ step \in Nat /\ claim \in Nat
  BY <1>2, <1>3, SlicesCover DEF RowsInv, JobInv, TallyInv, TypeOK, RunOK
<1>5. \A t \in Threads : pc[t] \notin {"slice", "rows", "copy"}
  <2>1. SUFFICES ASSUME NEW t \in Threads, pc[t] \in {"slice", "rows", "copy"}
                 PROVE  FALSE
    OBVIOUS
  <2>2. t \in Callers  BY <1>2, <2>1 DEF Active, InGather, Threads
  <2>3. t = c  BY <1>2, <2>1, <2>2, SliceBusy DEF RowsInv, JobInv
  <2>4. QED  BY <1>1, <2>1, <2>3
<1>6. ASSUME NEW k \in 0 .. job.n - 1
      PROVE  dst[k] = IF k \in job.owned THEN Row(job.id, k) ELSE Zero
  <2>1. RowOf(k)
    BY <1>1, <1>2, RowNow DEF Published, Holding
  <2>2. ~ToRead(k)
    <3>1. k \in Nat /\ k < job.n /\ claim * step \in Nat /\ job.n \in Nat
      BY <1>3, <1>4
    <3>2. ~(k >= claim * step)
      BY <1>4, <3>1
    <3>3. QED  BY <1>1, <1>2, <1>5, <3>2 DEF ToRead
  <2>3. QED  BY <1>1, <2>1, <2>2 DEF RowOf
<1>7. dst \in [0 .. job.n - 1 -> Cells]
  BY DEF RowsInv, JobInv, TallyInv, TypeOK, RunOK
<1>8. dst = [k \in 0 .. job.n - 1 |-> IF k \in job.owned THEN Row(job.id, k) ELSE Zero]
  BY <1>6, <1>7
<1>9. QED
  BY <1>3, <1>8 DEF Expected

LEMMA GatherStep == Regime /\ IInv /\ [Next]_vars => GatherComplete'
<1> SUFFICES ASSUME Regime, IInv, [Next]_vars PROVE GatherComplete'
  OBVIOUS
<1>1. RowsInv
  BY DEF IInv, RowsInv, JobInv, TallyInv
<1>2. CASE out' = out
  BY <1>2 DEF IInv, GatherComplete
<1>3. ASSUME NEW c \in Callers, Return(c) PROVE GatherComplete'
  <2>1. out' = [out EXCEPT ![c] = [status |-> "ok", job |-> req[c], rows |-> dst]]
    BY <1>3 DEF Return, Finish
  <2>2. dst = Expected(req[c])
    BY <1>1, <1>3, ReturnComplete
  <2>3. QED  BY <2>1, <2>2 DEF IInv, GatherComplete
<1>4. ASSUME NEW c \in Callers, Raise(c) PROVE GatherComplete'
  BY <1>4 DEF Raise, Finish, IInv, GatherComplete
<1>5. QED
  BY <1>2, <1>3, <1>4, NoCallerFault
  DEF Next, vars, callVars, CallerStep, WorkerStep, SliceStep, CloseStep, Call,
      AcquireBusy, Publish, ClearDone, ReleaseOne, BeginSlice, SkipRow, ReadBlock,
      CopyRow, ReadInPlace, EndSlice, WorkerWakes, WorkerStops, WorkerClaims,
      WorkerReadFails, Tally, CloseStop, CloseRelease, CloseFd, Served, IInv

-----------------------------------------------------------------------------
(* Whose error it is.                                                      *)

FaultsInv == JobInv /\ NumbersOwn /\ ErrorCurrent /\ ErrorsAreOwn

\* What a step keeps that fails no read and begins or ends no gather.
LEMMA SameFaults ==
    ASSUME FaultsInv, busy \in Callers \cup {NoCaller},
           calls' = calls, req' = req, out' = out, faults' = faults,
           error' = error, busy' = busy,
           \A c \in Callers : /\ pc'[c] = "idle" <=> pc[c] = "idle"
                              /\ pc'[c] \in {"queued", "publish"} <=> pc[c] \in {"queued", "publish"}
                              /\ pc'[c] \in Published <=> pc[c] \in Published
    PROVE  NumbersOwn' /\ ErrorCurrent' /\ ErrorsAreOwn'
<1>1. NumbersOwn'
  BY DEF FaultsInv, NumbersOwn
<1>2. ErrorCurrent'
  BY DEF FaultsInv, ErrorCurrent
<1>3. ErrorsAreOwn'
  BY DEF FaultsInv, ErrorsAreOwn
<1>4. QED  BY <1>1, <1>2, <1>3

LEMMA FaultsCall ==
    ASSUME FaultsInv, NEW c \in Callers, Call(c)
    PROVE  NumbersOwn' /\ ErrorCurrent' /\ ErrorsAreOwn'
<1> USE DEF FaultsInv, JobInv, TallyInv
<1>1. PICK r \in Requests :
        req' = [req EXCEPT ![c] = [id |-> calls + 1, n |-> r.n, owned |-> r.owned]]
  BY DEF Call
<1>2. /\ pc[c] = "idle" /\ pc' = [pc EXCEPT ![c] = "queued"]
      /\ calls' = calls + 1 /\ out' = out /\ faults' = faults
      /\ error' = error /\ busy' = busy
  BY DEF Call, GoTo, runVars, syncVars
<1>3. /\ calls \in Nat /\ req \in [Callers -> Jobs] /\ faults \subseteq Nat
      /\ pc \in [Threads -> CallerPCs \cup WorkerPCs] /\ c \in Threads
  BY DEF TypeOK, CallOK, RestOK, PcOK, Threads
<1>4. req'[c].id = calls + 1 /\ \A d \in Callers \ {c} : req'[d] = req[d]
  BY <1>1, <1>3
<1>5. pc'[c] = "queued" /\ \A d \in Callers \ {c} : pc'[d] = pc[d]
  BY <1>2, <1>3 DEF Threads
<1>6. \A d \in Callers : req[d].id \in Nat
  BY <1>3 DEF Jobs
<1>7. NumbersOwn'
  BY <1>2, <1>3, <1>4, <1>5, <1>6 DEF NumbersOwn
<1>8. \A d \in Callers : pc'[d] \in {"queued", "publish"} => req'[d].id \notin faults'
  BY <1>2, <1>3, <1>4, <1>5, <1>6 DEF NumbersOwn, ErrorCurrent
<1>9. busy # c
  BY <1>2 DEF BusyHeld, Holding
<1>10. (busy' \in Callers /\ pc'[busy'] \in Published) => (error' <=> req'[busy'].id \in faults')
  BY <1>2, <1>4, <1>5, <1>9 DEF ErrorCurrent
<1>11. ErrorsAreOwn'
  BY <1>2 DEF ErrorsAreOwn
<1>12. QED  BY <1>7, <1>8, <1>10, <1>11 DEF ErrorCurrent

LEMMA FaultsPublish ==
    ASSUME FaultsInv, NEW c \in Callers, Publish(c)
    PROVE  NumbersOwn' /\ ErrorCurrent' /\ ErrorsAreOwn'
<1> USE DEF FaultsInv, JobInv, TallyInv
<1>1. /\ pc[c] = "publish" /\ error' = FALSE
      /\ calls' = calls /\ req' = req /\ out' = out /\ faults' = faults /\ busy' = busy
      /\ \E s \in {"clear", "slice"} : pc' = [pc EXCEPT ![c] = s]
  BY DEF Publish, GoTo, callVars, ErrorAtStart
<1>2. /\ pc'[c] \in {"clear", "slice"}
      /\ \A d \in Callers \ {c} : pc'[d] = pc[d]
  BY <1>1 DEF TypeOK, PcOK, Threads
<1>3. busy = c
  BY <1>1 DEF BusyHeld, Holding
<1>4. NumbersOwn'
  BY <1>1, <1>2 DEF NumbersOwn
<1>5. ErrorCurrent'
  BY <1>1, <1>2, <1>3 DEF ErrorCurrent
<1>6. ErrorsAreOwn'
  BY <1>1 DEF ErrorsAreOwn
<1>7. QED  BY <1>4, <1>5, <1>6

LEMMA FaultsReadFails ==
    ASSUME FaultsInv, NEW w \in Workers, WorkerReadFails(w)
    PROVE  NumbersOwn' /\ ErrorCurrent' /\ ErrorsAreOwn'
<1> USE DEF FaultsInv
<1>1. /\ pc[w] = "rows" /\ error' = TRUE /\ faults' = faults \cup {loc[w].job.id}
      /\ calls' = calls /\ req' = req /\ out' = out /\ busy' = busy
      /\ pc' = [pc EXCEPT ![w] = "tally"]
  BY DEF WorkerReadFails, ReadFails, AtRow, GoTo, callVars, runVars
<1>2. busy \in Callers /\ pc[busy] \in Published
  BY <1>1, SliceBusy DEF JobInv, Threads
<1>3. loc[w].job.id = req[busy].id
  BY <1>1, <1>2 DEF JobInv, LocalsCurrent, JobCurrent, Threads
<1>4. \A d \in Callers : pc'[d] = pc[d]
  BY <1>1, ThreadsAssumption DEF JobInv, TallyInv, TypeOK, PcOK, Threads
<1>5. pc[busy] # "idle"
  BY <1>2 DEF Published, Holding
<1>6. NumbersOwn'
  <2>1. \A f \in faults' : f =< calls'
    BY <1>1, <1>2, <1>3, <1>5 DEF NumbersOwn
  <2>2. QED  BY <2>1, <1>1, <1>4 DEF NumbersOwn
<1>7. \A d \in Callers : pc[d] \in {"queued", "publish"} => req[d].id \notin faults'
  <2>1. SUFFICES ASSUME NEW d \in Callers, pc[d] \in {"queued", "publish"}
                 PROVE  req[d].id \notin faults'
    OBVIOUS
  <2>2. d # busy  BY <1>2, <2>1 DEF Published, Holding
  <2>3. req[d].id # req[busy].id  BY <1>2, <1>5, <2>1, <2>2 DEF NumbersOwn
  <2>4. QED  BY <1>1, <1>3, <2>1, <2>3 DEF ErrorCurrent
<1>8. ErrorCurrent'
  BY <1>1, <1>3, <1>4, <1>7 DEF ErrorCurrent
<1>9. ErrorsAreOwn'
  BY <1>1, <1>2, <1>3, <1>5 DEF ErrorsAreOwn, NumbersOwn
<1>10. QED  BY <1>6, <1>8, <1>9

LEMMA FaultsEnd ==
    ASSUME FaultsInv, NEW c \in Callers, Return(c) \/ Raise(c)
    PROVE  NumbersOwn' /\ ErrorCurrent' /\ ErrorsAreOwn'
<1> USE DEF FaultsInv, JobInv, TallyInv
<1>1. PICK status, rows :
        /\ status \in {"ok", "raised"}
        /\ Finish(c, status, rows)
        /\ status = "ok" => ~error
        /\ status = "raised" => error
  BY DEF Return, Raise
<1>2. /\ pc[c] = "wait" /\ pc' = [pc EXCEPT ![c] = "idle"]
      /\ out' = [out EXCEPT ![c] = [status |-> status, job |-> req[c], rows |-> rows]]
      /\ busy' = NoCaller /\ calls' = calls /\ req' = req /\ faults' = faults
  BY <1>1 DEF Return, Raise, Finish, GoTo
<1>3. busy = c /\ pc[c] \in Published /\ NoCaller \notin Callers
  BY <1>2, ThreadsAssumption DEF BusyHeld, Published, Holding, Threads
<1>4. /\ pc'[c] = "idle" /\ \A d \in Callers \ {c} : pc'[d] = pc[d]
      /\ out'[c].status = status /\ out'[c].job = req[c]
      /\ \A d \in Callers \ {c} : out'[d] = out[d]
  BY <1>2 DEF TypeOK, PcOK, CallOK, Threads
<1>5. req[c].id \in Nat /\ calls \in Nat
  BY DEF TypeOK, CallOK, Jobs
<1>6. NumbersOwn'
  BY <1>2, <1>4, <1>5 DEF NumbersOwn
<1>7. ErrorCurrent'
  BY <1>2, <1>3, <1>4 DEF ErrorCurrent
<1>8. status = "ok" => req[c].id \notin faults
  BY <1>1, <1>3 DEF ErrorCurrent
<1>9. status = "raised" => req[c].id \in faults
  BY <1>1, <1>3 DEF ErrorCurrent
<1>10. ErrorsAreOwn'
  BY <1>1, <1>2, <1>4, <1>8, <1>9 DEF ErrorsAreOwn
<1>11. QED  BY <1>6, <1>7, <1>10

LEMMA FaultsStep ==
    Regime /\ FaultsInv /\ [Next]_vars => NumbersOwn' /\ ErrorCurrent' /\ ErrorsAreOwn'
<1> SUFFICES ASSUME Regime, FaultsInv, [Next]_vars
             PROVE  NumbersOwn' /\ ErrorCurrent' /\ ErrorsAreOwn'
  OBVIOUS
<1> DEFINE Kept == NumbersOwn' /\ ErrorCurrent' /\ ErrorsAreOwn'
<1>t. /\ pc \in [Threads -> CallerPCs \cup WorkerPCs]
      /\ Callers \subseteq Threads /\ Workers \subseteq Threads
      /\ busy \in Callers \cup {NoCaller}
  BY DEF FaultsInv, JobInv, TallyInv, TypeOK, PcOK, RunOK, Threads
<1>1. ASSUME NEW c \in Callers, AcquireBusy(c) PROVE Kept
  <2>1. /\ pc[c] = "queued" /\ pc' = [pc EXCEPT ![c] = "publish"]
        /\ busy = NoCaller /\ busy' = c
        /\ calls' = calls /\ req' = req /\ out' = out /\ faults' = faults /\ error' = error
    BY <1>1 DEF AcquireBusy, GoTo, callVars, syncVars
  <2>2. pc'[c] = "publish" /\ \A d \in Callers \ {c} : pc'[d] = pc[d]
    BY <1>t, <2>1
  <2>3. NumbersOwn'  BY <2>1, <2>2 DEF FaultsInv, NumbersOwn
  <2>4. ErrorCurrent'  BY <2>1, <2>2 DEF FaultsInv, ErrorCurrent, Published, Holding
  <2>5. ErrorsAreOwn'  BY <2>1 DEF FaultsInv, ErrorsAreOwn
  <2>6. QED  BY <2>3, <2>4, <2>5
<1>2. ASSUME NEW c \in Callers, ClearDone(c) \/ ReleaseOne(c) PROVE Kept
  <2>1. /\ pc[c] \in {"clear", "wake"}
        /\ \E s \in {"wake", "slice"} : pc' = [pc EXCEPT ![c] = s]
        /\ calls' = calls /\ req' = req /\ out' = out /\ faults' = faults
        /\ error' = error /\ busy' = busy
    BY <1>2 DEF ClearDone, ReleaseOne, GoTo, callVars
  <2>2. pc'[c] \in {"wake", "slice"} /\ \A d \in Callers \ {c} : pc'[d] = pc[d]
    BY <1>t, <2>1
  <2>3. QED  BY <1>t, <2>1, <2>2, SameFaults DEF Published, Holding
<1>3. ASSUME NEW t \in Threads, SliceStep(t) PROVE Kept
  <2>1. /\ pc[t] \in {"slice", "rows", "copy"}
        /\ \/ pc' = pc
           \/ \E s \in {"rows", "copy"} : pc' = [pc EXCEPT ![t] = s]
           \/ pc' = [pc EXCEPT ![t] = IF t \in Callers THEN "wait" ELSE "tally"]
        /\ calls' = calls /\ req' = req /\ out' = out /\ faults' = faults
        /\ error' = error /\ busy' = busy
    BY <1>3 DEF SliceStep, BeginSlice, SkipRow, ReadBlock, CopyRow, ReadInPlace,
              EndSlice, AtRow, GoTo, callVars, runVars, syncVars
  <2>2. \A d \in Callers :
          \/ pc'[d] = pc[d]
          \/ /\ pc[d] \in {"slice", "rows", "copy"}
             /\ pc'[d] \in {"rows", "copy", "wait"}
    BY <1>t, <2>1
  <2>3. \A d \in Callers :
          /\ pc'[d] = "idle" <=> pc[d] = "idle"
          /\ pc'[d] \in {"queued", "publish"} <=> pc[d] \in {"queued", "publish"}
          /\ pc'[d] \in Published <=> pc[d] \in Published
    BY <2>2 DEF Published, Holding
  <2>4. QED  BY <1>t, <2>1, <2>3, SameFaults
<1>4. ASSUME NEW w \in Workers, WorkerStep(w), ~SliceStep(w), ~WorkerReadFails(w)
      PROVE  Kept
  <2>1. /\ \E s \in WorkerPCs : pc' = [pc EXCEPT ![w] = s]
        /\ calls' = calls /\ req' = req /\ out' = out /\ faults' = faults
        /\ error' = error /\ busy' = busy
    BY <1>4 DEF WorkerStep, WorkerWakes, WorkerStops, WorkerClaims, Tally, GoTo,
              WorkerPCs, callVars, runVars, syncVars
  <2>2. \A d \in Callers : pc'[d] = pc[d]
    BY <1>t, <2>1, ThreadsAssumption
  <2>3. QED  BY <1>t, <2>1, <2>2, SameFaults
<1>5. CASE CloseStep \/ UNCHANGED vars
  <2>1. /\ pc' = pc /\ calls' = calls /\ req' = req /\ out' = out /\ faults' = faults
        /\ error' = error /\ busy' = busy
    BY <1>5 DEF CloseStep, CloseStop, CloseRelease, CloseFd, vars, callVars, runVars, syncVars
  <2>2. QED  BY <1>t, <2>1, SameFaults
<1>6. QED
  BY <1>1, <1>2, <1>3, <1>4, <1>5, FaultsCall, FaultsPublish, FaultsReadFails,
     FaultsEnd, NoCallerFault, <1>t
  DEF Next, CallerStep, WorkerStep, Served, FaultsInv, JobInv, TallyInv

-----------------------------------------------------------------------------
(* The invariant and what it gives.                                        *)

LEMMA IInvInit == Regime /\ Init => IInv
<1> SUFFICES ASSUME Regime, Init PROVE IInv
  OBVIOUS
<1>1. TypeOK /\ RequestsKept /\ WakesKept
  BY TypeInit
<1>2. IsOpen
  BY DEF Init, IsOpen
<1>3. \A t \in Threads : pc[t] \in {"idle", "parked"}
  BY DEF Init
<1>4. BusyHeld
  BY <1>3, ThreadsAssumption DEF Init, BusyHeld, Holding, Threads
<1>5. Quiet
  BY <1>3 DEF Init, Quiet, Active, InGather, Threads
<1>6. busy \notin Callers
  BY ThreadsAssumption DEF Init, Threads
<1>7. Count /\ JobCurrent /\ RowsAccounted
  BY <1>6 DEF Count, JobCurrent, RowsAccounted
<1>8. LocalsCurrent
  BY <1>3 DEF LocalsCurrent
<1>9. GatherComplete /\ ErrorsAreOwn
  BY DEF Init, GatherComplete, ErrorsAreOwn
<1>10. NumbersOwn /\ ErrorCurrent
  BY <1>3, <1>6 DEF Init, NumbersOwn, ErrorCurrent, Threads
<1>11. QED
  BY <1>1, <1>2, <1>4, <1>5, <1>7, <1>8, <1>9, <1>10 DEF IInv

LEMMA IInvStep == Regime /\ IInv /\ [Next]_vars => IInv'
<1> SUFFICES ASSUME Regime, IInv, [Next]_vars PROVE IInv'
  OBVIOUS
<1>1. RowsInv
  BY DEF IInv, RowsInv, JobInv, TallyInv
<1>2. TypeOK' /\ RequestsKept' /\ WakesKept' /\ IsOpen' /\ BusyHeld'
  BY TypeStep, RequestsStep, WakesStep, OpenStep, BusyStep DEF IInv
<1>3. Quiet' /\ Count'
  BY <1>1, CountStep DEF RowsInv, JobInv
<1>4. JobCurrent' /\ LocalsCurrent'
  BY <1>1, JobStep, LocalsStep DEF RowsInv
<1>5. RowsAccounted'
  BY <1>1, RowsStep
<1>6. GatherComplete'
  BY GatherStep
<1>7. NumbersOwn' /\ ErrorCurrent' /\ ErrorsAreOwn'
  BY <1>1, FaultsStep DEF IInv, FaultsInv, RowsInv
<1>8. QED
  BY <1>2, <1>3, <1>4, <1>5, <1>6, <1>7 DEF IInv

\* The invariant of the regime: no caller's own read fails and the table is
\* not closed under a gather.
THEOREM Invariance ==
    ASSUME Regime
    PROVE  Spec => []IInv
<1>1. Init => IInv
  BY IInvInit
<1>2. IInv /\ [Next]_vars => IInv'
  BY IInvStep
<1>3. QED
  BY <1>1, <1>2, PTL DEF Spec

\* Whatever reads fail in the workers and however the threads interleave, a
\* gather that returns has all its rows, with any number of workers, callers
\* and rows: no silent zeros (lines 256-257 and 307-309).
THEOREM NoSilentZeros ==
    ASSUME Regime
    PROVE  Spec => []GatherComplete
<1>1. IInv => GatherComplete
  BY DEF IInv
<1>2. QED
  BY <1>1, Invariance, PTL

\* In the regime run() raises exactly for its own failed reads: no worker's
\* error is lost (lines 266-269 and 305-309), none is raised a second time by
\* a later gather (line 299).
THEOREM OwnErrors ==
    ASSUME Regime
    PROVE  Spec => []ErrorsAreOwn
<1>1. IInv => ErrorsAreOwn
  BY DEF IInv
<1>2. QED
  BY <1>1, Invariance, PTL

\* In the regime gathers do not overlap, as the docstring of _ReadPool says:
\* all threads at work serve the caller that holds `_busy`.
THEOREM OneGather ==
    ASSUME Regime
    PROVE  Spec => []OneGatherAtATime
<1>1. ASSUME IInv PROVE OneGatherAtATime
  <2>1. JobInv
    BY <1>1 DEF IInv, JobInv, TallyInv
  <2>2. ASSUME NEW t \in Threads, InGather(t)
        PROVE  busy \in Callers /\ pc[busy] \in {"wake", "slice", "rows", "copy", "wait"}
    <3>1. CASE t \in Workers
      <4>1. t \in Active  BY <2>2, <3>1 DEF Active
      <4>2. QED
        BY <2>1, <4>1, ActiveBusy DEF JobInv, TallyInv, Published, Holding
    <3>2. CASE t \in Callers
      <4>1. pc[t] \in {"slice", "rows", "copy"}
        BY <2>1, <2>2, <3>2 DEF InGather, JobInv, TallyInv, TypeOK, PcOK, CallerPCs
      <4>2. QED
        BY <2>1, <4>1, SliceBusy DEF JobInv, Published, Holding
    <3>3. QED  BY <3>1, <3>2 DEF Threads
  <2>3. ASSUME NEW t \in Threads, pc[t] \in {"rows", "copy"}
        PROVE  loc[t].job = req[busy]
    BY <2>1, <2>3, SliceBusy DEF JobInv, LocalsCurrent, JobCurrent
  <2>4. QED  BY <2>2, <2>3 DEF OneGatherAtATime
<1>2. QED
  BY <1>1, Invariance, PTL

-----------------------------------------------------------------------------
(* Slices of a gather do not overlap: on top of the inductive invariant.   *)

InSlice(t) == pc[t] \in {"slice", "rows", "copy"}

\* A worker's slice was claimed in this gather, and is not the caller's.
ClaimedOf(t) == (t \in Workers /\ InSlice(t)) => part[t] >= 1 /\ part[t] < claim

\* The rows a thread has left lie in its slice.
WithinOf(t) ==
    pc[t] \in {"rows", "copy"} =>
        part[t] * step =< loc[t].k /\ loc[t].hi =< part[t] * step + step

ClaimsApart ==
    \A v, w \in Workers : (v # w /\ InSlice(v) /\ InSlice(w)) => part[v] # part[w]

PartsApart == (\A t \in Threads : ClaimedOf(t) /\ WithinOf(t)) /\ ClaimsApart

SlicesInv == JobInv /\ PartsApart

-----------------------------------------------------------------------------
\* A step that publishes nothing, claims nothing and begins no slice.
LEMMA SamePart ==
    ASSUME NEW u \in Threads, ClaimedOf(u), WithinOf(u),
           step' = step, claim' = claim, part'[u] = part[u],
           pc'[u] \in {"slice", "rows", "copy"} => pc[u] \in {"slice", "rows", "copy"},
           pc'[u] \in {"rows", "copy"} => pc[u] \in {"rows", "copy"} /\ loc'[u] = loc[u]
    PROVE  ClaimedOf(u)' /\ WithinOf(u)'
BY DEF ClaimedOf, WithinOf, InSlice

\* Nobody is in a slice while a gather is published.
LEMMA PublishAlone ==
    ASSUME JobInv, NEW c \in Callers, Publish(c), NEW u \in Threads
    PROVE  ~InSlice(u) /\ (u \in Workers => ~InSlice(u)') /\ pc'[u] \notin {"rows", "copy"}
<1>1. busy = c  BY DEF Publish, JobInv, TallyInv, BusyHeld, Holding
<1>2. pc[busy] \notin Published  BY <1>1 DEF Publish, Published
<1>3. ~InSlice(u)  BY <1>2, SliceBusy DEF JobInv, InSlice
<1>4. QED
  BY <1>3, ThreadsAssumption
  DEF InSlice, Publish, GoTo, JobInv, TallyInv, TypeOK, PcOK, Threads

\* The step of the first two conjuncts, for one thread.
LEMMA PartStep ==
    ASSUME Regime, SlicesInv, [Next]_vars, NEW u \in Threads
    PROVE  ClaimedOf(u)' /\ WithinOf(u)'
<1> DEFINE Kept == ClaimedOf(u)' /\ WithinOf(u)'
<1>0. ClaimedOf(u) /\ WithinOf(u)
  BY DEF SlicesInv, PartsApart
<1>t. /\ pc \in [Threads -> CallerPCs \cup WorkerPCs]
      /\ part \in [Threads -> Nat] /\ step \in Nat /\ claim \in Nat
      /\ loc \in [Threads -> [job : Jobs, k : Nat, hi : Nat]]
      /\ job \in Jobs
      /\ Callers \subseteq Threads /\ Workers \subseteq Threads
  BY DEF SlicesInv, JobInv, TallyInv, TypeOK, PcOK, SliceOK, RunOK, Threads
<1>1. ASSUME NEW c \in Callers,
             Call(c) \/ AcquireBusy(c) \/ ClearDone(c) \/ ReleaseOne(c)
             \/ Return(c) \/ Raise(c)
      PROVE  Kept
  <2>1. /\ step' = step /\ claim' = claim /\ part' = part /\ loc' = loc
        /\ \E s \in {"queued", "publish", "wake", "slice", "idle"} :
             pc' = [pc EXCEPT ![c] = s]
    BY <1>1 DEF Call, AcquireBusy, ClearDone, ReleaseOne, Return, Raise, Finish,
       GoTo, runVars, sliceVars
  <2>2. pc'[u] \in {"rows", "copy"} => pc[u] \in {"rows", "copy"}
    BY <1>t, <2>1
  <2>3. CASE u = c
    BY <1>0, <1>t, <2>1, <2>2, <2>3, ThreadsAssumption DEF ClaimedOf, WithinOf
  <2>4. CASE u # c
    BY <1>0, <1>t, <2>1, <2>4, SamePart
  <2>5. QED  BY <2>3, <2>4
<1>2. ASSUME NEW c \in Callers, Publish(c) PROVE Kept
  BY <1>2, PublishAlone DEF SlicesInv, ClaimedOf, WithinOf
<1>3. ASSUME NEW w \in Workers,
             WorkerWakes(w) \/ WorkerStops(w) \/ Tally(w) \/ WorkerReadFails(w)
      PROVE  Kept
  <2>1. /\ step' = step /\ claim' = claim /\ part' = part
        /\ u # w => loc'[u] = loc[u]
        /\ \E s \in {"awake", "exited", "parked", "tally"} : pc' = [pc EXCEPT ![w] = s]
    BY <1>3, <1>t DEF WorkerWakes, WorkerStops, Tally, WorkerReadFails, ReadFails,
       GoTo, runVars, sliceVars
  <2>2. pc'[u] \in {"slice", "rows", "copy"} => u # w /\ pc'[u] = pc[u]
    BY <1>t, <2>1
  <2>3. QED  BY <1>0, <2>1, <2>2, SamePart
<1>4. ASSUME NEW w \in Workers, WorkerClaims(w) PROVE Kept
  <2>1. /\ pc[w] = "awake" /\ pc' = [pc EXCEPT ![w] = "slice"]
        /\ step' = step /\ claim' = claim + 1 /\ loc' = loc
        /\ part' = [part EXCEPT ![w] = claim]
    BY <1>4 DEF WorkerClaims, ClaimedPart, GoTo
  <2>2. w \in Active  BY <2>1 DEF Active, InGather
  <2>3. claim >= 1
    BY <2>2, ActiveBusy DEF SlicesInv, JobInv, TallyInv, Count
  <2>4. CASE u = w
    BY <1>t, <2>1, <2>3, <2>4 DEF ClaimedOf, WithinOf
  <2>5. CASE u # w
    BY <1>0, <1>t, <2>1, <2>5 DEF ClaimedOf, WithinOf, InSlice
  <2>6. QED  BY <2>4, <2>5
<1>5. ASSUME NEW t \in Threads, SliceStep(t), t # u PROVE Kept
  <2>1. /\ step' = step /\ claim' = claim /\ part' = part
        /\ loc'[u] = loc[u] /\ pc'[u] = pc[u]
    BY <1>5, <1>t DEF SliceStep, BeginSlice, SkipRow, ReadBlock, CopyRow, ReadInPlace,
       EndSlice, NextRow, GoTo, runVars, sliceVars
  <2>2. QED  BY <1>0, <2>1, SamePart
<1>6. CASE BeginSlice(u)
  <2>1. /\ pc[u] = "slice" /\ pc'[u] = "rows"
        /\ step' = step /\ claim' = claim /\ part' = part
        /\ loc'[u].k = part[u] * step
        /\ loc'[u].hi = MinOf(part[u] * step + step, job.n)
    BY <1>6, <1>t DEF BeginSlice, GoTo, runVars
  <2>2. part[u] * step \in Nat /\ job.n \in Nat
    BY <1>t DEF Jobs
  <2>3. loc'[u].hi =< part[u] * step + step
    BY <1>t, <2>1, <2>2 DEF MinOf
  <2>4. QED  BY <1>0, <2>1, <2>2, <2>3 DEF ClaimedOf, WithinOf, InSlice
<1>7. CASE SkipRow(u) \/ ReadBlock(u) \/ CopyRow(u) \/ ReadInPlace(u)
  <2>1. /\ pc[u] \in {"rows", "copy"} /\ pc'[u] \in {"rows", "copy"}
        /\ step' = step /\ claim' = claim /\ part' = part
        /\ loc'[u].k \in {loc[u].k, loc[u].k + 1} /\ loc'[u].hi = loc[u].hi
    BY <1>7, <1>t DEF SkipRow, ReadBlock, CopyRow, ReadInPlace, AtRow, NextRow, GoTo,
       runVars, sliceVars
  <2>2. part[u] * step \in Nat /\ loc[u].k \in Nat
    BY <1>t
  <2>3. part[u] * step =< loc'[u].k
    BY <1>0, <2>1, <2>2 DEF WithinOf
  <2>4. QED  BY <1>0, <2>1, <2>3 DEF ClaimedOf, WithinOf, InSlice
<1>8. CASE EndSlice(u)
  BY <1>8, <1>t DEF EndSlice, GoTo, ClaimedOf, WithinOf, InSlice
<1>9. CASE CloseStep \/ UNCHANGED vars
  <2>1. step' = step /\ claim' = claim /\ part' = part /\ loc' = loc /\ pc' = pc
    BY <1>9 DEF CloseStep, CloseStop, CloseRelease, CloseFd, vars, runVars, sliceVars
  <2>2. QED  BY <1>0, <2>1, SamePart
<1>10. QED
  BY <1>1, <1>2, <1>3, <1>4, <1>5, <1>6, <1>7, <1>8, <1>9, <1>t, NoCallerFault
  DEF Next, CallerStep, WorkerStep, SliceStep, Served, SlicesInv, JobInv, TallyInv

\* Two workers never claim the same slice: the claim is one above all those
\* already drawn.
LEMMA ApartStep ==
    ASSUME Regime, SlicesInv, [Next]_vars
    PROVE  ClaimsApart'
<1>t. /\ pc \in [Threads -> CallerPCs \cup WorkerPCs]
      /\ part \in [Threads -> Nat] /\ claim \in Nat
      /\ Callers \subseteq Threads /\ Workers \subseteq Threads
      /\ Callers \cap Workers = {}
  BY ThreadsAssumption DEF SlicesInv, JobInv, TallyInv, TypeOK, PcOK, SliceOK, RunOK, Threads
<1>1. ASSUME part' = part,
             \A v \in Workers : pc'[v] \in {"slice", "rows", "copy"}
                                  => pc[v] \in {"slice", "rows", "copy"}
      PROVE  ClaimsApart'
  BY <1>1 DEF SlicesInv, PartsApart, ClaimsApart, InSlice
<1>2. ASSUME NEW w \in Workers, WorkerClaims(w) PROVE ClaimsApart'
  <2>1. /\ pc' = [pc EXCEPT ![w] = "slice"] /\ part' = [part EXCEPT ![w] = claim]
    BY <1>2 DEF WorkerClaims, ClaimedPart, GoTo
  <2>2. \A v \in Workers \ {w} : InSlice(v)' => part'[v] = part[v] /\ part[v] < claim
    BY <1>t, <2>1 DEF SlicesInv, PartsApart, ClaimedOf, InSlice
  <2>3. part'[w] = claim
    BY <1>t, <2>1
  <2>4. \A v, u \in Workers \ {w} :
          (v # u /\ InSlice(v)' /\ InSlice(u)') => part'[v] # part'[u]
    BY <1>t, <2>1 DEF SlicesInv, PartsApart, ClaimsApart, InSlice
  <2>5. QED  BY <1>t, <2>2, <2>3, <2>4 DEF ClaimsApart
<1>3. ASSUME NEW w \in Workers, WorkerStep(w), ~WorkerClaims(w) PROVE ClaimsApart'
  <2>1. /\ part' = part
        /\ \/ pc' = pc
           \/ \E s \in {"awake", "exited", "parked", "tally"} : pc' = [pc EXCEPT ![w] = s]
           \/ /\ pc[w] \in {"slice", "rows", "copy"}
              /\ \E s \in {"rows", "copy", "tally"} : pc' = [pc EXCEPT ![w] = s]
    BY <1>3, <1>t DEF WorkerStep, SliceStep, WorkerWakes, WorkerStops, Tally, WorkerReadFails,
       ReadFails, BeginSlice, SkipRow, ReadBlock, CopyRow, ReadInPlace, EndSlice, AtRow,
       GoTo, runVars, sliceVars
  <2>2. QED  BY <1>1, <1>t, <2>1
<1>4. ASSUME NEW c \in Callers, Call(c) \/ CallerStep(c) PROVE ClaimsApart'
  <2>1. part' = part /\ \A w \in Workers : pc'[w] = pc[w]
    <3>1. CASE SliceStep(c)
      BY <1>t, <3>1 DEF SliceStep, BeginSlice, SkipRow, ReadBlock, CopyRow, ReadInPlace,
         EndSlice, GoTo, sliceVars
    <3>2. CASE Call(c) \/ AcquireBusy(c) \/ Publish(c) \/ ClearDone(c) \/ ReleaseOne(c)
      BY <1>t, <3>2 DEF Call, AcquireBusy, Publish, ClearDone, ReleaseOne, GoTo, sliceVars
    <3>3. CASE CallerReadFails(c) \/ Return(c) \/ Raise(c)
      BY <1>t, <3>3 DEF CallerReadFails, Return, Raise, Finish, GoTo, sliceVars
    <3>4. QED  BY <1>4, <3>1, <3>2, <3>3 DEF CallerStep
  <2>2. QED  BY <1>1, <2>1
<1>5. CASE CloseStep \/ UNCHANGED vars
  BY <1>1, <1>5 DEF CloseStep, CloseStop, CloseRelease, CloseFd, vars, sliceVars
<1>6. QED
  BY <1>2, <1>3, <1>4, <1>5 DEF Next, Served

-----------------------------------------------------------------------------
\* Slice p ends where slice p + 1 begins at the latest.
LEMMA SliceOrder ==
    ASSUME NEW p \in Nat, NEW q \in Nat, NEW s \in Nat, p < q
    PROVE  p * s + s =< q * s
<1>1. PICK d \in Nat : q = p + 1 + d
  <2>1. q - p - 1 \in Nat /\ q = p + 1 + (q - p - 1)  OBVIOUS
  <2>2. QED  BY <2>1
<1>2. q * s = p * s + s + d * s
  BY <1>1
<1>3. d * s \in Nat /\ p * s \in Nat
  OBVIOUS
<1>4. QED  BY <1>2, <1>3

\* Threads in slices have slices of their own: the caller slice 0, the
\* workers those they claimed.
LEMMA OwnPart ==
    ASSUME SlicesInv, NEW t \in Threads, NEW u \in Threads, t # u,
           InSlice(t), InSlice(u)
    PROVE  part[t] # part[u]
<1> USE DEF SlicesInv, PartsApart, ClaimedOf, InSlice
<1>0. part \in [Threads -> Nat]
  BY DEF JobInv, TallyInv, TypeOK, SliceOK
<1>1. CASE t \in Callers /\ u \in Callers
  BY <1>1, SliceBusy DEF JobInv
<1>2. CASE t \in Workers /\ u \in Workers
  BY <1>2 DEF ClaimsApart
<1>3. \A c \in Callers : part[c] = 0
  BY DEF JobInv, TallyInv, WakesKept
<1>4. \A w \in Workers : InSlice(w) => part[w] >= 1
  BY DEF Threads
<1>5. QED  BY <1>0, <1>1, <1>2, <1>3, <1>4 DEF Threads

LEMMA ApartRows == SlicesInv => RowsNotShared
<1> SUFFICES ASSUME SlicesInv, NEW t \in Threads, NEW u \in Threads, t # u,
                    pc[t] \in {"rows", "copy"}, pc[u] \in {"rows", "copy"}
             PROVE  (loc[t].k .. loc[t].hi - 1) \cap (loc[u].k .. loc[u].hi - 1) = {}
  BY DEF RowsNotShared
<1>1. /\ part[t] \in Nat /\ part[u] \in Nat /\ step \in Nat
      /\ loc[t].k \in Nat /\ loc[t].hi \in Nat /\ loc[u].k \in Nat /\ loc[u].hi \in Nat
  BY DEF SlicesInv, JobInv, TallyInv, TypeOK, SliceOK, RunOK
<1>2. part[t] # part[u]
  BY OwnPart DEF InSlice
<1>3. /\ part[t] * step =< loc[t].k /\ loc[t].hi =< part[t] * step + step
      /\ part[u] * step =< loc[u].k /\ loc[u].hi =< part[u] * step + step
  BY DEF SlicesInv, PartsApart, WithinOf
<1>4. part[t] * step \in Nat /\ part[u] * step \in Nat
  BY <1>1
<1>5. CASE part[t] < part[u]
  <2>1. part[t] * step + step =< part[u] * step
    BY <1>1, <1>5, SliceOrder
  <2> DEFINE x == part[t] * step
             y == part[u] * step
  <2>2. x + step =< y /\ loc[t].hi =< x + step /\ y =< loc[u].k /\ x \in Nat /\ y \in Nat
    BY <1>3, <1>4, <2>1
  <2> HIDE DEF x, y
  <2>3. loc[t].hi =< loc[u].k
    BY <1>1, <2>2
  <2>4. QED  BY <1>1, <2>3
<1>6. CASE part[u] < part[t]
  <2>1. part[u] * step + step =< part[t] * step
    BY <1>1, <1>6, SliceOrder
  <2> DEFINE x == part[u] * step
             y == part[t] * step
  <2>2. x + step =< y /\ loc[u].hi =< x + step /\ y =< loc[t].k /\ x \in Nat /\ y \in Nat
    BY <1>3, <1>4, <2>1
  <2> HIDE DEF x, y
  <2>3. loc[u].hi =< loc[t].k
    BY <1>1, <2>2
  <2>4. QED  BY <1>1, <2>3
<1>7. QED  BY <1>1, <1>2, <1>5, <1>6

\* In the regime no two threads are ever on the same row of a result, for
\* any number of threads and rows: claims are drawn from one counter, new
\* for each gather (lines 297 and 324).
THEOREM RowsApart ==
    ASSUME Regime
    PROVE  Spec => []RowsNotShared
<1>1. Init => PartsApart
  BY ThreadsAssumption DEF Init, PartsApart, ClaimedOf, WithinOf, ClaimsApart, InSlice, Threads
<1>2. IInv /\ PartsApart => SlicesInv
  BY DEF IInv, SlicesInv, JobInv, TallyInv
<1>3. IInv /\ PartsApart /\ [Next]_vars => PartsApart'
  <2> SUFFICES ASSUME IInv, PartsApart, [Next]_vars PROVE PartsApart'
    OBVIOUS
  <2>1. \A u \in Threads : ClaimedOf(u)' /\ WithinOf(u)'
    BY <1>2, PartStep
  <2>2. ClaimsApart'
    BY <1>2, ApartStep
  <2>3. QED  BY <2>1, <2>2 DEF PartsApart
<1>4. SlicesInv => RowsNotShared
  BY ApartRows
<1>5. QED
  BY <1>1, <1>2, <1>3, <1>4, Invariance, PTL DEF Spec

-----------------------------------------------------------------------------
(***************************************************************************)
(* ReadPool implements GatherContract in the regime: a step of the pool is *)
(* the step of the contract that its caller sees, or one the caller does   *)
(* not see.                                                                *)
(***************************************************************************)

\* A step that begins or ends no gather and fails no read is not seen.
LEMMA Unseen ==
    ASSUME calls' = calls, req' = req, out' = out, faults' = faults,
           \A c \in Callers : pc'[c] = "idle" <=> pc[c] = "idle"
    PROVE  UNCHANGED Promise!contractVars
<1>1. {c \in Callers : pc'[c] # "idle"} = {c \in Callers : pc[c] # "idle"}
  OBVIOUS
<1>2. QED  BY <1>1 DEF Promise!contractVars

LEMMA InitMaps == Init => Promise!ContractInit
<1> SUFFICES ASSUME Init PROVE Promise!ContractInit
  OBVIOUS
<1>1. {c \in Callers : pc[c] # "idle"} = {}
  BY DEF Init, Threads
<1>2. QED
  BY <1>1 DEF Init, Promise!ContractInit, Promise!Nothing, NoJob

LEMMA CallAsks ==
    ASSUME IInv, NEW c \in Callers, Call(c)
    PROVE  Promise!Ask(c)
<1>1. pc[c] = "idle" /\ pc' = [pc EXCEPT ![c] = "queued"]
  BY DEF Call, GoTo
<1>2. {d \in Callers : pc'[d] # "idle"} = {d \in Callers : pc[d] # "idle"} \cup {c}
  BY <1>1 DEF IInv, TypeOK, PcOK, Threads
<1>3. QED
  BY <1>1, <1>2 DEF Call, Promise!Ask

\* A caller that leaves run() is no longer served.
LEMMA EndServes ==
    ASSUME IInv, NEW c \in Callers, pc[c] = "wait", pc' = [pc EXCEPT ![c] = "idle"]
    PROVE  /\ c \in {d \in Callers : pc[d] # "idle"}
           /\ {d \in Callers : pc'[d] # "idle"} = {d \in Callers : pc[d] # "idle"} \ {c}
BY DEF IInv, TypeOK, PcOK, Threads

LEMMA ReturnDelivers ==
    ASSUME IInv, NEW c \in Callers, Return(c)
    PROVE  Promise!Deliver(c)
<1>1. RowsInv
  BY DEF IInv, RowsInv, JobInv, TallyInv
<1>2. dst = Promise!Rows(req[c])
  BY <1>1, ReturnComplete DEF Expected, Row, Zero, Promise!Rows
<1>3. /\ pc[c] = "wait" /\ ~error /\ pc' = [pc EXCEPT ![c] = "idle"]
      /\ out' = [out EXCEPT ![c] = [status |-> "ok", job |-> req[c], rows |-> dst]]
      /\ calls' = calls /\ req' = req /\ faults' = faults
  BY DEF Return, Finish, GoTo
<1>4. busy = c /\ pc[busy] \in Published
  BY <1>3 DEF IInv, BusyHeld, Published, Holding
<1>5. req[c].id \notin faults
  BY <1>3, <1>4 DEF IInv, ErrorCurrent
<1>6. QED
  BY <1>2, <1>3, <1>5, EndServes DEF Promise!Deliver, Promise!End

LEMMA RaiseRefuses ==
    ASSUME IInv, NEW c \in Callers, Raise(c)
    PROVE  Promise!Refuse(c)
<1>1. /\ pc[c] = "wait" /\ error /\ pc' = [pc EXCEPT ![c] = "idle"]
      /\ out' = [out EXCEPT ![c] = [status |-> "raised", job |-> req[c], rows |-> <<>>]]
      /\ calls' = calls /\ req' = req /\ faults' = faults
  BY DEF Raise, Finish, GoTo
<1>2. busy = c /\ pc[busy] \in Published
  BY <1>1 DEF IInv, BusyHeld, Published, Holding
<1>3. req[c].id \in faults
  BY <1>1, <1>2 DEF IInv, ErrorCurrent
<1>4. faults' = faults \cup {req[c].id}
  BY <1>1, <1>3
<1>5. QED
  BY <1>1, <1>4, EndServes DEF Promise!Refuse, Promise!End

\* A worker's failed read is one of the gather that holds `_busy`.
LEMMA FailureShows ==
    ASSUME IInv, NEW w \in Workers, WorkerReadFails(w)
    PROVE  busy \in Callers /\ Promise!ReadError(busy)
<1>1. JobInv
  BY DEF IInv, JobInv, TallyInv
<1>2. /\ pc[w] = "rows" /\ faults' = faults \cup {loc[w].job.id}
      /\ calls' = calls /\ req' = req /\ out' = out
      /\ pc' = [pc EXCEPT ![w] = "tally"]
  BY DEF WorkerReadFails, ReadFails, AtRow, GoTo, callVars
<1>3. busy \in Callers /\ pc[busy] \in Published
  BY <1>1, <1>2, SliceBusy DEF JobInv, Threads
<1>4. loc[w].job.id = req[busy].id
  BY <1>1, <1>2, <1>3 DEF JobInv, LocalsCurrent, JobCurrent, Threads
<1>5. \A d \in Callers : pc'[d] = pc[d]
  BY <1>2, ThreadsAssumption DEF IInv, TypeOK, PcOK, Threads
<1>6. busy \in {d \in Callers : pc[d] # "idle"}
  BY <1>3 DEF Published, Holding
<1>7. {d \in Callers : pc'[d] # "idle"} = {d \in Callers : pc[d] # "idle"}
  BY <1>5
<1>8. QED
  BY <1>2, <1>3, <1>4, <1>6, <1>7 DEF Promise!ReadError

LEMMA CallerUnseen ==
    ASSUME IInv, NEW c \in Callers,
           AcquireBusy(c) \/ Publish(c) \/ ClearDone(c) \/ ReleaseOne(c)
    PROVE  UNCHANGED Promise!contractVars
<1>1. /\ pc[c] # "idle" /\ \E s \in CallerPCs \ {"idle"} : pc' = [pc EXCEPT ![c] = s]
      /\ calls' = calls /\ req' = req /\ out' = out /\ faults' = faults
  BY DEF AcquireBusy, Publish, ClearDone, ReleaseOne, GoTo, CallerPCs, callVars
<1>2. \A d \in Callers : pc'[d] = "idle" <=> pc[d] = "idle"
  BY <1>1 DEF IInv, TypeOK, PcOK, Threads
<1>3. QED  BY <1>1, <1>2, Unseen

LEMMA SliceUnseen ==
    ASSUME IInv, NEW t \in Threads, SliceStep(t)
    PROVE  UNCHANGED Promise!contractVars
<1>1. /\ pc[t] \in {"slice", "rows", "copy"}
      /\ \/ pc' = pc
         \/ \E s \in {"rows", "copy"} : pc' = [pc EXCEPT ![t] = s]
         \/ pc' = [pc EXCEPT ![t] = IF t \in Callers THEN "wait" ELSE "tally"]
      /\ calls' = calls /\ req' = req /\ out' = out /\ faults' = faults
  BY DEF SliceStep, BeginSlice, SkipRow, ReadBlock, CopyRow, ReadInPlace, EndSlice,
         AtRow, GoTo, callVars
<1>2. \A d \in Callers : pc'[d] = "idle" <=> pc[d] = "idle"
  BY <1>1 DEF IInv, TypeOK, PcOK, Threads
<1>3. QED  BY <1>1, <1>2, Unseen

LEMMA WorkerUnseen ==
    ASSUME IInv, NEW w \in Workers,
           WorkerWakes(w) \/ WorkerStops(w) \/ WorkerClaims(w) \/ Tally(w)
    PROVE  UNCHANGED Promise!contractVars
<1>1. /\ \E s \in WorkerPCs : pc' = [pc EXCEPT ![w] = s]
      /\ calls' = calls /\ req' = req /\ out' = out /\ faults' = faults
  BY DEF WorkerWakes, WorkerStops, WorkerClaims, Tally, GoTo, WorkerPCs, callVars
<1>2. \A d \in Callers : pc'[d] = pc[d]
  BY <1>1, ThreadsAssumption DEF IInv, TypeOK, PcOK, Threads
<1>3. QED  BY <1>1, <1>2, Unseen

LEMMA StepMaps ==
    Regime /\ IInv /\ [Next]_vars
        => [Promise!ContractNext]_Promise!contractVars
<1> SUFFICES ASSUME Regime, IInv, [Next]_vars
             PROVE  Promise!ContractNext \/ UNCHANGED Promise!contractVars
  OBVIOUS
<1>1. ASSUME NEW c \in Callers, Call(c) \/ Return(c) \/ Raise(c)
      PROVE  Promise!ContractNext
  BY <1>1, CallAsks, ReturnDelivers, RaiseRefuses DEF Promise!ContractNext
<1>2. ASSUME NEW w \in Workers, WorkerReadFails(w)
      PROVE  Promise!ContractNext
  BY <1>2, FailureShows DEF Promise!ContractNext
<1>3. CASE CloseStep \/ UNCHANGED vars
  BY <1>3, Unseen
  DEF CloseStep, CloseStop, CloseRelease, CloseFd, vars, callVars
<1>4. \A c \in Callers : ~CallerReadFails(c)
  BY NoCallerFault DEF IInv
<1>5. QED
  BY <1>1, <1>2, <1>3, <1>4, CallerUnseen, SliceUnseen, WorkerUnseen
  DEF Next, CallerStep, WorkerStep, Served, Threads

\* While the callers' own reads succeed and the table stays open, the pool
\* keeps the promise of gather (lines 111-120, 202-209): for any number of
\* threads and any requests, each call ends once, with exactly its rows or
\* with an exception for a read of its own.
THEOREM Implements ==
    ASSUME Regime
    PROVE  Spec => KeepsContract
<1>1. Init => Promise!ContractInit
  BY InitMaps
<1>2. IInv /\ [Next]_vars => [Promise!ContractNext]_Promise!contractVars
  BY StepMaps
<1>3. Spec => []IInv
  BY Invariance
<1>4. QED
  BY <1>1, <1>2, <1>3, PTL DEF Spec, KeepsContract, Promise!ContractSafety

-----------------------------------------------------------------------------
(* The bytes of a row: RowAddress.                                         *)

LEMMA Rounding ==
    ASSUME NEW n \in Nat, NEW a \in Nat \ {0}
    PROVE  /\ n % a \in 0 .. a - 1
           /\ n - (n % a) \in Nat
           /\ (n - (n % a)) % a = 0
<1> DEFINE q == n \div a
           r == n % a
<1>1. q \in Int /\ r \in 0 .. a - 1 /\ n = a * q + r  BY SMT
<1>2. q >= 0  BY <1>1, SMT
<1>3. a * q >= 0  BY <1>1, <1>2, SMT
<1>4. (a * q) % a = 0  BY <1>1, <1>2, SMT
<1>5. QED  BY <1>1, <1>3, <1>4, SMT

\* Rounding up and adding a block leaves room for any offset in a block.
LEMMA SpanCovers ==
    ASSUME NEW s \in Nat \ {0}, NEW a \in Nat \ {0}, NEW o \in 0 .. a - 1
    PROVE  o + s =< (((s + a - 1) \div a) + 1) * a
<1> DEFINE q == (s + a - 1) \div a
           r == (s + a - 1) % a
<1>1. q \in Int /\ r \in 0 .. a - 1 /\ s + a - 1 = a * q + r  BY SMT
<1>2. a * q >= s  BY <1>1, SMT
<1>3. (q + 1) * a = a * q + a  BY <1>1, SMT
<1>4. QED  BY <1>1, <1>2, <1>3, SMT

LEMMA ProductNat ==
    ASSUME NEW a \in Nat, NEW b \in Nat
    PROVE  a * b \in Nat
BY SMT

LEMMA OffNat ==
    ASSUME AddressAssumption, NEW i \in Nat, Owned(i)
    PROVE  Off(i) \in Nat
<1>1. i - rowStart \in Nat /\ stride \in Nat
  BY DEF AddressAssumption, Owned
<1>2. QED  BY <1>1, ProductNat DEF Off

LEMMA AlignDown ==
    ASSUME AddressAssumption, NEW i \in Nat, Owned(i)
    PROVE  /\ LoOf(i) \in 0 .. align - 1
           /\ Off(i) - LoOf(i) \in Nat
           /\ (Off(i) - LoOf(i)) % align = 0
<1>1. align \in Nat \ {0}
  BY DEF AddressAssumption
<1>2. QED  BY <1>1, OffNat, Rounding DEF LoOf

\* The workers take a negative start for "not mine" (lines 341, 352): it is
\* negative for exactly the rows of other ranks, also after the alignment.
THEOREM StartMarksOwned ==
    ASSUME AddressAssumption, NEW i \in Nat
    PROVE  Start(i) >= 0 <=> Owned(i)
<1>1. ASSUME Owned(i) PROVE Off(i) - LoOf(i) \in Nat
  BY <1>1, AlignDown
<1>2. QED  BY <1>1 DEF Start

\* The aligned read of `span` bytes holds the whole row at offset `lo`, for
\* any row size and any block size (line 161: "A row can start anywhere in a
\* block, so cover it with one extra block"): line 356 never copies bytes
\* left in the scratch buffer by an earlier row.
THEOREM RowCovered ==
    ASSUME AddressAssumption, NEW i \in Nat, Owned(i)
    PROVE  /\ Start(i) % align = 0
           /\ Start(i) + LoOf(i) = Off(i)
           /\ 0 =< LoOf(i) /\ LoOf(i) + stride =< span
<1>1. Off(i) \in Nat /\ align \in Nat \ {0} /\ stride \in Nat \ {0}
  BY OffNat DEF AddressAssumption
<1>2. Start(i) = Off(i) - LoOf(i)
  BY DEF Start
<1>3. LoOf(i) \in 0 .. align - 1 /\ (Off(i) - LoOf(i)) % align = 0
  BY AlignDown
<1>4. LoOf(i) + stride =< span
  BY <1>1, <1>3, SpanCovers DEF span
<1>5. QED  BY <1>1, <1>2, <1>3, <1>4
=============================================================================
