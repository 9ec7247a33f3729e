-------------------------- MODULE GlobalLoggerProofs --------------------------
(***************************************************************************)
(* Proofs about GlobalLogger for every set of threads, loggers, streams    *)
(* and levels.                                                             *)
(***************************************************************************)
EXTENDS GlobalLogger, TLAPS

Types ==
  /\ global \in Loggers /\ made \subseteq Loggers /\ alive \subseteq made
  /\ level \in [Loggers -> Levels]
  /\ mutex \in Threads \cup {NoThread} /\ own \in [Loggers -> Threads \cup {NoThread}]
  /\ pc \in [Threads -> Places] /\ direct \in [Threads -> BOOLEAN]
  /\ at \in [Threads -> Loggers \cup {NoLogger}] /\ msg \in [Threads -> Levels]
  /\ ref \in [Threads -> Loggers \cup {NoLogger}] /\ crashed \in BOOLEAN

MutexMatches == \A t \in Threads : mutex = t <=> Holds(t)
OwnMatches == \A t \in Threads, l \in Loggers : own[l] = t <=> HoldsOwn(t, l)

\* A reference names a logger that was constructed, and a call on a reference is
\* on that logger; only a Safe logger's mutex is taken.
References ==
  \A t \in Threads :
    /\ ref[t] # NoLogger => ref[t] \in made
    /\ pc[t] \in AtLogger => at[t] \in Loggers
    /\ pc[t] \in {"lock_own", "unlock_own"} => at[t] \in Safe
    /\ direct[t] => pc[t] \in AtLogger /\ at[t] = ref[t] /\ ref[t] \in made

IInv == Types /\ MutexMatches /\ OwnMatches /\ References /\ StaticCallsAreSafe

\* The parts of the type invariant are those of TypeOK.
LEMMA Parts == TypeOK <=> Types /\ MutexMatches /\ OwnMatches
BY DEF TypeOK, Types, MutexMatches, OwnMatches

LEMMA InitIInv == Init => IInv
<1> SUFFICES ASSUME Init PROVE IInv OBVIOUS
<1> USE NamesAssumption DEF Init
<1>1. Types BY DEF Types, Places
<1>2. MutexMatches BY DEF MutexMatches, Holds, AtLogger
<1>3. OwnMatches BY DEF OwnMatches, HoldsOwn
<1>4. References BY DEF References, AtLogger
<1>5. StaticCallsAreSafe BY DEF StaticCallsAreSafe, Replacing, AtLogger
<1>6. QED BY <1>1, <1>2, <1>3, <1>4, <1>5 DEF IInv

\* Types of every step.
LEMMA TypesStep == ASSUME IInv, [Next]_vars PROVE Types'
<1> USE NamesAssumption DEF IInv, Types
<1>1. ASSUME NEW t \in Threads, NEW n \in Levels, CallLog(t, n) PROVE Types'
  BY <1>1 DEF CallLog, Going, Goto, Places
<1>2. ASSUME NEW t \in Threads, NEW n \in Levels, UseRef(t, n) PROVE Types'
  BY <1>2 DEF UseRef, Going, Goto, Places, AtLogger
<1>3. ASSUME NEW t \in Threads, NEW n \in Levels, SetLevel(t, n) PROVE Types'
  BY <1>3 DEF SetLevel
<1>4. ASSUME NEW t \in Threads, CallGet(t) \/ DropRef(t) PROVE Types'
  BY <1>4 DEF CallGet, DropRef, Going, Goto, Places
<1>5. ASSUME NEW t \in Threads, NEW l \in Loggers, CallSet(t, l) PROVE Types'
  BY <1>5 DEF CallSet, Going, Goto, Places
<1>6. ASSUME NEW t \in Threads, Locks(t) PROVE Types'
  BY <1>6 DEF Locks, LockToLog, LockToGet, LockToSet, Take, Going, Goto, Places, AtLogger
<1>7. ASSUME NEW t \in Threads, Swap(t) PROVE Types'
  BY <1>7 DEF Swap, Going, Goto, Places, StaticCallsAreSafe, Replacing
<1>8. ASSUME NEW t \in Threads, UnlockToDestroy(t) \/ Destroy(t) \/ Unlock(t) PROVE Types'
  BY <1>8 DEF UnlockToDestroy, Destroy, Unlock, Destroyed, Going, Goto, Places
<1>9. ASSUME NEW t \in Threads, UseDead(t) \/ LockOwn(t) \/ Begin(t) PROVE Types'
  <2>1. CASE UseDead(t) BY <2>1 DEF UseDead
  <2>2. CASE LockOwn(t) BY <2>2 DEF LockOwn, Going, Goto, Places, AtLogger
  <2>3. CASE Begin(t) BY <2>3 DEF Begin, Going, Goto, Places, AtLogger
  <2>4. QED BY <1>9, <2>1, <2>2, <2>3
<1>10. ASSUME NEW t \in Threads, Check(t) \/ End(t) \/ UnlockOwn(t) PROVE Types'
  BY <1>10, ZenonT(60) DEF Check, End, UnlockOwn, Leave, After, Goto, Places, AtLogger
<1>11. CASE UNCHANGED vars
  BY <1>11 DEF vars
<1>12. QED
  BY <1>1, <1>2, <1>3, <1>4, <1>5, <1>6, <1>7, <1>8, <1>9, <1>10, <1>11
  DEF Next, Start, Inside

\* A step of thread t moves no other thread, and touches no mutex that another
\* thread holds.
MovesOnly(t) ==
  /\ \A u \in Threads \ {t} :
       /\ pc'[u] = pc[u] /\ direct'[u] = direct[u] /\ at'[u] = at[u]
       /\ ref'[u] = ref[u]
  /\ \A u \in Threads \ {t} : mutex = u <=> mutex' = u
  /\ \A u \in Threads \ {t}, l \in Loggers : own[l] = u <=> own'[l] = u

\* The steps of thread t.
StepOf(t) == Start(t) \/ Locks(t) \/ Inside(t)

LEMMA StepMoves == ASSUME IInv, NEW t \in Threads, StepOf(t) PROVE MovesOnly(t)
<1> USE NamesAssumption DEF IInv, Types, MovesOnly
<1>1. ASSUME NEW n \in Levels, CallLog(t, n) PROVE MovesOnly(t)
  BY <1>1 DEF CallLog, Going, Goto
<1>2. ASSUME NEW n \in Levels, UseRef(t, n) PROVE MovesOnly(t)
  BY <1>2 DEF UseRef, Going, Goto
<1>3. ASSUME NEW n \in Levels, SetLevel(t, n) PROVE MovesOnly(t)
  BY <1>3 DEF SetLevel
<1>4. ASSUME CallGet(t) \/ DropRef(t) PROVE MovesOnly(t)
  BY <1>4 DEF CallGet, DropRef, Going, Goto
<1>5. ASSUME NEW l \in Loggers, CallSet(t, l) PROVE MovesOnly(t)
  BY <1>5 DEF CallSet, Going, Goto
<1>6. ASSUME Locks(t) PROVE MovesOnly(t)
  BY <1>6 DEF Locks, LockToLog, LockToGet, LockToSet, Take, Going, Goto
<1>7. ASSUME Swap(t) \/ Destroy(t) PROVE MovesOnly(t)
  BY <1>7 DEF Swap, Destroy, Going, Goto
<1>8. ASSUME UnlockToDestroy(t) \/ Unlock(t) PROVE MovesOnly(t)
  <2>1. mutex = t
    BY <1>8 DEF UnlockToDestroy, Unlock, Going, MutexMatches, Holds
  <2>2. QED BY <1>8, <2>1 DEF UnlockToDestroy, Unlock, Going, Goto
<1>9. ASSUME UseDead(t) \/ Begin(t) PROVE MovesOnly(t)
  BY <1>9 DEF UseDead, Begin, Going, Goto
<1>10. ASSUME LockOwn(t) PROVE MovesOnly(t)
  BY <1>10 DEF LockOwn, OwnFree, Going, Goto
<1>11. ASSUME Check(t) \/ End(t) PROVE MovesOnly(t)
  BY <1>11 DEF Check, End, Leave, Goto
<1>12. ASSUME UnlockOwn(t) PROVE MovesOnly(t)
  <2>1. at[t] \in Loggers BY <1>12 DEF UnlockOwn
  <2>2. own[at[t]] = t
    BY <1>12, <2>1 DEF UnlockOwn, OwnMatches, HoldsOwn, References
  <2>3. QED BY <1>12, <2>1, <2>2 DEF UnlockOwn, Leave, Goto
<1>13. QED
  BY <1>1, <1>2, <1>3, <1>4, <1>5, <1>6, <1>7, <1>8, <1>9, <1>10, <1>11, <1>12
  DEF StepOf, Start, Inside

\* The mutex of Logger is held by the thread that is in a section it protects.
LEMMA MutexStep == ASSUME IInv, NEW t \in Threads, StepOf(t) PROVE MutexMatches'
<1> USE NamesAssumption DEF IInv, Types, MutexMatches, Holds, AtLogger
<1>1. ASSUME NEW n \in Levels, CallLog(t, n) PROVE mutex' = t <=> Holds(t)'
  BY <1>1 DEF CallLog, Going, Goto
<1>2. ASSUME NEW n \in Levels, UseRef(t, n) PROVE mutex' = t <=> Holds(t)'
  BY <1>2 DEF UseRef, Going, Goto
<1>3. ASSUME NEW n \in Levels, SetLevel(t, n) PROVE mutex' = t <=> Holds(t)'
  BY <1>3 DEF SetLevel
<1>4. ASSUME CallGet(t) \/ DropRef(t) PROVE mutex' = t <=> Holds(t)'
  BY <1>4 DEF CallGet, DropRef, Going, Goto
<1>5. ASSUME NEW l \in Loggers, CallSet(t, l) PROVE mutex' = t <=> Holds(t)'
  BY <1>5 DEF CallSet, Going, Goto
<1>6. ASSUME Locks(t) PROVE mutex' = t <=> Holds(t)'
  <2>1. CASE LockToLog(t) BY <2>1 DEF LockToLog, Take, Going, Goto, References
  <2>2. CASE LockToGet(t) BY <2>2 DEF LockToGet, Take, Going, Goto
  <2>3. CASE LockToSet(t) BY <2>3 DEF LockToSet, Take, Going, Goto
  <2>4. QED BY <1>6, <2>1, <2>2, <2>3 DEF Locks
<1>7. ASSUME Swap(t) \/ Destroy(t) PROVE mutex' = t <=> Holds(t)'
  BY <1>7 DEF Swap, Destroy, Going, Goto
<1>8. ASSUME UnlockToDestroy(t) \/ Unlock(t) PROVE mutex' = t <=> Holds(t)'
  BY <1>8 DEF UnlockToDestroy, Unlock, Going, Goto
<1>9. ASSUME UseDead(t) \/ Begin(t) PROVE mutex' = t <=> Holds(t)'
  BY <1>9 DEF UseDead, Begin, Going, Goto
<1>10. ASSUME LockOwn(t) PROVE mutex' = t <=> Holds(t)'
  BY <1>10 DEF LockOwn, OwnFree, Going, Goto
<1>11. ASSUME Check(t) PROVE mutex' = t <=> Holds(t)'
  BY <1>11 DEF Check, Leave, After, Goto
<1>12. ASSUME End(t) \/ UnlockOwn(t) PROVE mutex' = t <=> Holds(t)'
  BY <1>12 DEF End, UnlockOwn, Leave, After, Goto
<1>13. mutex' = t <=> Holds(t)'
  BY <1>1, <1>2, <1>3, <1>4, <1>5, <1>6, <1>7, <1>8, <1>9, <1>10, <1>11, <1>12
  DEF StepOf, Start, Inside
<1>14. ASSUME NEW u \in Threads \ {t} PROVE mutex' = u <=> Holds(u)'
  BY StepMoves DEF MovesOnly
<1>15. QED BY <1>13, <1>14

\* The mutex of a Safe logger is held by the thread that writes through it.
LEMMA OwnStep == ASSUME IInv, NEW t \in Threads, StepOf(t) PROVE OwnMatches'
<1> USE NamesAssumption DEF IInv, Types, OwnMatches, HoldsOwn, References, AtLogger
<1> DEFINE Matches == \A k \in Loggers : own'[k] = t <=> HoldsOwn(t, k)'
<1> HIDE DEF Matches
<1>1. ASSUME NEW n \in Levels, CallLog(t, n) PROVE Matches
  BY <1>1 DEF Matches, CallLog, Going, Goto
<1>2. ASSUME NEW n \in Levels, UseRef(t, n) PROVE Matches
  BY <1>2 DEF Matches, UseRef, Going, Goto
<1>3. ASSUME NEW n \in Levels, SetLevel(t, n) PROVE Matches
  BY <1>3 DEF Matches, SetLevel
<1>4. ASSUME CallGet(t) \/ DropRef(t) PROVE Matches
  BY <1>4 DEF Matches, CallGet, DropRef, Going, Goto
<1>5. ASSUME NEW l \in Loggers, CallSet(t, l) PROVE Matches
  BY <1>5 DEF Matches, CallSet, Going, Goto
<1>6. ASSUME Locks(t) PROVE Matches
  BY <1>6 DEF Matches, Locks, LockToLog, LockToGet, LockToSet, Take, Going, Goto
<1>7. ASSUME Swap(t) \/ Destroy(t) PROVE Matches
  BY <1>7 DEF Matches, Swap, Destroy, Going, Goto
<1>8. ASSUME UnlockToDestroy(t) \/ Unlock(t) PROVE Matches
  BY <1>8 DEF Matches, UnlockToDestroy, Unlock, Going, Goto
<1>9. ASSUME UseDead(t) \/ Begin(t) PROVE Matches
  BY <1>9 DEF Matches, UseDead, Begin, Going, Goto
<1>10. ASSUME LockOwn(t) PROVE Matches
  BY <1>10 DEF Matches, LockOwn, OwnFree, Going, Goto
<1>11. ASSUME Check(t) PROVE Matches
  BY <1>11 DEF Matches, Check, Leave, After, Goto
<1>12. ASSUME End(t) \/ UnlockOwn(t) PROVE Matches
  BY <1>12 DEF Matches, End, UnlockOwn, Leave, After, Goto
<1>13. Matches
  BY <1>1, <1>2, <1>3, <1>4, <1>5, <1>6, <1>7, <1>8, <1>9, <1>10, <1>11, <1>12
  DEF StepOf, Start, Inside
<1>14. ASSUME NEW u \in Threads \ {t}, NEW k \in Loggers
       PROVE own'[k] = u <=> HoldsOwn(u, k)'
  BY StepMoves DEF MovesOnly
<1>15. QED BY <1>13, <1>14 DEF Matches

LEMMA ReferencesStep == ASSUME IInv, NEW t \in Threads, StepOf(t) PROVE References'
<1> USE NamesAssumption DEF IInv, Types, References, AtLogger
<1> DEFINE Refers == /\ ref[t] # NoLogger => ref[t] \in made
                     /\ pc[t] \in AtLogger => at[t] \in Loggers
                     /\ pc[t] \in {"lock_own", "unlock_own"} => at[t] \in Safe
                     /\ direct[t] => pc[t] \in AtLogger /\ at[t] = ref[t] /\ ref[t] \in made
<1> HIDE DEF Refers
<1>1. ASSUME NEW n \in Levels, CallLog(t, n) PROVE Refers'
  BY <1>1 DEF Refers, CallLog, Going, Goto
<1>2. ASSUME NEW n \in Levels, UseRef(t, n) PROVE Refers'
  BY <1>2 DEF Refers, UseRef, Going, Goto
<1>3. ASSUME NEW n \in Levels, SetLevel(t, n) PROVE Refers'
  BY <1>3 DEF Refers, SetLevel
<1>4. ASSUME CallGet(t) \/ DropRef(t) PROVE Refers'
  BY <1>4 DEF Refers, CallGet, DropRef, Going, Goto
<1>5. ASSUME NEW l \in Loggers, CallSet(t, l) PROVE Refers'
  BY <1>5 DEF Refers, CallSet, Going, Goto
<1>6. ASSUME Locks(t) PROVE Refers'
  BY <1>6
  DEF Refers, Locks, LockToLog, LockToGet, LockToSet, Going, Goto, StaticCallsAreSafe
<1>7. ASSUME Swap(t) \/ Destroy(t) PROVE Refers'
  BY <1>7 DEF Refers, Swap, Destroy, Going, Goto
<1>8. ASSUME UnlockToDestroy(t) \/ Unlock(t) PROVE Refers'
  BY <1>8 DEF Refers, UnlockToDestroy, Unlock, Going, Goto
<1>9. ASSUME UseDead(t) \/ Begin(t) PROVE Refers'
  BY <1>9 DEF Refers, UseDead, Begin, Going, Goto
<1>10. ASSUME LockOwn(t) PROVE Refers'
  BY <1>10 DEF Refers, LockOwn, OwnFree, Going, Goto
<1>11. ASSUME Check(t) PROVE Refers'
  BY <1>11 DEF Refers, Check, Leave, After, Goto
<1>12. ASSUME End(t) \/ UnlockOwn(t) PROVE Refers'
  BY <1>12 DEF Refers, End, UnlockOwn, Leave, After, Goto
<1>13. Refers'
  BY <1>1, <1>2, <1>3, <1>4, <1>5, <1>6, <1>7, <1>8, <1>9, <1>10, <1>11, <1>12
  DEF StepOf, Start, Inside
<1>14. ASSUME NEW u \in Threads \ {t} PROVE (ref[u] \in made) => (ref[u] \in made')
  BY DEF StepOf, Start, Locks, Inside, CallLog, UseRef, SetLevel, CallGet, DropRef, CallSet,
         LockToLog, LockToGet, LockToSet, Swap, UnlockToDestroy, Destroy, Unlock, UseDead,
         Check, LockOwn, Begin, End, UnlockOwn
<1>15. QED BY <1>13, <1>14, StepMoves DEF Refers, MovesOnly

\* Replacing the global logger: only the holder of the mutex swaps, so nobody is
\* logging to the logger that goes.
LEMMA SwapIsSafe == ASSUME IInv, NEW t \in Threads, Swap(t) PROVE StaticCallsAreSafe'
<1> USE NamesAssumption DEF IInv, Types, Swap, Going, Goto, StaticCallsAreSafe, Replacing
<1>1. mutex = t BY DEF MutexMatches, Holds
<1>2. \A u \in Threads \ {t} : ~Holds(u) BY <1>1 DEF MutexMatches
<1>3. global' = at[t] /\ global' \in alive' BY DEF AtLogger
<1>4. ASSUME NEW u \in Threads, pc'[u] \in AtLogger, ~direct'[u] PROVE at'[u] = global'
  BY <1>2, <1>4 DEF Holds, AtLogger
<1>5. ASSUME NEW u \in Threads, Replacing(u)'
      PROVE /\ at'[u] \in alive' \ {global'}
            /\ \A v \in Threads \ {u} : Replacing(v)' => at'[v] # at'[u]
  <2>1. at[t] # global /\ alive' = alive /\ global' = at[t] OBVIOUS
  <2>2. \A v \in Threads \ {t} :
          Replacing(v)' => Replacing(v) /\ at'[v] = at[v] /\ at[v] # at[t] /\ at[v] # global
    OBVIOUS
  <2>3. at'[t] = global /\ Replacing(t) OBVIOUS
  <2>4. CASE u = t BY <2>1, <2>2, <2>3, <2>4
  <2>5. CASE u # t BY <2>1, <2>2, <2>3, <2>5, <1>5
  <2>6. QED BY <2>4, <2>5
<1>6. QED BY <1>3, <1>4, <1>5

LEMMA StaticCallsStep ==
  ASSUME IInv, NEW t \in Threads, StepOf(t) PROVE StaticCallsAreSafe'
<1> USE NamesAssumption DEF IInv, Types, StaticCallsAreSafe, Replacing, AtLogger
<1>1. ASSUME NEW n \in Levels, CallLog(t, n) PROVE StaticCallsAreSafe'
  BY <1>1 DEF CallLog, Going, Goto
<1>2. ASSUME NEW n \in Levels, UseRef(t, n) PROVE StaticCallsAreSafe'
  BY <1>2 DEF UseRef, Going, Goto
<1>3. ASSUME NEW n \in Levels, SetLevel(t, n) PROVE StaticCallsAreSafe'
  BY <1>3 DEF SetLevel, References
<1>4. ASSUME CallGet(t) \/ DropRef(t) PROVE StaticCallsAreSafe'
  BY <1>4 DEF CallGet, DropRef, Going, Goto
<1>5. ASSUME NEW l \in Loggers, CallSet(t, l) PROVE StaticCallsAreSafe'
  BY <1>5 DEF CallSet, Going, Goto
<1>6. ASSUME Locks(t) PROVE StaticCallsAreSafe'
  <2>1. CASE LockToLog(t) BY <2>1 DEF LockToLog, Going, Goto
  <2>2. CASE LockToGet(t) BY <2>2 DEF LockToGet, Going, Goto
  <2>3. CASE LockToSet(t) BY <2>3 DEF LockToSet, Going, Goto
  <2>4. QED BY <1>6, <2>1, <2>2, <2>3 DEF Locks
<1>7. ASSUME Swap(t) PROVE StaticCallsAreSafe'
  BY <1>7, SwapIsSafe
<1>8. ASSUME Destroy(t) PROVE StaticCallsAreSafe'
  BY <1>8 DEF Destroy, Destroyed, Going, Goto
<1>9. ASSUME UnlockToDestroy(t) \/ Unlock(t) PROVE StaticCallsAreSafe'
  BY <1>9 DEF UnlockToDestroy, Unlock, Going, Goto
<1>10. ASSUME UseDead(t) PROVE StaticCallsAreSafe'
  BY <1>10 DEF UseDead, References
<1>11. ASSUME LockOwn(t) \/ Begin(t) PROVE StaticCallsAreSafe'
  BY <1>11 DEF LockOwn, Begin, Going, Goto
<1>12. ASSUME Check(t) PROVE StaticCallsAreSafe'
  BY <1>12 DEF Check, Leave, After, Goto
<1>13. ASSUME End(t) \/ UnlockOwn(t) PROVE StaticCallsAreSafe'
  BY <1>13 DEF End, UnlockOwn, Leave, After, Goto
<1>14. QED
  BY <1>1, <1>2, <1>3, <1>4, <1>5, <1>6, <1>7, <1>8, <1>9, <1>10, <1>11, <1>12, <1>13
  DEF StepOf, Start, Inside

LEMMA Inductive == IInv /\ [Next]_vars => IInv'
<1> SUFFICES ASSUME IInv, [Next]_vars PROVE IInv' OBVIOUS
<1>1. CASE UNCHANGED vars
  BY <1>1 DEF IInv, vars, Types, MutexMatches, OwnMatches, References, StaticCallsAreSafe,
              Holds, HoldsOwn, Replacing
<1>2. CASE Next
  <2>1. PICK t \in Threads : StepOf(t) BY <1>2 DEF Next, StepOf
  <2>2. QED BY <2>1, TypesStep, MutexStep, OwnStep, ReferencesStep, StaticCallsStep DEF IInv
<1>3. QED BY <1>1, <1>2

LEMMA AlwaysIInv == Spec => []IInv
BY InitIInv, Inductive, PTL DEF Spec

\* Each variable has its type, and each mutex is held by the thread, at most
\* one, that is in the section it protects (global_logger.cpp and the Safe
\* loggers).
THEOREM TypeIsCorrect == Spec => []TypeOK
<1>1. IInv => TypeOK BY Parts DEF IInv
<1>2. QED BY <1>1, AlwaysIInv, PTL

\* However many threads log through the global Logger and replace it, a static
\* method never works on a destroyed logger and no logger is destroyed twice;
\* only a reference that has outlived its logger can reach a destroyed one.
THEOREM StaticCallsAlwaysSafe == Spec => []StaticCallsAreSafe
<1>1. IInv => StaticCallsAreSafe BY DEF IInv
<1>2. QED BY <1>1, AlwaysIInv, PTL

\* Lines are interleaved on a stream only when a thread writes through a
\* reference, past the mutex of Logger, and not through a Safe logger that both
\* threads use.
THEOREM LinesAreAlwaysWhole == Spec => []LinesAreWhole
<1>1. IInv => LinesAreWhole
  <2> SUFFICES ASSUME IInv, NEW t \in Threads, NEW u \in Threads \ {t}, Writing(t), Writing(u)
               PROVE (direct[t] \/ direct[u]) /\ (at[t] = at[u] => at[t] \notin Safe)
    BY DEF LinesAreWhole
  <2>1. direct[t] \/ direct[u]
    BY DEF IInv, MutexMatches, Holds, Writing, AtLogger
  <2>2. ASSUME at[t] = at[u], at[t] \in Safe PROVE FALSE
    BY <2>2, NamesAssumption DEF IInv, OwnMatches, HoldsOwn, Writing
  <2>3. QED BY <2>1, <2>2
<1>2. QED BY <1>1, AlwaysIInv, PTL
===============================================================================
