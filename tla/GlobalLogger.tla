----------------------------- MODULE GlobalLogger -----------------------------
(***************************************************************************)
(* trivilog: threads that log through the global Logger, replace it, and   *)
(* use the reference that get_global_logger returns.                       *)
(*                                                                         *)
(* One action per lock, unlock and access to state that threads share.  A  *)
(* line reaches its stream in pieces (log_to_ostream), so it is begun and  *)
(* ended by two actions.  Loggers are objects with an address each; which  *)
(* stream a logger writes to, and whether its class has a mutex of its own *)
(* (the Safe... classes), is given.                                        *)
(***************************************************************************)
EXTENDS Integers

CONSTANTS
  Threads,
  NoThread,
  Loggers,     (* addresses; each is used for one logger only             *)
  NoLogger,
  First,       (* the StdoutLogger that the global Logger starts with     *)
  Safe,        (* loggers of the classes SafeFileLogger, SafeStdoutLogger... *)
  Streams,
  Sink,        (* get_ostream: std::cout is the sink of several loggers   *)
  Levels,      (* log_level, FATAL = 0 upwards                            *)
  DefaultLevel (* INFO                                                    *)

ASSUME NamesAssumption ==
  /\ NoThread \notin Threads /\ NoLogger \notin Loggers
  /\ First \in Loggers /\ Safe \subseteq Loggers
  /\ Sink \in [Loggers -> Streams]
  /\ Levels \subseteq Nat /\ DefaultLevel \in Levels

VARIABLES
  global,   (* global_logger_ptr                                          *)
  made,     (* loggers that have been constructed                         *)
  alive,    (* those not destroyed                                        *)
  level,    (* level_ of each logger                                      *)
  mutex,    (* Logger::mutex_: its holder                                 *)
  own,      (* mutex_ of each Safe logger: its holder                     *)
  pc,       (* where each thread is                                       *)
  direct,   (* the call is one on a reference, not one of Logger          *)
  at,       (* the logger the thread works on, or has made or must destroy *)
  msg,      (* level of the message                                       *)
  ref,      (* what get_global_logger has returned to the thread          *)
  crashed   (* a destroyed logger was used                                *)

vars == <<global, made, alive, level, mutex, own, pc, direct, at, msg, ref, crashed>>

Init ==
  /\ global = First /\ made = {First} /\ alive = {First}
  /\ level = [l \in Loggers |-> DefaultLevel]
  /\ mutex = NoThread /\ own = [l \in Loggers |-> NoThread]
  /\ pc = [t \in Threads |-> "idle"] /\ direct = [t \in Threads |-> FALSE]
  /\ at = [t \in Threads |-> NoLogger] /\ msg = [t \in Threads |-> DefaultLevel]
  /\ ref = [t \in Threads |-> NoLogger] /\ crashed = FALSE

Goto(t, place) == pc' = [pc EXCEPT ![t] = place]
Going(t, from, to) == ~crashed /\ pc[t] = from /\ Goto(t, to)

(***************************************************************************)
(* The static methods of Logger take mutex_ first (lock_guard).            *)
(***************************************************************************)
CallLog(t, n) ==
  /\ Going(t, "idle", "lock_to_log") /\ msg' = [msg EXCEPT ![t] = n]
  /\ UNCHANGED <<global, made, alive, level, mutex, own, direct, at, ref, crashed>>

CallGet(t) ==
  /\ Going(t, "idle", "lock_to_get")
  /\ UNCHANGED <<global, made, alive, level, mutex, own, direct, at, msg, ref, crashed>>

\* make_unique, before the lock.
CallSet(t, l) ==
  /\ Going(t, "idle", "lock_to_set") /\ l \notin made
  /\ made' = made \cup {l} /\ alive' = alive \cup {l}
  /\ level' = [level EXCEPT ![l] = DefaultLevel]
  /\ at' = [at EXCEPT ![t] = l]
  /\ UNCHANGED <<global, mutex, own, direct, msg, ref, crashed>>

\* Mutant: the methods do not lock.
LockMissing(t) == UNCHANGED mutex

Take(t) == mutex = NoThread /\ mutex' = t

LockToLog(t) ==
  /\ Going(t, "lock_to_log", "check") /\ Take(t)
  /\ at' = [at EXCEPT ![t] = global]
  /\ UNCHANGED <<global, made, alive, level, own, direct, msg, ref, crashed>>

LockToGet(t) ==
  /\ Going(t, "lock_to_get", "unlock") /\ Take(t)
  /\ ref' = [ref EXCEPT ![t] = global]
  /\ UNCHANGED <<global, made, alive, level, own, direct, at, msg, crashed>>

LockToSet(t) ==
  /\ Going(t, "lock_to_set", "swap") /\ Take(t)
  /\ UNCHANGED <<global, made, alive, level, own, direct, at, msg, ref, crashed>>

\* global_logger_ptr.swap(new_logger): the old logger is now the thread's.
Swap(t) ==
  /\ Going(t, "swap", "unlock_to_destroy")
  /\ global' = at[t] /\ at' = [at EXCEPT ![t] = global]
  /\ UNCHANGED <<made, alive, level, mutex, own, direct, msg, ref, crashed>>

\* Mutant: the old logger is destroyed where it is replaced by another thread.
DestroyedTwice(t) == {at[t], global}

\* What the destructor of the argument new_logger frees.
Destroyed(t) == {at[t]}

UnlockToDestroy(t) ==
  /\ Going(t, "unlock_to_destroy", "destroy") /\ mutex' = NoThread
  /\ UNCHANGED <<global, made, alive, level, own, direct, at, msg, ref, crashed>>

\* The argument of set_global_logger_impl outlives its lock_guard.
Destroy(t) ==
  /\ Going(t, "destroy", "idle")
  /\ alive' = alive \ Destroyed(t) /\ at' = [at EXCEPT ![t] = NoLogger]
  /\ UNCHANGED <<global, made, level, mutex, own, direct, msg, ref, crashed>>

Unlock(t) ==
  /\ Going(t, "unlock", "idle") /\ mutex' = NoThread
  /\ at' = [at EXCEPT ![t] = NoLogger]
  /\ UNCHANGED <<global, made, alive, level, own, direct, msg, ref, crashed>>

(***************************************************************************)
(* The same calls on the reference: nothing is locked, and the logger may  *)
(* have been destroyed.                                                    *)
(***************************************************************************)
UseRef(t, n) ==
  /\ ref[t] # NoLogger /\ Going(t, "idle", "check")
  /\ direct' = [direct EXCEPT ![t] = TRUE]
  /\ at' = [at EXCEPT ![t] = ref[t]] /\ msg' = [msg EXCEPT ![t] = n]
  /\ UNCHANGED <<global, made, alive, level, mutex, own, ref, crashed>>

SetLevel(t, n) ==
  /\ ~crashed /\ pc[t] = "idle" /\ ref[t] # NoLogger
  /\ crashed' = (ref[t] \notin alive)
  /\ level' = IF crashed' THEN level ELSE [level EXCEPT ![ref[t]] = n]
  /\ UNCHANGED <<global, made, alive, mutex, own, pc, direct, at, msg, ref>>

DropRef(t) ==
  /\ ~crashed /\ pc[t] = "idle" /\ ref[t] # NoLogger
  /\ ref' = [ref EXCEPT ![t] = NoLogger]
  /\ UNCHANGED <<global, made, alive, level, mutex, own, pc, direct, at, msg, crashed>>

(***************************************************************************)
(* BaseLogger::log and log_to_ostream on the logger at[t].                 *)
(***************************************************************************)
AtLogger == {"check", "lock_own", "begin", "end", "unlock_own"}

\* Undefined behaviour: the access is to a logger that is gone.
UseDead(t) ==
  /\ ~crashed /\ pc[t] \in AtLogger /\ at[t] \notin alive
  /\ crashed' = TRUE
  /\ UNCHANGED <<global, made, alive, level, mutex, own, pc, direct, at, msg, ref>>

\* Mutant: a message that the level suppresses is left with the mutex held.
AfterUnlocked(t) == "idle"

\* Where log leaves the thread: the caller, or the end of the lock_guard.
After(t) == IF direct[t] THEN "idle" ELSE "unlock"

Leave(t) ==
  /\ Goto(t, After(t)) /\ direct' = [direct EXCEPT ![t] = FALSE]
  /\ at' = IF direct[t] THEN [at EXCEPT ![t] = NoLogger] ELSE at

Check(t) ==
  /\ ~crashed /\ pc[t] = "check" /\ at[t] \in alive
  /\ IF level[at[t]] >= msg[t]
     THEN /\ Goto(t, IF at[t] \in Safe THEN "lock_own" ELSE "begin")
          /\ UNCHANGED <<direct, at>>
     ELSE Leave(t)
  /\ UNCHANGED <<global, made, alive, level, mutex, own, msg, ref, crashed>>

\* Mutant: the Safe classes do not exclude each other's threads.
OwnBusy(t) == TRUE

OwnFree(t) == own[at[t]] = NoThread

LockOwn(t) ==
  /\ at[t] \in alive /\ OwnFree(t) /\ Going(t, "lock_own", "begin")
  /\ own' = [own EXCEPT ![at[t]] = t]
  /\ UNCHANGED <<global, made, alive, level, mutex, direct, at, msg, ref, crashed>>

Begin(t) ==
  /\ at[t] \in alive /\ Going(t, "begin", "end")
  /\ UNCHANGED <<global, made, alive, level, mutex, own, direct, at, msg, ref, crashed>>

\* std::endl; a logger without a mutex is left at once.
End(t) ==
  /\ ~crashed /\ pc[t] = "end" /\ at[t] \in alive
  /\ IF at[t] \in Safe
     THEN Goto(t, "unlock_own") /\ UNCHANGED <<direct, at>>
     ELSE Leave(t)
  /\ UNCHANGED <<global, made, alive, level, mutex, own, msg, ref, crashed>>

UnlockOwn(t) ==
  /\ ~crashed /\ pc[t] = "unlock_own" /\ at[t] \in alive
  /\ own' = [own EXCEPT ![at[t]] = NoThread]
  /\ Leave(t)
  /\ UNCHANGED <<global, made, alive, level, mutex, msg, ref, crashed>>

\* What a thread does of its own accord, and how it goes on.
Start(t) ==
  \/ \E n \in Levels : CallLog(t, n) \/ UseRef(t, n) \/ SetLevel(t, n)
  \/ CallGet(t) \/ DropRef(t)
  \/ \E l \in Loggers : CallSet(t, l)

Locks(t) == LockToLog(t) \/ LockToGet(t) \/ LockToSet(t)
Inside(t) ==
  \/ Swap(t) \/ UnlockToDestroy(t) \/ Destroy(t) \/ Unlock(t)
  \/ UseDead(t) \/ Check(t) \/ LockOwn(t) \/ Begin(t) \/ End(t) \/ UnlockOwn(t)

Next == \E t \in Threads : Start(t) \/ Locks(t) \/ Inside(t)

Spec == Init /\ [][Next]_vars

\* A thread that is inside a call is scheduled.
FairSpec == Spec /\ \A t \in Threads : WF_vars(Inside(t))

(***************************************************************************)
(* Properties                                                              *)
(***************************************************************************)
Places == {"idle", "lock_to_log", "lock_to_get", "lock_to_set", "swap",
           "unlock_to_destroy", "destroy", "unlock"} \cup AtLogger

\* The thread is in the part of a static method that mutex_ protects.
Holds(t) ==
  \/ pc[t] \in {"swap", "unlock_to_destroy", "unlock"}
  \/ pc[t] \in AtLogger /\ ~direct[t]

\* The thread is in log_to_ostream of a Safe logger.
HoldsOwn(t, l) == l \in Safe /\ at[t] = l /\ pc[t] \in {"begin", "end", "unlock_own"}

\* Types; and each mutex is held by the thread, at most one, that is in the
\* section it protects.
TypeOK ==
  /\ global \in Loggers /\ made \subseteq Loggers /\ alive \subseteq made
  /\ level \in [Loggers -> Levels]
  /\ mutex \in Threads \cup {NoThread} /\ own \in [Loggers -> Threads \cup {NoThread}]
  /\ pc \in [Threads -> Places] /\ direct \in [Threads -> BOOLEAN]
  /\ at \in [Threads -> Loggers \cup {NoLogger}] /\ msg \in [Threads -> Levels]
  /\ ref \in [Threads -> Loggers \cup {NoLogger}] /\ crashed \in BOOLEAN
  /\ \A t \in Threads : mutex = t <=> Holds(t)
  /\ \A t \in Threads, l \in Loggers : own[l] = t <=> HoldsOwn(t, l)

\* The thread owns a logger that is not the global one: the one it has made,
\* or the one it has to destroy.
Replacing(t) == pc[t] \in {"lock_to_set", "swap", "unlock_to_destroy", "destroy"}

\* A static method logs to the current logger, which is not destroyed under
\* it, whoever replaces it meanwhile (the ..._impl methods); a logger that has
\* been replaced is destroyed once; a destroyed logger is used only through a
\* reference from get_global_logger that has outlived it.
StaticCallsAreSafe ==
  /\ global \in alive
  /\ \A t \in Threads : (pc[t] \in AtLogger /\ ~direct[t]) => at[t] = global
  /\ \A t \in Threads : Replacing(t) =>
       /\ at[t] \in alive \ {global}
       /\ \A u \in Threads \ {t} : Replacing(u) => at[u] # at[t]
  /\ crashed => \E t \in Threads : ref[t] \in made \ alive

Writing(t) == pc[t] = "end"

\* Two threads are in the middle of a line on one stream only if one of them
\* uses a reference, and they do not share a logger of a Safe class: mutex_
\* serialises the static methods even while the logger is replaced, and the
\* mutex of a Safe logger serialises what goes past mutex_.
LinesAreWhole ==
  \A t \in Threads : \A u \in Threads \ {t} :
    (Writing(t) /\ Writing(u) /\ Sink[at[t]] = Sink[at[u]]) =>
      /\ direct[t] \/ direct[u]
      /\ at[t] = at[u] => at[t] \notin Safe

\* Whoever is inside the global Logger lets it go, if from some time on no
\* thread writes through a reference (which may keep a Safe logger's mutex
\* from a thread for ever).
MutexIsLetGo ==
  <>[](crashed \/ \A t \in Threads : ~direct[t])
    => \A t \in Threads : (mutex = t) ~> (mutex # t \/ crashed)
===============================================================================
