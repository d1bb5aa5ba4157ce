------------------------------- MODULE RWMutex -------------------------------
(***************************************************************************)
(* sync.RWMutex of the Go library, as Broadcaster uses it: a writer that   *)
(* is waiting for the readers lets no new reader in, and the readers it    *)
(* kept out enter before the next writer.                                  *)
(***************************************************************************)
EXTENDS FiniteSets

CONSTANT NoWriter

VARIABLES readers,   \* goroutines that hold the read lock
          blocked,   \* goroutines that wait in RLock
          writer     \* the goroutine that holds the write lock, or is next to, or NoWriter

lock == <<readers, blocked, writer>>

InitLock == readers = {} /\ blocked = {} /\ writer = NoWriter

RLock(t) == /\ IF writer = NoWriter
               THEN readers' = readers \cup {t} /\ UNCHANGED blocked
               ELSE blocked' = blocked \cup {t} /\ UNCHANGED readers
            /\ UNCHANGED writer

RUnlock(t) == readers' = readers \ {t} /\ UNCHANGED <<blocked, writer>>

\* The first half of Lock: from here on readers wait.
Announce(t) == writer = NoWriter /\ writer' = t /\ UNCHANGED <<readers, blocked>>

\* The second half: the readers are gone.
Holds(t) == writer = t /\ readers = {}

Unlock(t) == writer' = NoWriter /\ readers' = blocked /\ blocked' = {}
=============================================================================
