----------------------------- MODULE Migrations -----------------------------
(***************************************************************************)
(* NewSQLiteStore's migrations, across crashes, restarts, upgrades and     *)
(* downgrades of the program: for each embedded file in turn, a query      *)
(* whether it is recorded, its statements, each committed by itself, and   *)
(* the INSERT that records it.                                             *)
(***************************************************************************)
EXTENDS Naturals, Sequences

CONSTANTS
  Files,        \* Files[f][n]: is statement n of file f "IF NOT EXISTS"?
  MaxCrashes    \* bound on the crashes

ASSUME MigrationsAssumption == /\ Files \in Seq(Seq(BOOLEAN)) /\ MaxCrashes \in Nat
                               /\ \A f \in DOMAIN Files : Files[f] # <<>>

VARIABLES
  effects,    \* <<f, n>>: statement n of file f is in effect
  recorded,   \* the files in schema_migrations
  pc,         \* "down", "check", "exec", "record" and "serving"
  version,    \* the number of files embedded in the program that runs
  file,       \* the file it is at
  statement,  \* and the statement of that file
  crashes

vars == <<effects, recorded, pc, version, file, statement, crashes>>

Statements == UNION {{f} \X DOMAIN Files[f] : f \in DOMAIN Files}

Init == /\ effects = {} /\ recorded = {}
        /\ pc = "down" /\ version = 0 /\ file = 0 /\ statement = 0 /\ crashes = 0

\* Mutant: only the newest file is looked at.
StartAtLast == /\ pc = "down" /\ pc' = "check"
               /\ version' \in DOMAIN Files /\ file' = version'
               /\ UNCHANGED <<effects, recorded, statement, crashes>>

\* The program is started, in any version.
Start == /\ pc = "down" /\ pc' = "check" /\ file' = 1
         /\ version' \in DOMAIN Files
         /\ UNCHANGED <<effects, recorded, statement, crashes>>

\* Every file has been seen: migrate returns, and the program serves.
Serve == /\ pc = "check" /\ file > version /\ pc' = "serving"
         /\ UNCHANGED <<effects, recorded, version, file, statement, crashes>>

\* Mutant: statements are counted from zero.
CheckFromZero == /\ pc = "check" /\ file <= version
                 /\ IF file \in recorded
                    THEN file' = file + 1 /\ UNCHANGED <<pc, statement>>
                    ELSE pc' = "exec" /\ statement' = 0 /\ UNCHANGED file
                 /\ UNCHANGED <<effects, recorded, version, crashes>>

\* Mutant: the file is recorded before it runs.
CheckAndRecord == /\ pc = "check" /\ file <= version
                  /\ IF file \in recorded
                     THEN file' = file + 1 /\ UNCHANGED <<pc, statement>>
                     ELSE pc' = "exec" /\ statement' = 1 /\ UNCHANGED file
                  /\ recorded' = recorded \cup {file}
                  /\ UNCHANGED <<effects, version, crashes>>

\* Mutant: a recorded file runs again.
CheckNothing == /\ pc = "check" /\ file <= version
                /\ pc' = "exec" /\ statement' = 1
                /\ UNCHANGED <<effects, recorded, version, file, crashes>>

Check == /\ pc = "check" /\ file <= version
         /\ IF file \in recorded
            THEN file' = file + 1 /\ UNCHANGED <<pc, statement>>
            ELSE pc' = "exec" /\ statement' = 1 /\ UNCHANGED file
         /\ UNCHANGED <<effects, recorded, version, crashes>>

\* Mutant: the driver runs only the first statement of a file.
ExecFirst == LET here == <<file, statement>> IN
             /\ pc = "exec"
             /\ IF here \in effects /\ ~Files[file][statement]
                THEN pc' = "down" /\ UNCHANGED effects
                ELSE effects' = effects \cup {here} /\ pc' = "record"
             /\ UNCHANGED <<recorded, version, file, statement, crashes>>

\* A statement of the file, on its own.  What is there already is an error,
\* without IF NOT EXISTS: NewSQLiteStore fails, and the process exits.
Exec == LET here == <<file, statement>> IN
        /\ pc = "exec"
        /\ IF here \in effects /\ ~Files[file][statement]
           THEN pc' = "down" /\ UNCHANGED <<effects, statement>>
           ELSE /\ effects' = effects \cup {here}
                /\ IF statement < Len(Files[file])
                   THEN statement' = statement + 1 /\ UNCHANGED pc
                   ELSE pc' = "record" /\ UNCHANGED statement
        /\ UNCHANGED <<recorded, version, file, crashes>>

Record == /\ pc = "record" /\ pc' = "check"
          /\ recorded' = recorded \cup {file} /\ file' = file + 1
          /\ UNCHANGED <<effects, version, statement, crashes>>

\* The process is killed or fails, at any point (bound: MaxCrashes).
Crash == /\ pc # "down" /\ crashes < MaxCrashes
         /\ pc' = "down" /\ crashes' = crashes + 1
         /\ UNCHANGED <<effects, recorded, version, file, statement>>

Run == Start \/ Serve \/ Check \/ Exec \/ Record

Next == Run \/ Crash

\* The supervisor restarts the program and the program runs.
Spec == Init /\ [][Next]_vars /\ WF_vars(Run)

-----------------------------------------------------------------------------
(* Properties. *)

TypeOK == /\ effects \subseteq Statements /\ recorded \subseteq DOMAIN Files
          /\ pc \in {"down", "check", "exec", "record", "serving"}
          /\ version \in 0 .. Len(Files) /\ file \in 0 .. Len(Files) + 1
          /\ statement \in Nat /\ crashes \in 0 .. MaxCrashes

Complete(f) == \A n \in DOMAIN Files[f] : <<f, n>> \in effects

\* A program that serves has the whole schema of its version, whatever crashed
\* before it and whichever versions ran (sqlite.go:56-79).
ServesItsSchema == pc = "serving" => \A f \in 1 .. version : Complete(f)

\* A file is in schema_migrations only when all of it is in effect, so skipping
\* it loses nothing (sqlite.go:65-67).
RecordedIsComplete == \A f \in recorded : Complete(f)

Preceding(f, n) == {s \in Statements : \/ s[1] < f
                                       \/ s[1] = f /\ s[2] < n}

\* Statements take effect in the order of the files: no ALTER or REFERENCES
\* runs before the table it names is there.
InFileOrder == \A s \in effects : Preceding(s[1], s[2]) \subseteq effects

\* A file in effect but not recorded, whose statements cannot be repeated: every
\* later start of a version that has the file fails on it.
Stuck == pc = "down" /\ \E f \in DOMAIN Files \ recorded : \E n \in DOMAIN Files[f] :
           <<f, n>> \in effects /\ ~Files[f][n]

\* Restarts end in a program that serves, but for one window: a crash between
\* a statement that cannot be repeated and the record of its file (sqlite.go:73-76).
ServesOrStuck == <>[](pc = "serving") \/ <>Stuck
=============================================================================
