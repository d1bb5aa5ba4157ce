--------------------------- MODULE MigrationsProofs ---------------------------
(***************************************************************************)
(* The safety of migrate for any migration files, any number of versions   *)
(* and any number of crashes.                                              *)
(*                                                                         *)
(* recorded is the first k files, for some k, all of them in effect; the   *)
(* run that is under way has seen the files before the one it is at        *)
(* recorded, and the statements before the one it is at in effect.         *)
(***************************************************************************)
EXTENDS Migrations, TLAPS

\* The files before this one are recorded, and it is one of the program's.
Reached(f) == 1 .. f - 1 \subseteq recorded /\ f \in 1 .. version

\* Where the run that is under way has come to.
Progressed ==
  /\ pc # "down" => version \in DOMAIN Files
  /\ pc = "check" => file \in 1 .. version + 1 /\ 1 .. file - 1 \subseteq recorded
  /\ pc = "exec" => /\ Reached(file) /\ statement \in DOMAIN Files[file]
                    /\ Preceding(file, statement) \subseteq effects
  /\ pc = "record" => Reached(file) /\ Complete(file)
  /\ pc = "serving" => 1 .. version \subseteq recorded

FirstFiles == \A f \in recorded : 1 .. f \subseteq recorded

MigrationInv == TypeOK /\ FirstFiles /\ RecordedIsComplete /\ InFileOrder /\ Progressed

-----------------------------------------------------------------------------
(* Files and their statements. *)

LEMMA FilesShape ==
  /\ Len(Files) \in Nat /\ DOMAIN Files = 1 .. Len(Files)
  /\ \A f \in DOMAIN Files : /\ Len(Files[f]) \in Nat \ {0}
                             /\ DOMAIN Files[f] = 1 .. Len(Files[f])
<1>1. Len(Files) \in Nat /\ DOMAIN Files = 1 .. Len(Files)
  BY MigrationsAssumption
<1>2. ASSUME NEW f \in DOMAIN Files
      PROVE  Len(Files[f]) \in Nat \ {0} /\ DOMAIN Files[f] = 1 .. Len(Files[f])
  <2>1. Files[f] \in Seq(BOOLEAN) /\ Files[f] # <<>>
    BY <1>1, MigrationsAssumption
  <2> QED BY <2>1
<1> QED BY <1>1, <1>2

LEMMA StatementsAre ==
  \A s : s \in Statements <=> \E f \in DOMAIN Files : \E n \in DOMAIN Files[f] : s = <<f, n>>
BY DEF Statements

\* A file that is in effect, with all that precedes it, precedes the next one.
LEMMA PrecedingFile ==
  ASSUME NEW f \in DOMAIN Files, 1 .. f - 1 \subseteq recorded, RecordedIsComplete
  PROVE  Preceding(f, 1) \subseteq effects
<1> SUFFICES ASSUME NEW s \in Preceding(f, 1) PROVE s \in effects
  OBVIOUS
<1>1. PICK g \in DOMAIN Files : \E n \in DOMAIN Files[g] : s = <<g, n>>
  BY StatementsAre DEF Preceding
<1>2. g < f
  BY <1>1, FilesShape DEF Preceding
<1>3. g \in recorded
  BY <1>2, FilesShape
<1> QED BY <1>1, <1>3 DEF RecordedIsComplete, Complete

\* The statement that takes effect is the only one more that precedes the next.
LEMMA PrecedingStatement ==
  ASSUME NEW f \in DOMAIN Files, NEW n \in DOMAIN Files[f], Preceding(f, n) \subseteq effects
  PROVE  /\ Preceding(f, n + 1) \subseteq effects \cup {<<f, n>>}
         /\ n = Len(Files[f]) => \A m \in DOMAIN Files[f] : <<f, m>> \in effects \cup {<<f, n>>}
<1>1. ASSUME NEW s \in Preceding(f, n + 1) PROVE s \in effects \cup {<<f, n>>}
  <2>0. PICK g \in DOMAIN Files : \E m \in DOMAIN Files[g] : s = <<g, m>>
    BY <1>1, StatementsAre DEF Preceding
  <2>1. PICK m \in DOMAIN Files[g] : s = <<g, m>>
    BY <2>0
  <2>2. g < f \/ (g = f /\ m < n) \/ (g = f /\ m = n)
    BY <1>1, <2>1, FilesShape DEF Preceding
  <2>3. s \in Preceding(f, n) \/ s = <<f, n>>
    BY <1>1, <2>1, <2>2 DEF Preceding
  <2> QED BY <2>3
<1>2. ASSUME n = Len(Files[f]), NEW m \in DOMAIN Files[f], m # n
      PROVE  <<f, m>> \in effects
  <2>1. m < n
    BY <1>2, FilesShape
  <2>2. <<f, m>> \in Preceding(f, n)
    BY <2>1, StatementsAre DEF Preceding
  <2> QED BY <2>2
<1> QED BY <1>1, <1>2

-----------------------------------------------------------------------------
(* Steps. *)

LEMMA InitEstablishes == Init => MigrationInv
BY FilesShape, MigrationsAssumption
DEF Init, MigrationInv, TypeOK, FirstFiles, RecordedIsComplete, InFileOrder, Progressed

\* What does not touch the database keeps what is said of it.
LEMMA DatabaseKept ==
  ASSUME MigrationInv, UNCHANGED <<effects, recorded>>
  PROVE  FirstFiles' /\ RecordedIsComplete' /\ InFileOrder'
BY DEF MigrationInv, FirstFiles, RecordedIsComplete, Complete, InFileOrder, Preceding

LEMMA StartKeeps == MigrationInv /\ Start => MigrationInv'
<1> SUFFICES ASSUME MigrationInv, Start PROVE MigrationInv'
  OBVIOUS
<1>1. TypeOK' /\ Progressed'
  BY FilesShape DEF MigrationInv, TypeOK, Progressed, Start
<1> QED BY <1>1, DatabaseKept DEF MigrationInv, Start

LEMMA ServeKeeps == MigrationInv /\ Serve => MigrationInv'
<1> SUFFICES ASSUME MigrationInv, Serve PROVE MigrationInv'
  OBVIOUS
<1>1. TypeOK' /\ Progressed'
  BY FilesShape DEF MigrationInv, TypeOK, Progressed, Serve
<1> QED BY <1>1, DatabaseKept DEF MigrationInv, Serve

LEMMA CheckKeeps == MigrationInv /\ Check => MigrationInv'
<1> SUFFICES ASSUME MigrationInv, Check PROVE MigrationInv'
  OBVIOUS
<1> USE DEF MigrationInv
<1>1. version \in DOMAIN Files /\ file \in DOMAIN Files /\ 1 .. file - 1 \subseteq recorded
      /\ file \in 1 .. version
  BY FilesShape DEF Check, Progressed, TypeOK
<1>2. TypeOK'
  BY <1>1, FilesShape DEF TypeOK, Check
<1>3. CASE file \in recorded
  BY <1>1, <1>2, <1>3, DatabaseKept, FilesShape DEF Progressed, Check
<1>4. CASE file \notin recorded
  <2>1. 1 \in DOMAIN Files[file]
    BY <1>1, FilesShape
  <2>2. Preceding(file, 1) \subseteq effects
    BY <1>1, PrecedingFile
  <2>3. Progressed'
    BY <1>1, <1>4, <2>1, <2>2 DEF Progressed, Reached, Check, Preceding
  <2> QED BY <1>2, <2>3, DatabaseKept DEF Check
<1> QED BY <1>3, <1>4

LEMMA ExecKeeps == MigrationInv /\ Exec => MigrationInv'
<1> SUFFICES ASSUME MigrationInv, Exec PROVE MigrationInv'
  OBVIOUS
<1> USE DEF MigrationInv
<1> DEFINE here == <<file, statement>>
<1>1. /\ file \in DOMAIN Files /\ statement \in DOMAIN Files[file]
      /\ Reached(file) /\ Preceding(file, statement) \subseteq effects
      /\ version \in DOMAIN Files
  BY FilesShape DEF Exec, Progressed, TypeOK, Reached
<1>2. CASE here \in effects /\ ~Files[file][statement]
  <2>1. TypeOK' /\ Progressed'
    BY <1>2, FilesShape DEF TypeOK, Progressed, Exec
  <2> QED BY <1>2, <2>1, DatabaseKept DEF Exec
<1>3. CASE ~(here \in effects /\ ~Files[file][statement])
  <2>1. effects' = effects \cup {here} /\ UNCHANGED <<recorded, version, file, crashes>>
    BY <1>3 DEF Exec
  <2>2. here \in Statements
    BY <1>1, StatementsAre
  <2>3. TypeOK'
    BY <1>1, <1>3, <2>1, <2>2, FilesShape DEF TypeOK, Exec
  <2>4. FirstFiles' /\ RecordedIsComplete'
    BY <2>1 DEF FirstFiles, RecordedIsComplete, Complete
  <2>5. InFileOrder'
    <3> SUFFICES ASSUME NEW s \in effects' PROVE Preceding(s[1], s[2]) \subseteq effects'
      BY DEF InFileOrder, Preceding
    <3>1. CASE s = here
      BY <1>1, <2>1, <3>1
    <3>2. CASE s \in effects
      BY <2>1, <3>2 DEF InFileOrder
    <3> QED BY <2>1, <3>1, <3>2
  <2>6. /\ Preceding(file, statement + 1) \subseteq effects'
        /\ statement = Len(Files[file]) => Complete(file)'
    BY <1>1, <2>1, PrecedingStatement DEF Complete
  <2>7. CASE statement < Len(Files[file])
    <3>1. statement + 1 \in DOMAIN Files[file]
      BY <1>1, <2>7, FilesShape
    <3>2. pc' = "exec" /\ statement' = statement + 1
      BY <1>3, <2>7 DEF Exec
    <3>3. Progressed'
      BY <1>1, <2>1, <2>6, <3>1, <3>2 DEF Progressed, Reached, Preceding
    <3> QED BY <2>3, <2>4, <2>5, <3>3
  <2>8. CASE ~(statement < Len(Files[file]))
    <3>1. statement = Len(Files[file]) /\ pc' = "record"
      BY <1>1, <1>3, <2>8, FilesShape DEF Exec
    <3>2. Progressed'
      BY <1>1, <2>1, <2>6, <3>1 DEF Progressed, Reached
    <3> QED BY <2>3, <2>4, <2>5, <3>2
  <2> QED BY <2>7, <2>8
<1> QED BY <1>2, <1>3

LEMMA RecordKeeps == MigrationInv /\ Record => MigrationInv'
<1> SUFFICES ASSUME MigrationInv, Record PROVE MigrationInv'
  OBVIOUS
<1> USE DEF MigrationInv
<1>1. file \in DOMAIN Files /\ Reached(file) /\ Complete(file) /\ version \in DOMAIN Files
  BY FilesShape DEF Record, Progressed, TypeOK, Reached
<1>2. TypeOK'
  BY <1>1, FilesShape DEF TypeOK, Record
<1>3. FirstFiles' /\ RecordedIsComplete'
  <2>1. 1 .. file \subseteq recorded'
    BY <1>1, FilesShape DEF Record, Reached
  <2> QED BY <1>1, <2>1 DEF FirstFiles, RecordedIsComplete, Complete, Record
<1>4. InFileOrder'
  BY DEF InFileOrder, Preceding, Record
<1>5. Progressed'
  BY <1>1, FilesShape DEF Progressed, Reached, Record
<1> QED BY <1>2, <1>3, <1>4, <1>5

LEMMA CrashKeeps == MigrationInv /\ Crash => MigrationInv'
<1> SUFFICES ASSUME MigrationInv, Crash PROVE MigrationInv'
  OBVIOUS
<1>1. TypeOK' /\ Progressed'
  BY MigrationsAssumption DEF MigrationInv, TypeOK, Progressed, Crash
<1> QED BY <1>1, DatabaseKept DEF MigrationInv, Crash

LEMMA MigrationInvariant == Spec => []MigrationInv
<1>1. MigrationInv /\ UNCHANGED vars => MigrationInv'
  BY DEF vars, MigrationInv, TypeOK, FirstFiles, RecordedIsComplete, Complete, InFileOrder,
         Preceding, Progressed, Reached
<1>2. MigrationInv /\ [Next]_vars => MigrationInv'
  BY <1>1, StartKeeps, ServeKeeps, CheckKeeps, ExecKeeps, RecordKeeps, CrashKeeps DEF Next, Run
<1> QED BY <1>2, InitEstablishes, PTL DEF Spec

-----------------------------------------------------------------------------
(* Theorems. *)

\* The bookkeeping keeps its type, whatever the files are.
THEOREM MigrationsTyped == Spec => []TypeOK
BY MigrationInvariant, PTL DEF MigrationInv

\* A program that serves has its whole schema, after any crashes, upgrades and
\* downgrades (sqlite.go:56-79).
THEOREM SchemaIsServed == Spec => []ServesItsSchema
<1>1. MigrationInv => ServesItsSchema
  BY DEF MigrationInv, Progressed, RecordedIsComplete, ServesItsSchema
<1> QED BY <1>1, MigrationInvariant, PTL

\* A recorded file has been run to its end, so that skipping it is right
\* (sqlite.go:65-67).
THEOREM RecordsAreComplete == Spec => []RecordedIsComplete
BY MigrationInvariant, PTL DEF MigrationInv

\* No statement takes effect before one that precedes it (sqlite.go:57-72).
THEOREM StatementsInOrder == Spec => []InFileOrder
BY MigrationInvariant, PTL DEF MigrationInv
=============================================================================
