-------------------------------- MODULE Store --------------------------------
(***************************************************************************)
(* internal/store behind the handlers of internal/api: concurrent requests *)
(* that run one SQL statement after another on a pool of connections to    *)
(* one SQLite database.                                                    *)
(*                                                                         *)
(* A statement outside a transaction takes a connection of the pool, runs  *)
(* atomically and puts the connection back.  A transaction keeps its       *)
(* connection: its writes go to a working copy nobody else sees, under the *)
(* write lock, and Commit installs the copy.  The database is in WAL mode: *)
(* readers never wait, and a transaction that has read cannot write after  *)
(* another one has committed (SQLITE_BUSY_SNAPSHOT).                       *)
(*                                                                         *)
(* The connection that NewSQLiteStore ran its PRAGMAs on enforces foreign  *)
(* keys ("fk"); any other connection the pool opens does not ("plain").    *)
(***************************************************************************)
EXTENDS Requests

CONSTANTS
  Sessions,    \* the goroutines that serve HTTP requests
  MaxIdle,     \* connections the pool keeps when idle (database/sql keeps 2)
  MaxSegConds  \* bound on the conditions stored under a segment key

VARIABLES
  db,          \* the committed database
  free,        \* free[k]: idle connections of kind k in the pool
  conn,        \* conn[s]: the kind of connection s holds, Absent if none
  req,         \* req[s]: the request s serves, Absent between requests
  pc,          \* pc[s]: the statement s runs next
  view,        \* view[s]: what s has read so far
  work,        \* work[s]: the uncommitted database of the transaction of s, or Absent
  stale,       \* sessions that read in a transaction before another one committed
  out          \* out[s]: the answer of s, NoReply until there is one

vars == <<db, free, conn, req, pc, view, work, stale, out>>

Kinds == {"fk", "plain"}

ASSUME StoreAssumption == /\ IsFiniteSet(Sessions)
                          /\ MaxIdle \in Nat \ {0} /\ MaxSegConds \in Nat
                          /\ Absent \notin Kinds

Reads == {"flagRow", "rules", "links", "segRow", "segConds", "count"}

\* "exec" is a write outside a transaction; "validate", "upgrade", "write" and
\* "commit" are the steps of one: it writes at "upgrade" if it has read before,
\* at "write" if it has not.
Statements == Reads \cup {"exec", "validate", "upgrade", "write", "commit"}

NoView == [row |-> Absent, rules |-> <<>>, todo |-> {}, text |-> Absent, segments |-> <<>>]

Nobody == [s \in Sessions |-> Absent]

Op(s) == IF req[s] = Absent THEN "none" ELSE req[s].op

-----------------------------------------------------------------------------
(* Parts of steps. *)

\* Session s goes on with statement p; v is what it still needs of its reads.
Goto(s, p, v) == /\ pc' = [pc EXCEPT ![s] = p]
                 /\ view' = [view EXCEPT ![s] = v]
                 /\ UNCHANGED out

Finish(s, status, body) == /\ pc' = [pc EXCEPT ![s] = "returned"]
                           /\ view' = [view EXCEPT ![s] = NoView]
                           /\ out' = [out EXCEPT ![s] = Answer(status, body)]

\* Session s runs statement p on the connection it holds.
At(s, p) == pc[s] = p /\ conn[s] # Absent

FK(s) == conn[s] = "fk"

\* The connection goes back to the pool, which closes it if it has enough.
Release(s) ==
  /\ conn' = [conn EXCEPT ![s] = Absent]
  /\ free' = IF free["fk"] + free["plain"] < MaxIdle
             THEN [free EXCEPT ![conn[s]] = @ + 1] ELSE free

Keep == UNCHANGED <<conn, free>>

\* Some other session is in a transaction that has written.
Locked(s) == \E t \in Sessions \ {s} : work[t] # Absent

\* A write of s becomes visible: transactions that have read before it are
\* too late to write.
Install(s, d) == /\ db' = d
                 /\ stale' = stale \cup {t \in Sessions \ {s} : pc[t] = "upgrade"}

\* The first statement of a rule's transaction: no keys, nothing to validate.
Begin(r) == IF r.segs = <<>> THEN "write" ELSE "validate"

\* The first step of the request, after the handler's own checks.
FirstStep(r) ==
  CASE r.op \in {"CreateFlag", "DeleteFlag", "ToggleFlag", "DeleteRule"}   -> "exec"
    [] r.op \in {"GetFlag", "UpdateFlag", "CreateRule", "Evaluate"}        -> "flagRow"
    [] r.op \in {"GetSegment", "UpdateSegment"}                            -> "segRow"
    [] r.op = "DeleteSegment"                                              -> "count"
    [] r.op = "UpdateRule"                                                 -> Begin(r)
    [] r.op = "CreateSegment"                                              -> "write"

\* Mutant: CreateFlag does not validate its default value.
RefusedUnlessFlag(r) == \/ r.op = "UpdateRule" /\ ~ValidRule(r)
                        \/ r.op = "CreateSegment" /\ ~ValidSegment(r.conds)
                        \/ r.op = "UpdateSegment" /\ r.conds # Absent /\ ~ValidSegment(r.conds)

\* Requests the handler refuses without asking the store.
Refused(r) == \/ r.op = "CreateFlag" /\ ~ValidFlag(r)
              \/ r.op = "UpdateRule" /\ ~ValidRule(r)
              \/ r.op = "CreateSegment" /\ ~ValidSegment(r.conds)
              \/ r.op = "UpdateSegment" /\ r.conds # Absent /\ ~ValidSegment(r.conds)

-----------------------------------------------------------------------------
(* Requests and connections. *)

Init == /\ db \in Stored
        /\ free = [k \in Kinds |-> IF k = "fk" THEN 1 ELSE 0]
        /\ conn = Nobody /\ req = Nobody /\ work = Nobody
        /\ out = [s \in Sessions |-> NoReply]
        /\ pc = [s \in Sessions |-> "idle"]
        /\ view = [s \in Sessions |-> NoView]
        /\ stale = {}

CreatingRules == {s \in Sessions : Op(s) = "CreateRule"}

\* Bounds: CreateRules are not sent beyond MaxRule, nor CreateSegments for a
\* key that has more than MaxSegConds conditions (some may be left over).
Start(s, r) ==
  /\ pc[s] = "idle"
  /\ r.op = "CreateRule" => db.nextRule + Cardinality(CreatingRules) <= MaxRule
  /\ r.op = "CreateSegment" => Len(db.segConds[r.segment]) <= MaxSegConds
  /\ req' = [req EXCEPT ![s] = r]
  /\ Goto(s, "handler", NoView)
  /\ UNCHANGED <<db, free, conn, work, stale>>

\* What the handler does before it calls the store.
Validate(s) ==
  LET r == req[s] IN
  /\ pc[s] = "handler"
  /\ IF Refused(r) THEN Finish(s, 400, NoBody)
     ELSE Goto(s, FirstStep(r), [NoView EXCEPT !.todo =
            IF r.op \in {"GetSegment", "UpdateSegment"} THEN {r.segment} ELSE {}])
  /\ UNCHANGED <<db, free, conn, req, work, stale>>

\* An idle connection of the pool, or a new one when there is none.
Acquire(s) ==
  /\ pc[s] \in Statements /\ conn[s] = Absent
  /\ \/ \E k \in Kinds : /\ free[k] > 0
                         /\ free' = [free EXCEPT ![k] = @ - 1]
                         /\ conn' = [conn EXCEPT ![s] = k]
     \/ /\ \A k \in Kinds : free[k] = 0
        /\ conn' = [conn EXCEPT ![s] = "plain"]
        /\ UNCHANGED free
  /\ UNCHANGED <<db, req, pc, view, work, stale, out>>

Respond(s) ==
  /\ pc[s] = "returned"
  /\ pc' = [pc EXCEPT ![s] = "idle"]
  /\ req' = [req EXCEPT ![s] = Absent]
  /\ out' = [out EXCEPT ![s] = NoReply]
  /\ UNCHANGED <<db, free, conn, view, work, stale>>

-----------------------------------------------------------------------------
(* Reads. *)

ReadOnly(s) == Release(s) /\ UNCHANGED <<db, req, work, stale>>

ReadFlagRow(s) ==
  /\ At(s, "flagRow") /\ ReadOnly(s)
  /\ IF HasFlag(db, req[s].flag)
     THEN Goto(s, "rules", [NoView EXCEPT !.row = db.flags[req[s].flag]])
     ELSE Finish(s, 404, NoBody)

\* Where a request goes on once the flag v is read.
FlagRead(s, v) ==
  LET r == req[s] IN
  CASE r.op = "GetFlag"    -> Finish(s, 200, FlagView(v.row, v.rules, <<>>))
    [] r.op = "ToggleFlag" -> Finish(s, 200, FlagView(v.row, v.rules, <<>>))
    [] r.op = "UpdateFlag" -> IF r.default = Absent \/ r.default \in ValuesOf[v.row.type]
                              THEN Goto(s, "exec", v)
                              ELSE Finish(s, 400, NoBody)
    [] r.op = "CreateRule" -> IF ValidRule(r) /\ r.value \in ValuesOf[v.row.type]
                              THEN Goto(s, Begin(r), NoView)
                              ELSE Finish(s, 400, NoBody)
    [] r.op = "Evaluate"   -> IF v.todo # {} THEN Goto(s, "segRow", v)
                              ELSE Finish(s, 200, Evaluate(FlagView(v.row, v.rules, v.segments),
                                                           r.ctx))

\* The rules with their conditions, in one statement.
ReadRules(s) ==
  LET f == req[s].flag
      v == [view[s] EXCEPT !.rules =
              [i \in RulesOf(db, f) |-> RuleView(db.rules[i], db.conds[i], {})]]
  IN  /\ At(s, "rules") /\ ReadOnly(s)
      /\ IF RulesOf(db, f) = {} THEN FlagRead(s, v) ELSE Goto(s, "links", v)

\* Mutant: the rules are read again, and only those read before get their keys.
ReadLinksThenRules(s) ==
  LET f == req[s].flag
      segs(i) == IF i \in DOMAIN view[s].rules THEN LinksOf(db, i) ELSE {}
      linked == [i \in RulesOf(db, f) |-> RuleView(db.rules[i], db.conds[i], segs(i))]
      v == [view[s] EXCEPT !.rules = linked,
                           !.todo  = IF req[s].op = "Evaluate" THEN SegmentsUsed(linked) ELSE {}]
  IN  /\ At(s, "links") /\ ReadOnly(s)
      /\ FlagRead(s, v)

\* The segment keys of those rules, in a second statement.
ReadLinks(s) ==
  LET linked == [i \in DOMAIN view[s].rules |->
                   [view[s].rules[i] EXCEPT !.segs = LinksOf(db, i)]]
      v == [view[s] EXCEPT !.rules = linked,
                           !.todo  = IF req[s].op = "Evaluate" THEN SegmentsUsed(linked) ELSE {}]
  IN  /\ At(s, "links") /\ ReadOnly(s)
      /\ FlagRead(s, v)

\* Where a request goes on once a segment is read, or found missing.
SegmentRead(s, v, g) ==
  CASE req[s].op = "GetSegment"    -> IF g \in DOMAIN v.segments
                                      THEN Finish(s, 200, SegmentView(v.text, v.segments[g]))
                                      ELSE Finish(s, 404, NoBody)
    [] req[s].op = "UpdateSegment" -> IF g \in DOMAIN v.segments
                                      THEN Goto(s, "write", v) ELSE Finish(s, 404, NoBody)
    [] req[s].op = "Evaluate"      -> FlagRead(s, v)

\* The segments read so far and segment g, its conditions still to be read.
Found(segments, g) == [k \in DOMAIN segments \cup {g} |-> IF k = g THEN <<>> ELSE segments[k]]

\* GetFlagForEvaluation ranges over a map: the segments come in any order.
ReadSegmentRow(s) ==
  /\ At(s, "segRow") /\ ReadOnly(s)
  /\ \E g \in view[s].todo :
       IF g \in db.segs
       THEN Goto(s, "segConds", [view[s] EXCEPT !.text = db.about[g],
                                                !.segments = Found(@, g)])
       ELSE SegmentRead(s, [view[s] EXCEPT !.todo = @ \ {g}], g)

\* The segment whose row was read last.
ReadSegmentConds(s) ==
  LET g == CHOOSE k \in view[s].todo : k \in DOMAIN view[s].segments
      v == [view[s] EXCEPT !.todo = @ \ {g}, !.segments[g] = db.segConds[g]]
  IN  /\ At(s, "segConds") /\ ReadOnly(s)
      /\ SegmentRead(s, v, g)

\* Mutant: the count is not looked at.
CountLinksInVain(s) == At(s, "count") /\ ReadOnly(s) /\ Goto(s, "exec", NoView)

CountLinks(s) ==
  /\ At(s, "count") /\ ReadOnly(s)
  /\ IF InUse(db, req[s].segment) THEN Finish(s, 409, NoBody) ELSE Goto(s, "exec", NoView)

-----------------------------------------------------------------------------
(* Writes outside a transaction. *)

Exec(s, op) == /\ At(s, "exec") /\ req[s].op = op /\ ~Locked(s)
               /\ Release(s) /\ UNCHANGED <<req, work>>

NoRow == UNCHANGED <<db, stale>>

ExecCreateFlag(s) ==
  LET r == req[s] IN
  /\ Exec(s, "CreateFlag")
  /\ IF HasFlag(db, r.flag) THEN NoRow /\ Finish(s, 409, NoBody)
     ELSE Install(s, PutFlag(db, r.flag, FlagRowOf(r))) /\ Finish(s, 201, NoBody)

\* Writes back every column of the row that was read before but its type, and
\* answers with what was read; hitting no row is no error.
ExecUpdateFlag(s) ==
  LET f   == req[s].flag
      row == Merge(view[s].row, req[s])
  IN  /\ Exec(s, "UpdateFlag")
      /\ IF HasFlag(db, f)
         THEN Install(s, [db EXCEPT !.flags[f].enabled = row.enabled,
                                    !.flags[f].default = row.default])
         ELSE NoRow
      /\ Finish(s, 200, FlagView(row, view[s].rules, <<>>))

ExecDeleteFlag(s) ==
  LET f == req[s].flag IN
  /\ Exec(s, "DeleteFlag")
  /\ IF HasFlag(db, f) THEN Install(s, DropFlag(db, f, FK(s))) /\ Finish(s, 204, NoBody)
     ELSE NoRow /\ Finish(s, 404, NoBody)

\* Then reads the flag back.
ExecToggleFlag(s) ==
  LET f == req[s].flag IN
  /\ Exec(s, "ToggleFlag")
  /\ IF HasFlag(db, f) THEN Install(s, Toggle(db, f)) ELSE NoRow
  /\ Goto(s, "flagRow", NoView)

ExecDeleteRule(s) ==
  LET r == req[s] IN
  /\ Exec(s, "DeleteRule")
  /\ IF HasRule(db, r.flag, r.rule)
     THEN Install(s, DropRules(db, {r.rule}, FK(s))) /\ Finish(s, 204, NoBody)
     ELSE NoRow /\ Finish(s, 404, NoBody)

ExecDeleteSegment(s) ==
  LET g == req[s].segment IN
  /\ Exec(s, "DeleteSegment")
  /\ IF g \in db.segs
     THEN Install(s, DropSegment(db, g, FK(s))) /\ Finish(s, 204, NoBody)
     ELSE NoRow /\ Finish(s, 404, NoBody)

-----------------------------------------------------------------------------
(* Transactions. *)

\* An error: the deferred Rollback ends the transaction.
Abort(s) == /\ Release(s)
            /\ stale' = stale \ {s}
            /\ Finish(s, ErrorStatus(req[s].op), NoBody)
            /\ UNCHANGED <<db, work>>

\* A read fails.  A toggle that reads the flag back has taken effect.
ReadFails(s) == /\ \E p \in Reads \cup {"validate"} : At(s, p)
                /\ Abort(s)
                /\ UNCHANGED req

\* Mutant: the keys are not validated.
ValidateNoKeys(s) == /\ At(s, "validate")
                     /\ Goto(s, "upgrade", NoView)
                     /\ Keep /\ UNCHANGED <<db, req, work, stale>>

\* Mutant: the keys are validated before the transaction begins.
ValidateSegmentKeysFirst(s) ==
  /\ At(s, "validate")
  /\ IF KeysIn(req[s].segs) \subseteq db.segs
     THEN Goto(s, "write", NoView) /\ Keep /\ UNCHANGED <<db, work, stale>>
     ELSE Abort(s)
  /\ UNCHANGED req

\* validateSegmentKeys, in the transaction.
ValidateSegmentKeys(s) ==
  /\ At(s, "validate")
  /\ IF KeysIn(req[s].segs) \subseteq db.segs
     THEN Goto(s, "upgrade", NoView) /\ Keep /\ UNCHANGED <<db, work, stale>>
     ELSE Abort(s)
  /\ UNCHANGED req

\* The database the writes of the transaction leave, or Absent on an error.
Written(s) ==
  LET r == req[s] IN
  CASE r.op = "CreateRule"    -> InsertRule(db, RuleRowOf(r), r.conds, r.segs, FK(s))
    [] r.op = "UpdateRule"    -> RewriteRule(db, r.rule, RuleRowOf(r), r.conds, r.segs, FK(s))
    [] r.op = "CreateSegment" -> InsertSegment(db, r.segment, r.text, r.conds)
    [] r.op = "UpdateSegment" -> RewriteSegment(db, r.segment, TextOf(r, view[s].text),
                                                r.conds, FK(s))

\* Mutant: another transaction may be writing.
WriteTransactionUnlocked(s) ==
  /\ At(s, "write") \/ At(s, "upgrade")
  /\ RuleIdLeft(db, req[s])
  /\ IF s \in stale \/ Written(s) = Absent
     THEN Abort(s)
     ELSE /\ work' = [work EXCEPT ![s] = Written(s)]
          /\ Goto(s, "commit", view[s]) /\ Keep /\ UNCHANGED <<db, stale>>
  /\ UNCHANGED req

WriteTransaction(s) ==
  /\ At(s, "write") \/ At(s, "upgrade")
  /\ ~Locked(s) \/ s \in stale
  /\ RuleIdLeft(db, req[s])
  /\ IF s \in stale \/ Written(s) = Absent
     THEN Abort(s)
     ELSE /\ work' = [work EXCEPT ![s] = Written(s)]
          /\ Goto(s, "commit", view[s]) /\ Keep /\ UNCHANGED <<db, stale>>
  /\ UNCHANGED req

\* The segment as it was read, with what the request names replaced.
UpdatedSegment(s) ==
  SegmentView(TextOf(req[s], view[s].text),
              IF req[s].conds = Absent THEN view[s].segments[req[s].segment]
              ELSE req[s].conds)

Committed(s) ==
  CASE req[s].op \in {"CreateRule", "CreateSegment"} -> Finish(s, 201, NoBody)
    [] req[s].op = "UpdateRule"                      -> Finish(s, 200, NoBody)
    [] req[s].op = "UpdateSegment"                   -> Finish(s, 200, UpdatedSegment(s))

\* Mutant: the transaction is never ended.
CommitOpen(s) ==
  /\ At(s, "commit")
  /\ Install(s, work[s])
  /\ Committed(s)
  /\ Release(s)
  /\ UNCHANGED <<req, work>>

Commit(s) ==
  /\ At(s, "commit")
  /\ Install(s, work[s])
  /\ work' = [work EXCEPT ![s] = Absent]
  /\ Committed(s)
  /\ Release(s)
  /\ UNCHANGED req

\* SQLITE_BUSY: another connection is writing, and this one's busy_timeout is
\* zero ("plain") or runs out.
Busy(s) ==
  /\ At(s, "exec") \/ At(s, "write") \/ At(s, "upgrade")
  /\ \E t \in Sessions \ {s} : \E p \in {"exec", "write", "upgrade", "commit"} : At(t, p)
  /\ Abort(s)
  /\ UNCHANGED req

-----------------------------------------------------------------------------
(* Behaviour. *)

\* The process dies and is started again: transactions under way are gone, and
\* the first connection of the new pool gets the PRAGMAs.
Crash == /\ free' = [k \in Kinds |-> IF k = "fk" THEN 1 ELSE 0]
         /\ conn' = Nobody /\ req' = Nobody /\ work' = Nobody
         /\ out' = [s \in Sessions |-> NoReply]
         /\ pc' = [s \in Sessions |-> "idle"]
         /\ view' = [s \in Sessions |-> NoView]
         /\ stale' = {}
         /\ UNCHANGED db

Read(s) == \/ ReadFlagRow(s) \/ ReadRules(s) \/ ReadLinks(s)
           \/ ReadSegmentRow(s) \/ ReadSegmentConds(s) \/ CountLinks(s)

Write(s) == \/ ExecCreateFlag(s) \/ ExecUpdateFlag(s) \/ ExecDeleteFlag(s)
            \/ ExecToggleFlag(s) \/ ExecDeleteRule(s) \/ ExecDeleteSegment(s)
            \/ ValidateSegmentKeys(s) \/ WriteTransaction(s) \/ Commit(s) \/ Busy(s)

Step(s) == Validate(s) \/ Acquire(s) \/ Read(s) \/ Write(s) \/ Respond(s)

Next == \/ \E s \in Sessions : Step(s) \/ ReadFails(s) \/ \E r \in Workload : Start(s, r)
        \/ Crash

Spec == Init /\ [][Next]_vars

\* The Go scheduler runs every goroutine, and the timeouts of the database end.
FairSpec == Spec /\ \A s \in Sessions : WF_vars(Step(s))
=============================================================================
