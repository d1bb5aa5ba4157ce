--------------------------- MODULE StoreProperties ---------------------------
(***************************************************************************)
(* What Store promises: that it implements Catalog, and what is left of    *)
(* that promise when requests overlap on any connections.                  *)
(*                                                                         *)
(* It implements Catalog where every statement runs on the connection that *)
(* enforces foreign keys (Serial), and, on any connections, for requests   *)
(* that neither delete nor have anything to do with what they have read    *)
(* (Quiet).                                                                *)
(***************************************************************************)
EXTENDS Store

\* A toggle takes effect at its UPDATE, two or three reads before its answer.
ReadingBack(s) == Op(s) = "ToggleFlag" /\ pc[s] \in {"flagRow", "rules", "links"}

Reply(s) ==
  IF ReadingBack(s)
  THEN IF HasFlag(db, req[s].flag) THEN Answer(200, FlagIn(db, req[s].flag))
       ELSE Answer(404, NoBody)
  ELSE out[s]

Abstract == INSTANCE Catalog WITH cdb <- db, call <- req, reply <- [s \in Sessions |-> Reply(s)]

\* Every request takes effect at one instant, entirely or not at all, and the
\* answer its handler gives is the one for that instant: the statements of
\* internal/store, with the transactions and early returns around them,
\* implement the catalogue.
ImplementsCatalog == Abstract!CatalogSpec

\* One request at a time.
Serial == \A s, t \in Sessions : s = t

\* The requests that delete nothing and take from the rows they have read no more
\* than whether they are there, and their type.
QuietOps == {"CreateFlag", "CreateRule", "UpdateRule", "CreateSegment", "UpdateSegment"}

\* Requests whose overlap the store survives on any connections.  UpdateSegment
\* writes back, and answers with, what it has read and is not asked to replace.
Quiet == \A r \in Workload :
  /\ r.op \in QuietOps
  /\ r.op = "UpdateSegment" => r.text # Absent /\ r.conds # Absent

\* What the migrations and the validation are to keep of a database.
Sound(d) == ReferentialIntegrity(d) /\ IdsFresh(d) /\ Guarded(d) /\ DefaultsTyped(d)

\* Overlapping requests that are Quiet leave no link to a segment that is not
\* there, no rule without its flag and nothing that matches everyone, on
\* connections that enforce no foreign key: validateSegmentKeys is in the
\* transaction, and what a request takes for granted is not taken away.
StaysSound == Sound(db)

\* A rule as getRulesForFlag returns it.
RuleViews == [value : Values \cup {NoValue}, priority : Int, rollout : 0 .. 100,
              conds : Seq(Conditions), segs : SUBSET SegmentKeys]

\* A flag row, rules of it and segments they name, as far as they are read.
IsView(v) ==
  /\ v = [row |-> v.row, rules |-> v.rules, todo |-> v.todo, text |-> v.text,
           segments |-> v.segments]
  /\ v.row \in FlagRow \cup {Absent}
  /\ DOMAIN v.rules \subseteq RuleIds /\ v.rules \in [DOMAIN v.rules -> RuleViews]
  /\ v.todo \subseteq SegmentKeys /\ v.text \in Descriptions \cup {Absent}
  /\ DOMAIN v.segments \subseteq SegmentKeys
  /\ v.segments \in [DOMAIN v.segments -> Seq(Conditions)]

\* The variables hold what their names say.
TypeOK == /\ db \in Database
          /\ free \in [Kinds -> 0 .. MaxIdle]
          /\ conn \in [Sessions -> Kinds \cup {Absent}]
          /\ req \in [Sessions -> Workload \cup {Absent}]
          /\ pc \in [Sessions -> Statements \cup {"idle", "handler", "returned"}]
          /\ \A s \in Sessions : IsView(view[s])
          /\ work \in [Sessions -> Database \cup {Absent}]
          /\ stale \subseteq Sessions

\* Every request is answered: no statement waits for a transaction that nobody
\* ends (the deferred Rollback of every transaction).
Answered == \A s \in Sessions : req[s] # Absent ~> req[s] = Absent

\* No transaction links a rule to a segment that is not there when it commits:
\* validateSegmentKeys reads in the transaction that writes the link.
NewLinksAreLive == [][\A l \in db'.links \ db.links : l[2] \in db'.segs]_vars

\* A rule that was deleted never comes back: the UPDATE of UpdateRule runs in
\* the transaction that puts its conditions and links in place, and ids are not
\* handed out again (flags.go:207, AUTOINCREMENT in migrations/001).
NoRuleReturns ==
  [][\A i \in RuleIds : i < db.nextRule /\ db.rules[i] = Absent => db'.rules[i] = Absent]_vars

\* A stored rule is what one request asked for: its value and conditions are
\* those of one CreateRule or UpdateRule, never a mixture of two, and it is
\* linked to no segment that this request did not name.
RulesAreWhole ==
  \A i \in RuleIds : db.rules[i] # Absent =>
    \E r \in Workload : /\ r.op \in {"CreateRule", "UpdateRule"}
                        /\ db.rules[i] = RuleRowOf(r) /\ db.conds[i] = r.conds
                        /\ LinksOf(db, i) \subseteq KeysIn(r.segs)

\* Deleting a row takes everything that refers to it along: the comment "Enable
\* WAL mode and foreign keys" (sqlite.go:23) over the ON DELETE CASCADEs of the
\* migrations.
DeletesCascade == ReferentialIntegrity(db)
=============================================================================
