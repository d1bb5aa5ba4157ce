----------------------------- MODULE StoreProofs -----------------------------
(***************************************************************************)
(* What holds of the store for any workload, any number of overlapping     *)
(* requests and any connections, whichever of them enforce foreign keys:   *)
(* the database keeps its types, a rule is what one request asked for, and *)
(* no transaction links a rule to a segment that is not there.             *)
(*                                                                         *)
(* A transaction that writes holds the only lock, so that the database is  *)
(* what it was when it began to write; a transaction that has read its     *)
(* segment keys and not written yet is stale as soon as anyone else        *)
(* changes the database.                                                   *)
(***************************************************************************)
EXTENDS StoreProperties, FiniteSetTheorems, SequenceTheorems, TLAPS

FlagOps == {"GetFlag", "UpdateFlag", "ToggleFlag", "CreateRule", "Evaluate"}

RuleOps == {"CreateRule", "UpdateRule"}

SegmentOps == {"CreateSegment", "UpdateSegment"}

\* The requests that may be at statement p.
OpsAt(p) ==
  CASE p \in {"flagRow", "rules", "links"} -> FlagOps
    [] p \in {"segRow", "segConds"}        -> {"GetSegment", "UpdateSegment", "Evaluate"}
    [] p = "count"                         -> {"DeleteSegment"}
    [] p = "exec"                          -> {"CreateFlag", "UpdateFlag", "DeleteFlag",
                                               "ToggleFlag", "DeleteRule", "DeleteSegment"}
    [] p \in {"validate", "upgrade"}       -> RuleOps
    [] p \in {"write", "commit"}           -> RuleOps \cup SegmentOps

\* The variables of a session hold what their names say.
SessionTyped(s) ==
  /\ conn[s] \in Kinds \cup {Absent}
  /\ req[s] \in Requests \cup {Absent}
  /\ pc[s] \in Statements \cup {"idle", "handler", "returned"}
  /\ IsView(view[s])
  /\ work[s] \in Database \cup {Absent}

\* What a session at statement p needs of its request r and of its view v: the
\* handler has checked the one, and the reads before have filled the other.
Fits(p, r, v) ==
  /\ r.op \in OpsAt(p)
  /\ p \in {"rules", "links"} => v.row # Absent
  /\ p \in {"segRow", "segConds"} /\ r.op = "Evaluate" => v.row # Absent
  /\ p = "segConds" => \E g \in v.todo : g \in DOMAIN v.segments
  /\ p = "exec" /\ r.op = "UpdateFlag" =>
       /\ v.row # Absent
       /\ r.default = Absent \/ r.default \in ValuesOf[v.row.type]
  /\ p = "exec" /\ r.op = "CreateFlag" => ValidFlag(r)
  /\ p \in {"validate", "upgrade", "write", "commit"} /\ r.op \in RuleOps => ValidRule(r)
  /\ p = "write" /\ r.op \in RuleOps => r.segs = <<>>
  /\ p \in {"write", "commit"} /\ r.op = "CreateSegment" => ValidSegment(r.conds)
  /\ p \in {"segRow", "segConds", "write", "commit"} /\ r.op = "UpdateSegment" =>
       r.conds = Absent \/ ValidSegment(r.conds)

\* A session is at a statement of its request and holds what this takes.
Placed(s) ==
  /\ pc[s] = "idle" <=> req[s] = Absent
  /\ pc[s] = "returned" <=> out[s] # NoReply
  /\ pc[s] \in Statements => Fits(pc[s], req[s], view[s])
  /\ conn[s] # Absent => pc[s] \in Statements
  /\ pc[s] \in {"upgrade", "commit"} => conn[s] # Absent
  /\ work[s] # Absent <=> pc[s] = "commit"
  /\ s \in stale => pc[s] = "upgrade"

\* What a transaction has read of the database is still so, or it is stale; and
\* what it has written is what its statements make of the database.
Isolated(s) ==
  /\ pc[s] = "upgrade" /\ s \notin stale => KeysIn(req[s].segs) \subseteq db.segs
  /\ pc[s] = "commit" => /\ work[s] = Written(s)
                         /\ RuleIdLeft(db, req[s])
                         /\ Op(s) \in RuleOps => KeysIn(req[s].segs) \subseteq db.segs

SessionInv(s) == SessionTyped(s) /\ Placed(s) /\ Isolated(s)

\* Rule ids are handed out once; nothing is stored under one that is to come.
NothingAhead(d) == /\ IdsFresh(d)
                   /\ \A l \in d.links : l[1] < d.nextRule

PoolTyped == free \in [Kinds -> Nat] /\ free["fk"] + free["plain"] <= MaxIdle

OneWriter == \A s, t \in Sessions : work[s] # Absent /\ work[t] # Absent => s = t

\* The CreateRules that may still take a rule id.
Pending == {s \in Sessions : Op(s) = "CreateRule" /\ out[s] = NoReply}

IdsSuffice == db.nextRule + Cardinality(Pending) <= MaxRule + 1

\* The domains of the variables.
Shaped == /\ conn = [s \in Sessions |-> conn[s]]
          /\ req = [s \in Sessions |-> req[s]]
          /\ pc = [s \in Sessions |-> pc[s]]
          /\ view = [s \in Sessions |-> view[s]]
          /\ work = [s \in Sessions |-> work[s]]
          /\ out = [s \in Sessions |-> out[s]]
          /\ stale \subseteq Sessions

StoreInv == /\ db \in Database
            /\ NothingAhead(db)
            /\ PoolTyped
            /\ Shaped
            /\ OneWriter
            /\ IdsSuffice
            /\ \A s \in Sessions : SessionInv(s)

\* What sessions serve was sent by a client.
Sent == \A s \in Sessions : req[s] \in Workload \cup {Absent}

-----------------------------------------------------------------------------
(* Data. *)

LEMMA Distinctions ==
  /\ \A status, body : status # 0 => Answer(status, body) # NoReply
  /\ Absent \notin FlagRow /\ Absent \notin RuleRow /\ Absent \notin Database
  /\ Absent \notin Requests /\ Absent \notin Kinds
  /\ Workload \subseteq Requests
BY AbsentAssumption, RequestsAssumption, StoreAssumption DEF Answer, NoReply

LEMMA NoViewIsView == IsView(NoView)
<1>1. \A S : <<>> \in [{} -> S]
  OBVIOUS
<1> QED BY <1>1 DEF NoView, IsView

\* What a request holds, by its operation.
LEMMA RequestShape ==
  ASSUME NEW r \in Requests
  PROVE  /\ r.op \in {"CreateFlag", "GetFlag", "UpdateFlag", "DeleteFlag", "ToggleFlag",
                      "CreateRule", "UpdateRule", "DeleteRule", "CreateSegment", "GetSegment",
                      "UpdateSegment", "DeleteSegment", "Evaluate"}
         /\ r.op \in {"CreateFlag", "UpdateFlag", "DeleteFlag", "ToggleFlag", "CreateRule",
                      "UpdateRule", "DeleteRule", "GetFlag", "Evaluate"} => r.flag \in FlagKeys
         /\ r.op = "CreateFlag" => r.type \in FlagTypes /\ r.enabled \in BOOLEAN
         /\ r.op = "UpdateFlag" => /\ r.enabled \in BOOLEAN \cup {Absent}
                                   /\ r.default \in Values \cup {Absent}
         /\ r.op \in RuleOps =>
              /\ r.value \in Values \cup {NoValue} /\ r.priority \in Int
              /\ r.segs \in Seq(SegmentKeys)
         /\ r.op \in {"UpdateRule", "DeleteRule"} => r.rule \in RuleIds
         /\ r.op \in {"CreateSegment", "UpdateSegment", "DeleteSegment", "GetSegment"} =>
              r.segment \in SegmentKeys
         /\ r.op = "CreateSegment" => r.text \in Descriptions
         /\ r.op = "UpdateSegment" => r.text \in Descriptions \cup {Absent}
BY DEF Requests, RuleBody, FlagRequest, SegmentRequest, SegmentBody, RuleOps

\* The rule that a valid request asks for.
LEMMA RuleRequest ==
  ASSUME NEW r \in Requests, r.op \in RuleOps, ValidRule(r)
  PROVE  /\ RuleRowOf(r) \in RuleRow /\ RuleRowOf(r).flag = r.flag
         /\ r.conds \in Seq(Conditions)
         /\ KeysIn(r.segs) \subseteq SegmentKeys
<1>1. RuleRowOf(r) \in RuleRow /\ RuleRowOf(r).flag = r.flag /\ r.conds \in Seq(Conditions)
  BY RequestShape DEF ValidRule, ValidConditions, RuleRowOf, RuleRow, RuleOps
<1>2. r.segs \in Seq(SegmentKeys)
  BY RequestShape
<1> QED BY <1>1, <1>2, LenProperties DEF KeysIn

-----------------------------------------------------------------------------
(* Statements, on any connection. *)

\* Database e has no rule and no link that d has not.
Shrinks(d, e) ==
  /\ e \in Database
  /\ \A i \in RuleIds : e.rules[i] # Absent => e.rules[i] = d.rules[i] /\ e.conds[i] = d.conds[i]
  /\ e.links \subseteq d.links
  /\ e.nextRule = d.nextRule

\* Database e is d with rule i put in its place.
PutsRule(d, e, i, row, conds, keys) ==
  /\ e \in Database
  /\ e.rules[i] = row /\ e.conds[i] = conds
  /\ \A j \in RuleIds \ {i} : e.rules[j] = d.rules[j] /\ e.conds[j] = d.conds[j]
  /\ e.links \subseteq d.links \cup ({i} \X KeysIn(keys))
  /\ LinksOf(e, i) \subseteq LinksOf(d, i) \cup KeysIn(keys)
  /\ e.segs = d.segs

LEMMA PutFlagShrinks ==
  ASSUME NEW d \in Database, NEW f \in FlagKeys, NEW row \in FlagRow \cup {Absent}
  PROVE  Shrinks(d, PutFlag(d, f, row))
BY DEF Shrinks, PutFlag, Database

LEMMA DropRulesShrinks ==
  ASSUME NEW d \in Database, NEW ids \in SUBSET RuleIds, NEW fk \in BOOLEAN
  PROVE  Shrinks(d, DropRules(d, ids, fk))
<1>1. [i \in RuleIds |-> IF i \in ids THEN Absent ELSE d.rules[i]]
        \in [RuleIds -> RuleRow \cup {Absent}]
  BY DEF Database
<1>2. [i \in RuleIds |-> IF i \in ids THEN <<>> ELSE d.conds[i]] \in [RuleIds -> Seq(Conditions)]
  BY DEF Database
<1>3. {l \in d.links : l[1] \notin ids} \in SUBSET (RuleIds \X SegmentKeys)
  BY DEF Database
<1> QED BY <1>1, <1>2, <1>3 DEF Shrinks, DropRules, Database

LEMMA DropFlagShrinks ==
  ASSUME NEW d \in Database, NEW f \in FlagKeys, NEW fk \in BOOLEAN
  PROVE  Shrinks(d, DropFlag(d, f, fk))
<1> DEFINE gone == PutFlag(d, f, Absent)
<1>1. Shrinks(d, gone)
  <2>1. Absent \in FlagRow \cup {Absent}
    OBVIOUS
  <2> QED BY <2>1, PutFlagShrinks
<1>2. RulesOf(d, f) \in SUBSET RuleIds
  BY DEF RulesOf
<1> HIDE DEF gone
<1>3. CASE fk
  <2>1. Shrinks(gone, DropRules(gone, RulesOf(d, f), fk))
    BY <1>1, <1>2, DropRulesShrinks DEF Shrinks
  <2>2. DropFlag(d, f, fk) = DropRules(gone, RulesOf(d, f), fk)
    BY <1>3 DEF DropFlag, gone
  <2> QED BY <1>1, <2>1, <2>2 DEF Shrinks
<1>4. CASE ~fk
  BY <1>1, <1>4 DEF DropFlag, gone
<1> QED BY <1>3, <1>4

LEMMA DropSegmentShrinks ==
  ASSUME NEW d \in Database, NEW g \in SegmentKeys, NEW fk \in BOOLEAN
  PROVE  Shrinks(d, DropSegment(d, g, fk))
<1>1. {l \in d.links : l[2] # g} \in SUBSET (RuleIds \X SegmentKeys)
  BY DEF Database
<1>2. [d.segConds EXCEPT ![g] = <<>>] \in [SegmentKeys -> Seq(Conditions)]
  BY DEF Database
<1> QED BY <1>1, <1>2 DEF Shrinks, DropSegment, Database

\* The transaction of CreateRule.
LEMMA InsertRulePuts ==
  ASSUME NEW d \in Database, d.nextRule \in RuleIds, NEW row \in RuleRow,
         NEW conds \in Seq(Conditions), NEW keys, KeysIn(keys) \subseteq SegmentKeys,
         NEW fk \in BOOLEAN, InsertRule(d, row, conds, keys, fk) # Absent
  PROVE  /\ PutsRule(d, InsertRule(d, row, conds, keys, fk), d.nextRule, row, conds, keys)
         /\ InsertRule(d, row, conds, keys, fk).nextRule = d.nextRule + 1
<1> DEFINE i == d.nextRule
           e == InsertRule(d, row, conds, keys, fk)
<1>1. e = [d EXCEPT !.rules[i] = row, !.conds[i] = conds,
                    !.links = d.links \cup ({i} \X KeysIn(keys)), !.nextRule = i + 1]
  BY DEF InsertRule
<1>2. i + 1 \in 1 .. MaxRule + 1
  BY SchemaAssumption DEF RuleIds
<1>3. d.links \cup ({i} \X KeysIn(keys)) \in SUBSET (RuleIds \X SegmentKeys)
  BY DEF Database
<1> HIDE DEF e
<1>4. e \in Database
  BY <1>1, <1>2, <1>3 DEF Database
<1>5. /\ e.rules = [d.rules EXCEPT ![i] = row] /\ e.conds = [d.conds EXCEPT ![i] = conds]
      /\ e.links = d.links \cup ({i} \X KeysIn(keys))
      /\ e.segs = d.segs /\ e.nextRule = i + 1
  BY <1>1 DEF Database
<1>6. PutsRule(d, e, i, row, conds, keys)
  BY <1>4, <1>5 DEF PutsRule, Database, LinksOf
<1> QED BY <1>5, <1>6 DEF e

\* The transaction of UpdateRule, which gives the rule no other links.
LEMMA RewriteRulePuts ==
  ASSUME NEW d \in Database, NEW i \in RuleIds, NEW row \in RuleRow,
         NEW conds \in Seq(Conditions), NEW keys, KeysIn(keys) \subseteq SegmentKeys,
         NEW fk \in BOOLEAN, RewriteRule(d, i, row, conds, keys, fk) # Absent
  PROVE  /\ PutsRule(d, RewriteRule(d, i, row, conds, keys, fk), i, row, conds, keys)
         /\ LinksOf(RewriteRule(d, i, row, conds, keys, fk), i) \subseteq KeysIn(keys)
         /\ RewriteRule(d, i, row, conds, keys, fk).nextRule = d.nextRule
         /\ HasRule(d, row.flag, i)
<1> DEFINE e == RewriteRule(d, i, row, conds, keys, fk)
<1>1. /\ HasRule(d, row.flag, i)
      /\ e = [d EXCEPT !.rules[i] = row, !.conds[i] = conds,
                       !.links = {l \in d.links : l[1] # i} \cup ({i} \X KeysIn(keys))]
  BY DEF RewriteRule
<1>2. {l \in d.links : l[1] # i} \cup ({i} \X KeysIn(keys)) \in SUBSET (RuleIds \X SegmentKeys)
  BY DEF Database
<1> HIDE DEF e
<1>3. e \in Database
  BY <1>1, <1>2 DEF Database
<1>4. /\ e.rules = [d.rules EXCEPT ![i] = row] /\ e.conds = [d.conds EXCEPT ![i] = conds]
      /\ e.links = {l \in d.links : l[1] # i} \cup ({i} \X KeysIn(keys))
      /\ e.segs = d.segs /\ e.nextRule = d.nextRule
  BY <1>1 DEF Database
<1>5. LinksOf(e, i) \subseteq KeysIn(keys)
  BY <1>4 DEF LinksOf
<1>6. PutsRule(d, e, i, row, conds, keys)
  BY <1>3, <1>4, <1>5 DEF PutsRule, Database
<1> QED BY <1>1, <1>4, <1>5, <1>6 DEF e

\* The transactions on segments.
LEMMA InsertSegmentShrinks ==
  ASSUME NEW d \in Database, NEW g \in SegmentKeys, NEW text \in Descriptions,
         NEW conds \in Seq(Conditions), InsertSegment(d, g, text, conds) # Absent
  PROVE  Shrinks(d, InsertSegment(d, g, text, conds))
<1> DEFINE e == InsertSegment(d, g, text, conds)
<1>1. e = [d EXCEPT !.segs = d.segs \cup {g}, !.about[g] = text,
                    !.segConds[g] = d.segConds[g] \o conds]
  BY DEF InsertSegment
<1>2. d.segConds[g] \o conds \in Seq(Conditions)
  BY ConcatProperties DEF Database
<1>3. d.segs \cup {g} \in SUBSET SegmentKeys
  BY DEF Database
<1> HIDE DEF e
<1>4. e \in Database
  BY <1>1, <1>2, <1>3 DEF Database
<1>5. Shrinks(d, e)
  BY <1>1, <1>4 DEF Shrinks, Database
<1> QED BY <1>5 DEF e

LEMMA RewriteSegmentShrinks ==
  ASSUME NEW d \in Database, NEW g \in SegmentKeys, NEW text \in Descriptions \cup {Absent},
         NEW conds \in Seq(Conditions) \cup {Absent},
         NEW fk \in BOOLEAN, RewriteSegment(d, g, text, conds, fk) # Absent
  PROVE  Shrinks(d, RewriteSegment(d, g, text, conds, fk))
BY DEF Shrinks, RewriteSegment, Database

-----------------------------------------------------------------------------
(* A step of one session. *)

\* A step of session s leaves the others what they have, and makes stale those
\* that have read before it changed the database.
Kept(s) ==
  /\ Shaped'
  /\ \A t \in Sessions \ {s} :
       /\ conn'[t] = conn[t] /\ req'[t] = req[t] /\ pc'[t] = pc[t]
       /\ view'[t] = view[t] /\ work'[t] = work[t] /\ out'[t] = out[t]
       /\ t \in stale => t \in stale'
       /\ t \in stale' => t \in stale \/ pc[t] = "upgrade"
       /\ db' # db => work[t] = Absent /\ (pc[t] = "upgrade" => t \in stale')

\* So they keep their part of the invariant.
LEMMA OthersKept ==
  ASSUME NEW s \in Sessions, NEW t \in Sessions \ {s}, SessionInv(t), Kept(s)
  PROVE  SessionInv(t)'
<1>1. /\ conn'[t] = conn[t] /\ req'[t] = req[t] /\ pc'[t] = pc[t]
      /\ view'[t] = view[t] /\ work'[t] = work[t] /\ out'[t] = out[t]
      /\ t \in stale => t \in stale'
      /\ t \in stale' => t \in stale \/ pc[t] = "upgrade"
      /\ db' # db => work[t] = Absent /\ (pc[t] = "upgrade" => t \in stale')
  BY DEF Kept
<1>2. SessionTyped(t)'
  BY <1>1 DEF SessionInv, SessionTyped
<1>3. Placed(t)'
  BY <1>1 DEF SessionInv, Placed
<1>4. Isolated(t)'
  <2>1. CASE db' = db
    <3>1. Written(t)' = Written(t)
      BY <1>1, <2>1 DEF Written, FK
    <3> QED BY <1>1, <2>1, <3>1 DEF SessionInv, Isolated, Op
  <2>2. CASE db' # db
    <3>1. pc'[t] # "commit" /\ (pc'[t] = "upgrade" => t \in stale')
      BY <1>1, <2>2 DEF SessionInv, Placed
    <3> QED BY <3>1 DEF Isolated
  <2> QED BY <2>1, <2>2
<1> QED BY <1>2, <1>3, <1>4 DEF SessionInv

\* What a session at a statement is known to hold.
LEMMA AtStatement ==
  ASSUME NEW s \in Sessions, SessionInv(s), pc[s] \in Statements
  PROVE  /\ req[s] \in Requests /\ req[s] # Absent /\ out[s] = NoReply
         /\ Op(s) = req[s].op /\ Fits(pc[s], req[s], view[s])
         /\ pc[s] # "upgrade" => s \notin stale
         /\ pc[s] # "commit" => work[s] = Absent
         /\ IsView(view[s])
BY DEF SessionInv, SessionTyped, Placed, Statements, Reads, Op

LEMMA ReadKeeps ==
  ASSUME NEW s \in Sessions, Shaped, ReadOnly(s),
         (\E p, v : Goto(s, p, v)) \/ (\E st, b : Finish(s, st, b))
  PROVE  Kept(s)
BY DEF Kept, Shaped, ReadOnly, Release, Goto, Finish

\* A transaction that commits is answered.
LEMMA CommitEnds ==
  ASSUME NEW s \in Sessions, StoreInv, Commit(s)
  PROVE  \E st \in {200, 201} : \E b : Finish(s, st, b)
<1>1. SessionInv(s) /\ pc[s] = "commit" /\ pc[s] \in Statements
  BY DEF StoreInv, Commit, At, Statements
<1>2. req[s].op \in RuleOps \cup SegmentOps
  BY <1>1, AtStatement DEF Fits, OpsAt
<1>3. Committed(s)
  BY DEF Commit
<1>4. CASE req[s].op \in {"CreateRule", "CreateSegment"}
  <2>1. Finish(s, 201, NoBody)
    BY <1>3, <1>4 DEF Committed
  <2> QED BY <2>1
<1>5. CASE req[s].op = "UpdateRule"
  <2>1. Finish(s, 200, NoBody)
    BY <1>3, <1>5 DEF Committed
  <2> QED BY <2>1
<1>6. CASE req[s].op = "UpdateSegment"
  <2>1. Finish(s, 200, UpdatedSegment(s))
    BY <1>3, <1>6 DEF Committed
  <2> QED BY <2>1
<1> QED BY <1>2, <1>4, <1>5, <1>6 DEF RuleOps, SegmentOps

LEMMA CommitKeeps ==
  ASSUME NEW s \in Sessions, StoreInv, Commit(s)
  PROVE  Kept(s)
<1>1. \A t \in Sessions \ {s} : work[t] = Absent
  BY DEF StoreInv, SessionInv, Placed, OneWriter, Commit, At
<1>2. PICK st, b : st \in {200, 201} /\ Finish(s, st, b)
  BY CommitEnds
<1>3. /\ Install(s, work[s]) /\ Release(s) /\ UNCHANGED req
      /\ work' = [work EXCEPT ![s] = Absent]
  BY DEF Commit
<1>4. Shaped
  BY DEF StoreInv
<1>5. Shaped'
  BY <1>2, <1>3, <1>4 DEF Install, Release, Finish, Shaped
<1>6. ASSUME NEW t \in Sessions \ {s}
      PROVE  /\ conn'[t] = conn[t] /\ req'[t] = req[t] /\ pc'[t] = pc[t]
             /\ view'[t] = view[t] /\ work'[t] = work[t] /\ out'[t] = out[t]
             /\ t \in stale => t \in stale'
             /\ t \in stale' => t \in stale \/ pc[t] = "upgrade"
             /\ db' # db => work[t] = Absent /\ (pc[t] = "upgrade" => t \in stale')
  <2>1. conn'[t] = conn[t] /\ req'[t] = req[t] /\ work'[t] = work[t]
    BY <1>3, <1>4, <1>6 DEF Release, Shaped
  <2>2. pc'[t] = pc[t] /\ view'[t] = view[t] /\ out'[t] = out[t]
    BY <1>2, <1>4, <1>6 DEF Finish, Shaped
  <2>3. stale' = stale \cup {u \in Sessions \ {s} : pc[u] = "upgrade"}
    BY <1>3 DEF Install
  <2> QED BY <1>1, <1>6, <2>1, <2>2, <2>3
<1> QED BY <1>5, <1>6 DEF Kept

\* A request is answered.
LEMMA Ends ==
  ASSUME NEW s \in Sessions, Shaped, SessionInv(s), req[s] # Absent,
         NEW st, st # 0, NEW b, Finish(s, st, b), Release(s),
         UNCHANGED req, work'[s] = Absent, s \notin stale'
  PROVE  SessionInv(s)'
<1>1. /\ pc'[s] = "returned" /\ view'[s] = NoView /\ out'[s] # NoReply /\ conn'[s] = Absent
      /\ req'[s] = req[s]
  BY Distinctions DEF Shaped, Finish, Release
<1>2. /\ "returned" \notin Statements
  BY DEF Statements, Reads
<1> QED
  BY <1>1, <1>2, NoViewIsView DEF SessionInv, SessionTyped, Placed, Isolated

\* A request goes on with a statement that it fits.
LEMMA GoesOn ==
  ASSUME NEW s \in Sessions, Shaped, SessionInv(s), req[s] # Absent, out[s] = NoReply,
         NEW p \in Statements \ {"upgrade", "commit"}, NEW v, IsView(v), Fits(p, req[s], v),
         Goto(s, p, v), conn'[s] \in Kinds \cup {Absent},
         UNCHANGED req, work'[s] = Absent, s \notin stale'
  PROVE  SessionInv(s)'
<1>1. /\ pc'[s] = p /\ view'[s] = v /\ out'[s] = NoReply
      /\ req'[s] = req[s]
  BY DEF Shaped, Goto
<1>2. p \notin {"returned", "idle", "handler"}
  BY DEF Statements, Reads
<1> QED
  BY <1>1, <1>2 DEF SessionInv, SessionTyped, Placed, Isolated

\* A connection goes back to the pool.
LEMMA PoolKept ==
  ASSUME NEW s \in Sessions, Release(s), PoolTyped, conn[s] \in Kinds
  PROVE  PoolTyped'
<1>1. CASE free["fk"] + free["plain"] < MaxIdle
  <2>1. free' = [free EXCEPT ![conn[s]] = free[conn[s]] + 1]
    BY <1>1 DEF Release
  <2>2. free' \in [Kinds -> Nat]
    BY <2>1 DEF PoolTyped
  <2>3. free'["fk"] + free'["plain"] = free["fk"] + free["plain"] + 1
    BY <2>1 DEF PoolTyped, Kinds
  <2> QED BY <1>1, <2>2, <2>3, StoreAssumption DEF PoolTyped, Kinds
<1>2. CASE ~(free["fk"] + free["plain"] < MaxIdle)
  BY <1>2 DEF Release, PoolTyped
<1> QED BY <1>1, <1>2

LEMMA PendingFinite == IsFiniteSet(Pending) /\ Cardinality(Pending) \in Nat
<1>1. Pending \subseteq Sessions
  BY DEF Pending
<1> QED BY <1>1, StoreAssumption, FS_Subset, FS_CardinalityType

\* What a step owes the invariant, unless a rule id is taken or asked for.
LEMMA Preserved ==
  ASSUME NEW s \in Sessions, StoreInv, Kept(s), SessionInv(s)', PoolTyped',
         db' \in Database, NothingAhead(db'), db'.nextRule = db.nextRule,
         work'[s] # Absent => \A t \in Sessions \ {s} : work[t] = Absent,
         Op(s)' = "CreateRule" /\ out'[s] = NoReply => Op(s) = "CreateRule" /\ out[s] = NoReply
  PROVE  StoreInv'
<1>1. \A t \in Sessions : SessionInv(t)'
  BY OthersKept DEF StoreInv
<1>2. OneWriter'
  BY DEF StoreInv, OneWriter, Kept
<1>3. IdsSuffice'
  <2>1. Pending' \subseteq Pending
    BY DEF Pending, Kept, Op
  <2>2. Cardinality(Pending') <= Cardinality(Pending) /\ Cardinality(Pending') \in Nat
    BY <2>1, PendingFinite, FS_Subset, FS_CardinalityType
  <2> QED BY <2>2, PendingFinite, SchemaAssumption DEF StoreInv, IdsSuffice, Database
<1> QED BY <1>1, <1>2, <1>3 DEF StoreInv, Kept

-----------------------------------------------------------------------------
(* Reads. *)

\* A read after which the request goes on.
LEMMA ReadGoesOn ==
  ASSUME NEW s \in Sessions, StoreInv, pc[s] \in Reads, conn[s] # Absent, ReadOnly(s),
         NEW p \in Statements \ {"upgrade", "commit"}, NEW v, IsView(v), Fits(p, req[s], v),
         Goto(s, p, v)
  PROVE  StoreInv'
<1>1. Shaped /\ SessionInv(s) /\ PoolTyped
  BY DEF StoreInv
<1>2. /\ pc[s] \in Statements /\ pc[s] # "upgrade" /\ pc[s] # "commit"
      /\ conn[s] \in Kinds
  BY <1>1 DEF Statements, Reads, SessionInv, SessionTyped
<1>3. /\ req[s] # Absent /\ out[s] = NoReply /\ s \notin stale /\ work[s] = Absent
  BY <1>1, <1>2, AtStatement
<1>4. Kept(s)
  BY <1>1, ReadKeeps
<1>5. /\ conn'[s] = Absent /\ work'[s] = Absent /\ s \notin stale' /\ UNCHANGED <<req, db>>
      /\ out' = out
  BY <1>1, <1>3 DEF ReadOnly, Release, Shaped, Goto
<1>6. SessionInv(s)'
  BY <1>1, <1>3, <1>5, GoesOn
<1>7. PoolTyped'
  BY <1>1, <1>2, PoolKept DEF ReadOnly
<1> QED BY <1>4, <1>5, <1>6, <1>7, Preserved DEF StoreInv, Op

\* A read that answers the request.
LEMMA ReadEnds ==
  ASSUME NEW s \in Sessions, StoreInv, pc[s] \in Reads, conn[s] # Absent, ReadOnly(s),
         NEW st, st # 0, NEW b, Finish(s, st, b)
  PROVE  StoreInv'
<1>1. Shaped /\ SessionInv(s) /\ PoolTyped
  BY DEF StoreInv
<1>2. /\ pc[s] \in Statements /\ pc[s] # "upgrade" /\ pc[s] # "commit"
      /\ conn[s] \in Kinds
  BY <1>1 DEF Statements, Reads, SessionInv, SessionTyped
<1>3. /\ req[s] # Absent /\ out[s] = NoReply /\ s \notin stale /\ work[s] = Absent
  BY <1>1, <1>2, AtStatement
<1>4. Kept(s)
  BY <1>1, ReadKeeps
<1>5. /\ work'[s] = Absent /\ s \notin stale' /\ UNCHANGED <<req, db>> /\ Release(s)
  BY <1>3 DEF ReadOnly
<1>6. SessionInv(s)'
  BY <1>1, <1>3, <1>5, Ends
<1>7. PoolTyped'
  BY <1>1, <1>2, PoolKept DEF ReadOnly
<1> QED BY <1>3, <1>4, <1>5, <1>6, <1>7, Preserved DEF StoreInv, Op

\* Where a request goes on once its flag is read.
LEMMA FlagReadPreserves ==
  ASSUME NEW s \in Sessions, StoreInv, pc[s] \in {"rules", "links", "segRow", "segConds"},
         Op(s) \in FlagOps, conn[s] # Absent, ReadOnly(s), NEW v, IsView(v), v.row # Absent,
         FlagRead(s, v)
  PROVE  StoreInv'
<1>1. Shaped /\ SessionInv(s) /\ PoolTyped /\ pc[s] \in Statements /\ pc[s] \in Reads
  BY DEF StoreInv, Statements, Reads
<1>2. req[s] \in Requests /\ Op(s) = req[s].op
  BY <1>1, AtStatement
<1>4. CASE req[s].op \in {"GetFlag", "ToggleFlag"}
  <2>1. \E b : Finish(s, 200, b)
    BY <1>4 DEF FlagRead
  <2> QED BY <2>1, <1>1, ReadEnds
<1>5. CASE req[s].op = "UpdateFlag"
  <2>1. CASE req[s].default = Absent \/ req[s].default \in ValuesOf[v.row.type]
    <3>1. Goto(s, "exec", v)
      BY <1>5, <2>1 DEF FlagRead
    <3>2. Fits("exec", req[s], v)
      BY <1>5, <2>1 DEF Fits, OpsAt, RuleOps
    <3> QED BY <3>1, <3>2, <1>1, ReadGoesOn DEF Statements
  <2>2. CASE ~(req[s].default = Absent \/ req[s].default \in ValuesOf[v.row.type])
    <3>1. Finish(s, 400, NoBody)
      BY <1>5, <2>2 DEF FlagRead
    <3> QED BY <3>1, <1>1, ReadEnds
  <2> QED BY <2>1, <2>2
<1>6. CASE req[s].op = "CreateRule"
  <2>1. CASE ValidRule(req[s]) /\ req[s].value \in ValuesOf[v.row.type]
    <3>1. Goto(s, Begin(req[s]), NoView)
      BY <1>6, <2>1 DEF FlagRead
    <3>2. Fits(Begin(req[s]), req[s], NoView) /\ Begin(req[s]) \in {"write", "validate"}
      BY <1>6, <2>1 DEF Fits, OpsAt, NoView, RuleOps, SegmentOps, Begin
    <3> QED BY <3>1, <3>2, <1>1, NoViewIsView, ReadGoesOn DEF Statements
  <2>2. CASE ~(ValidRule(req[s]) /\ req[s].value \in ValuesOf[v.row.type])
    <3>1. Finish(s, 400, NoBody)
      BY <1>6, <2>2 DEF FlagRead
    <3> QED BY <3>1, <1>1, ReadEnds
  <2> QED BY <2>1, <2>2
<1>7. CASE req[s].op = "Evaluate"
  <2>1. CASE v.todo # {}
    <3>1. Goto(s, "segRow", v)
      BY <1>7, <2>1 DEF FlagRead
    <3>2. Fits("segRow", req[s], v)
      BY <1>7, <2>1 DEF Fits, OpsAt
    <3> QED BY <3>1, <3>2, <1>1, ReadGoesOn DEF Statements, Reads
  <2>2. CASE v.todo = {}
    <3>1. \E b : Finish(s, 200, b)
      BY <1>7, <2>2 DEF FlagRead
    <3> QED BY <3>1, <1>1, ReadEnds
  <2> QED BY <2>1, <2>2
<1> QED BY <1>2, <1>4, <1>5, <1>6, <1>7 DEF FlagOps

LEMMA ReadFlagRowPreserves ==
  ASSUME NEW s \in Sessions, StoreInv, ReadFlagRow(s)
  PROVE  StoreInv'
<1>1. SessionInv(s) /\ db \in Database /\ pc[s] = "flagRow" /\ conn[s] # Absent /\ ReadOnly(s)
      /\ pc[s] \in Statements /\ pc[s] \in Reads
  BY DEF StoreInv, ReadFlagRow, At, Statements, Reads
<1>2. req[s] \in Requests /\ Op(s) = req[s].op /\ Fits(pc[s], req[s], view[s])
  BY <1>1, AtStatement
<1>3. req[s].op \in FlagOps
  BY <1>1, <1>2 DEF Fits, OpsAt
<1>4. CASE HasFlag(db, req[s].flag)
  <2> DEFINE v == [NoView EXCEPT !.row = db.flags[req[s].flag]]
  <2>1. v = [row |-> db.flags[req[s].flag], rules |-> NoView.rules, todo |-> NoView.todo,
             text |-> NoView.text, segments |-> NoView.segments]
    BY NoViewIsView DEF IsView
  <2>2. req[s].flag \in FlagKeys
    BY <1>2, <1>3, RequestShape DEF FlagOps
  <2>3. db.flags[req[s].flag] \in FlagRow
    BY <1>1, <1>4, <2>2 DEF HasFlag, Database
  <2>4. Goto(s, "rules", v)
    BY <1>4 DEF ReadFlagRow
  <2> HIDE DEF v
  <2>5. IsView(v) /\ v.row # Absent
    BY <2>1, <2>3, NoViewIsView, Distinctions DEF IsView
  <2>6. Fits("rules", req[s], v)
    BY <1>3, <2>5 DEF Fits, OpsAt
  <2> QED BY <1>1, <2>4, <2>5, <2>6, ReadGoesOn DEF Statements, Reads
<1>5. CASE ~HasFlag(db, req[s].flag)
  <2>1. Finish(s, 404, NoBody)
    BY <1>5 DEF ReadFlagRow
  <2> QED BY <2>1, <1>1, ReadEnds
<1> QED BY <1>4, <1>5

LEMMA ReadRulesPreserves ==
  ASSUME NEW s \in Sessions, StoreInv, ReadRules(s)
  PROVE  StoreInv'
<1> DEFINE f == req[s].flag
           rules == [i \in RulesOf(db, f) |-> RuleView(db.rules[i], db.conds[i], {})]
           v == [view[s] EXCEPT !.rules = rules]
<1>1. SessionInv(s) /\ db \in Database /\ pc[s] = "rules" /\ conn[s] # Absent /\ ReadOnly(s)
      /\ pc[s] \in Statements /\ pc[s] \in Reads
  BY DEF StoreInv, ReadRules, At, Statements, Reads
<1>2. req[s] \in Requests /\ Op(s) = req[s].op /\ Fits(pc[s], req[s], view[s]) /\ IsView(view[s])
  BY <1>1, AtStatement
<1>3. req[s].op \in FlagOps /\ view[s].row # Absent
  BY <1>1, <1>2 DEF Fits, OpsAt
<1>4. rules \in [RulesOf(db, f) -> RuleViews] /\ RulesOf(db, f) \subseteq RuleIds
  <2>1. ASSUME NEW i \in RulesOf(db, f) PROVE RuleView(db.rules[i], db.conds[i], {}) \in RuleViews
    BY <1>1 DEF RulesOf, HasRule, Database, RuleRow, RuleView, RuleViews
  <2> QED BY <2>1 DEF RulesOf
<1>5. IF RulesOf(db, f) = {} THEN FlagRead(s, v) ELSE Goto(s, "links", v)
  BY DEF ReadRules
<1>6. v = [row |-> view[s].row, rules |-> rules, todo |-> view[s].todo, text |-> view[s].text,
           segments |-> view[s].segments]
  BY <1>2 DEF IsView
<1> HIDE DEF v, rules
<1>7. IsView(v) /\ v.row # Absent
  BY <1>2, <1>3, <1>4, <1>6 DEF IsView
<1>8. CASE RulesOf(db, f) = {}
  BY <1>1, <1>2, <1>3, <1>5, <1>7, <1>8, FlagReadPreserves
<1>9. CASE RulesOf(db, f) # {}
  <2>1. Fits("links", req[s], v)
    BY <1>3, <1>7 DEF Fits, OpsAt
  <2> QED BY <1>1, <1>5, <1>7, <1>9, <2>1, ReadGoesOn DEF Statements, Reads
<1> QED BY <1>8, <1>9

LEMMA ReadLinksPreserves ==
  ASSUME NEW s \in Sessions, StoreInv, ReadLinks(s)
  PROVE  StoreInv'
<1> DEFINE linked == [i \in DOMAIN view[s].rules |->
                        [view[s].rules[i] EXCEPT !.segs = LinksOf(db, i)]]
           todo == IF req[s].op = "Evaluate" THEN SegmentsUsed(linked) ELSE {}
           v == [view[s] EXCEPT !.rules = linked, !.todo = todo]
<1>1. SessionInv(s) /\ db \in Database /\ pc[s] = "links" /\ conn[s] # Absent /\ ReadOnly(s)
      /\ pc[s] \in Statements /\ pc[s] \in Reads
  BY DEF StoreInv, ReadLinks, At, Statements, Reads
<1>2. req[s] \in Requests /\ Op(s) = req[s].op /\ Fits(pc[s], req[s], view[s]) /\ IsView(view[s])
  BY <1>1, AtStatement
<1>3. req[s].op \in FlagOps /\ view[s].row # Absent
  BY <1>1, <1>2 DEF Fits, OpsAt
<1>4. linked \in [DOMAIN view[s].rules -> RuleViews]
  <2>1. ASSUME NEW i \in DOMAIN view[s].rules
        PROVE  [view[s].rules[i] EXCEPT !.segs = LinksOf(db, i)] \in RuleViews
    <3>1. view[s].rules[i] \in RuleViews
      BY <1>2 DEF IsView
    <3> QED BY <3>1 DEF RuleViews, LinksOf
  <2> QED BY <2>1
<1>5. FlagRead(s, v)
  BY DEF ReadLinks
<1>6. DOMAIN linked = DOMAIN view[s].rules
  OBVIOUS
<1> HIDE DEF linked
<1>7. todo \subseteq SegmentKeys
  <2>1. SegmentsUsed(linked) \subseteq SegmentKeys
    BY <1>4, <1>6 DEF SegmentsUsed, RuleViews
  <2> QED BY <2>1
<1> HIDE DEF todo
<1>8. v = [row |-> view[s].row, rules |-> linked, todo |-> todo, text |-> view[s].text,
           segments |-> view[s].segments]
  <2> DEFINE w == [view[s] EXCEPT !.rules = linked]
  <2>1. w = [row |-> view[s].row, rules |-> linked, todo |-> view[s].todo, text |-> view[s].text,
             segments |-> view[s].segments]
    BY <1>2 DEF IsView
  <2>2. v = [w EXCEPT !.todo = todo]
    OBVIOUS
  <2> HIDE DEF w
  <2> QED BY <2>1, <2>2
<1> HIDE DEF v
<1>9. IsView(v) /\ v.row # Absent
  BY <1>2, <1>3, <1>4, <1>6, <1>7, <1>8 DEF IsView
<1> QED BY <1>1, <1>2, <1>3, <1>5, <1>9, FlagReadPreserves

\* Where a request goes on once a segment is read, or found missing.
LEMMA SegmentReadPreserves ==
  ASSUME NEW s \in Sessions, StoreInv, pc[s] \in {"segRow", "segConds"}, conn[s] # Absent,
         ReadOnly(s), NEW v, IsView(v), Op(s) = "Evaluate" => v.row # Absent, NEW g,
         SegmentRead(s, v, g)
  PROVE  StoreInv'
<1>1. SessionInv(s) /\ pc[s] \in Statements /\ pc[s] \in Reads
  BY DEF StoreInv, Statements, Reads
<1>2. req[s] \in Requests /\ Op(s) = req[s].op /\ Fits(pc[s], req[s], view[s])
  BY <1>1, AtStatement
<1>3. req[s].op \in {"GetSegment", "UpdateSegment", "Evaluate"}
  BY <1>2 DEF Fits, OpsAt
<1>4. CASE req[s].op = "GetSegment"
  <2>1. \E st, b : st # 0 /\ Finish(s, st, b)
    BY <1>4 DEF SegmentRead
  <2> QED BY <1>1, <2>1, ReadEnds
<1>5. CASE req[s].op = "UpdateSegment"
  <2>1. CASE g \in DOMAIN v.segments
    <3>1. Goto(s, "write", v)
      BY <1>5, <2>1 DEF SegmentRead
    <3>2. Fits("write", req[s], v)
      BY <1>2, <1>5 DEF Fits, OpsAt, RuleOps, SegmentOps
    <3> QED BY <1>1, <3>1, <3>2, ReadGoesOn DEF Statements
  <2>2. CASE g \notin DOMAIN v.segments
    <3>1. Finish(s, 404, NoBody)
      BY <1>5, <2>2 DEF SegmentRead
    <3> QED BY <1>1, <3>1, ReadEnds
  <2> QED BY <2>1, <2>2
<1>6. CASE req[s].op = "Evaluate"
  <2>1. FlagRead(s, v)
    BY <1>6 DEF SegmentRead
  <2> QED BY <1>2, <1>6, <2>1, FlagReadPreserves DEF FlagOps
<1> QED BY <1>3, <1>4, <1>5, <1>6

LEMMA ReadSegmentRowPreserves ==
  ASSUME NEW s \in Sessions, StoreInv, ReadSegmentRow(s)
  PROVE  StoreInv'
<1>1. SessionInv(s) /\ db \in Database /\ pc[s] = "segRow" /\ conn[s] # Absent /\ ReadOnly(s)
      /\ pc[s] \in Statements /\ pc[s] \in Reads
  BY DEF StoreInv, ReadSegmentRow, At, Statements, Reads
<1>2. req[s] \in Requests /\ Op(s) = req[s].op /\ Fits(pc[s], req[s], view[s]) /\ IsView(view[s])
  BY <1>1, AtStatement
<1>3. PICK g \in view[s].todo :
        IF g \in db.segs
        THEN Goto(s, "segConds", [view[s] EXCEPT !.text = db.about[g], !.segments = Found(@, g)])
        ELSE SegmentRead(s, [view[s] EXCEPT !.todo = @ \ {g}], g)
  BY DEF ReadSegmentRow
<1>4. Op(s) = "Evaluate" => view[s].row # Absent
  BY <1>1, <1>2 DEF Fits
<1>5. g \in SegmentKeys
  BY <1>2 DEF IsView
<1>6. CASE g \in db.segs
  <2> DEFINE found == Found(view[s].segments, g)
             w == [view[s] EXCEPT !.text = db.about[g]]
             v == [w EXCEPT !.segments = found]
  <2>1. found \in [DOMAIN view[s].segments \cup {g} -> Seq(Conditions)]
    <3>1. <<>> \in Seq(Conditions)
      OBVIOUS
    <3> QED BY <1>2, <3>1 DEF Found, IsView
  <2>2. Goto(s, "segConds", v)
    <3>1. v = [view[s] EXCEPT !.text = db.about[g], !.segments = Found(@, g)]
      BY <1>2 DEF IsView
    <3> QED BY <1>3, <1>6, <3>1
  <2> HIDE DEF found
  <2>3. w = [row |-> view[s].row, rules |-> view[s].rules, todo |-> view[s].todo,
             text |-> db.about[g], segments |-> view[s].segments]
    BY <1>2 DEF IsView
  <2> HIDE DEF w
  <2>4. v = [row |-> view[s].row, rules |-> view[s].rules, todo |-> view[s].todo,
             text |-> db.about[g], segments |-> found]
    BY <2>3
  <2> HIDE DEF v
  <2>5. IsView(v)
    <3>1. db.about[g] \in Descriptions \cup {Absent}
      BY <1>1, <1>5 DEF Database
    <3> QED BY <1>2, <1>5, <2>1, <2>4, <3>1 DEF IsView
  <2>6. Fits("segConds", req[s], v)
    <3>1. g \in v.todo /\ g \in DOMAIN v.segments
      BY <2>1, <2>4
    <3> QED BY <1>1, <1>2, <2>4, <3>1 DEF Fits, OpsAt
  <2> QED BY <1>1, <2>2, <2>5, <2>6, ReadGoesOn DEF Statements, Reads
<1>7. CASE g \notin db.segs
  <2> DEFINE rest == view[s].todo \ {g}
             v == [view[s] EXCEPT !.todo = rest]
  <2>1. SegmentRead(s, v, g)
    BY <1>3, <1>7
  <2> HIDE DEF rest
  <2>2. v = [row |-> view[s].row, rules |-> view[s].rules, todo |-> rest,
             text |-> view[s].text, segments |-> view[s].segments]
    BY <1>2 DEF IsView
  <2> HIDE DEF v
  <2>3. rest \subseteq view[s].todo
    BY DEF rest
  <2>4. IsView(v) /\ v.row = view[s].row
    BY <1>2, <2>2, <2>3 DEF IsView
  <2> QED BY <1>1, <1>4, <2>1, <2>4, SegmentReadPreserves
<1> QED BY <1>6, <1>7

LEMMA ReadSegmentCondsPreserves ==
  ASSUME NEW s \in Sessions, StoreInv, ReadSegmentConds(s)
  PROVE  StoreInv'
<1> DEFINE g == CHOOSE k \in view[s].todo : k \in DOMAIN view[s].segments
           segments == [view[s].segments EXCEPT ![g] = db.segConds[g]]
           rest == view[s].todo \ {g}
           w == [view[s] EXCEPT !.todo = rest]
           v == [w EXCEPT !.segments = segments]
<1>1. SessionInv(s) /\ db \in Database /\ pc[s] = "segConds" /\ conn[s] # Absent /\ ReadOnly(s)
      /\ pc[s] \in Statements /\ pc[s] \in Reads
  BY DEF StoreInv, ReadSegmentConds, At, Statements, Reads
<1>2. req[s] \in Requests /\ Op(s) = req[s].op /\ Fits(pc[s], req[s], view[s]) /\ IsView(view[s])
  BY <1>1, AtStatement
<1>3. SegmentRead(s, v, g)
  <2>1. v = [view[s] EXCEPT !.todo = @ \ {g}, !.segments[g] = db.segConds[g]]
    BY <1>2 DEF IsView
  <2> QED BY <2>1 DEF ReadSegmentConds
<1>4. Op(s) = "Evaluate" => view[s].row # Absent
  BY <1>1, <1>2 DEF Fits
<1>5. g \in view[s].todo /\ g \in DOMAIN view[s].segments /\ g \in SegmentKeys
  <2>1. \E k \in view[s].todo : k \in DOMAIN view[s].segments
    BY <1>1, <1>2 DEF Fits
  <2> QED BY <1>2, <2>1 DEF IsView
<1> HIDE DEF g
<1>6. segments \in [DOMAIN view[s].segments -> Seq(Conditions)]
  BY <1>1, <1>2, <1>5 DEF IsView, Database
<1> HIDE DEF segments
<1>7. rest \subseteq view[s].todo
  OBVIOUS
<1> HIDE DEF rest
<1>8. w = [row |-> view[s].row, rules |-> view[s].rules, todo |-> rest,
           text |-> view[s].text, segments |-> view[s].segments]
  BY <1>2 DEF IsView
<1> HIDE DEF w
<1>9. v = [row |-> view[s].row, rules |-> view[s].rules, todo |-> rest,
           text |-> view[s].text, segments |-> segments]
  BY <1>8
<1> HIDE DEF v
<1>10. IsView(v) /\ v.row = view[s].row
  BY <1>2, <1>6, <1>9, <1>7 DEF IsView
<1> QED BY <1>1, <1>3, <1>4, <1>10, SegmentReadPreserves

LEMMA CountLinksPreserves ==
  ASSUME NEW s \in Sessions, StoreInv, CountLinks(s)
  PROVE  StoreInv'
<1>1. SessionInv(s) /\ pc[s] = "count" /\ conn[s] # Absent /\ ReadOnly(s)
      /\ pc[s] \in Statements /\ pc[s] \in Reads
  BY DEF StoreInv, CountLinks, At, Statements, Reads
<1>2. Fits("count", req[s], view[s])
  BY <1>1, AtStatement
<1>3. Fits("exec", req[s], NoView)
  BY <1>2 DEF Fits, OpsAt, RuleOps
<1>4. CASE InUse(db, req[s].segment)
  <2>1. Finish(s, 409, NoBody)
    BY <1>4 DEF CountLinks
  <2> QED BY <1>1, <2>1, ReadEnds
<1>5. CASE ~InUse(db, req[s].segment)
  <2>1. Goto(s, "exec", NoView)
    BY <1>5 DEF CountLinks
  <2> QED BY <1>1, <1>3, <2>1, NoViewIsView, ReadGoesOn DEF Statements
<1> QED BY <1>4, <1>5

LEMMA ReadPreserves ==
  ASSUME NEW s \in Sessions, StoreInv, Read(s)
  PROVE  StoreInv'
BY ReadFlagRowPreserves, ReadRulesPreserves, ReadLinksPreserves, ReadSegmentRowPreserves,
   ReadSegmentCondsPreserves, CountLinksPreserves DEF Read

-----------------------------------------------------------------------------
(* Writes outside a transaction. *)

\* What a statement that removes or leaves rules does to the ids.
LEMMA ShrinksNothingAhead ==
  ASSUME NEW d \in Database, NothingAhead(d), NEW e, Shrinks(d, e)
  PROVE  NothingAhead(e)
BY DEF NothingAhead, IdsFresh, Shrinks, Database

LEMMA UpdateShrinks ==
  ASSUME NEW d \in Database, NEW f \in FlagKeys, HasFlag(d, f), NEW enabled \in BOOLEAN,
         NEW default \in Values
  PROVE  Shrinks(d, [d EXCEPT !.flags[f].enabled = enabled, !.flags[f].default = default])
<1> DEFINE row == [[d.flags[f] EXCEPT !.enabled = enabled] EXCEPT !.default = default]
<1>1. row \in FlagRow
  BY DEF HasFlag, Database, FlagRow
<1>2. [d EXCEPT !.flags[f].enabled = enabled, !.flags[f].default = default]
        = [d EXCEPT !.flags[f] = row]
  BY DEF Database
<1> HIDE DEF row
<1> QED BY <1>1, <1>2, PutFlagShrinks DEF PutFlag

LEMMA ToggleShrinks ==
  ASSUME NEW d \in Database, NEW f \in FlagKeys, HasFlag(d, f)
  PROVE  Shrinks(d, Toggle(d, f))
<1> DEFINE row == [d.flags[f] EXCEPT !.enabled = ~d.flags[f].enabled]
<1>1. row \in FlagRow
  <2>1. d.flags[f] \in FlagRow
    BY DEF HasFlag, Database
  <2> QED BY <2>1 DEF FlagRow
<1>2. Toggle(d, f) = [d EXCEPT !.flags[f] = row]
  BY DEF Toggle, Database
<1> HIDE DEF row
<1> QED BY <1>1, <1>2, PutFlagShrinks DEF PutFlag

LEMMA MergeTyped ==
  ASSUME NEW row \in FlagRow, NEW r \in Requests, r.op = "UpdateFlag"
  PROVE  Merge(row, r).enabled \in BOOLEAN /\ Merge(row, r).default \in Values
BY RequestShape DEF Merge, FlagRow

\* A write outside a transaction, once it has the lock.
LEMMA ExecWrites ==
  ASSUME NEW s \in Sessions, StoreInv, NEW op, Exec(s, op),
         NEW d, Shrinks(db, d), Install(s, d) \/ (NoRow /\ d = db),
         (\E st, b : st # 0 /\ Finish(s, st, b))
           \/ (op = "ToggleFlag" /\ Goto(s, "flagRow", NoView))
  PROVE  StoreInv' /\ Shrinks(db, db')
<1>1. Shaped /\ SessionInv(s) /\ PoolTyped /\ db \in Database /\ NothingAhead(db)
      /\ pc[s] = "exec" /\ conn[s] # Absent /\ req[s].op = op
      /\ Release(s) /\ UNCHANGED <<req, work>> /\ pc[s] \in Statements
      /\ \A t \in Sessions \ {s} : work[t] = Absent
  BY DEF StoreInv, Exec, At, Statements, Locked
<1>2. req[s] # Absent /\ out[s] = NoReply /\ s \notin stale /\ work[s] = Absent
      /\ conn[s] \in Kinds /\ Op(s) = req[s].op
  BY <1>1, AtStatement DEF SessionInv, SessionTyped
<1>3. s \notin stale' /\ db' = d
  BY <1>2 DEF Install, NoRow
<1>4. Kept(s)
  BY <1>1 DEF Kept, Shaped, Release, Goto, Finish, Install, NoRow
<1>5. SessionInv(s)'
  <2>1. CASE \E st, b : st # 0 /\ Finish(s, st, b)
    BY <1>1, <1>2, <1>3, <2>1, Ends
  <2>2. CASE op = "ToggleFlag" /\ Goto(s, "flagRow", NoView)
    <3>1. Fits("flagRow", req[s], NoView)
      BY <1>1, <2>2 DEF Fits, OpsAt, FlagOps
    <3>2. conn'[s] = Absent
      BY <1>1 DEF Release, Shaped
    <3> QED BY <1>1, <1>2, <1>3, <2>2, <3>1, <3>2, NoViewIsView, GoesOn DEF Statements, Reads
  <2> QED BY <2>1, <2>2
<1>6. PoolTyped'
  BY <1>1, <1>2, PoolKept
<1>7. db' \in Database /\ NothingAhead(db') /\ db'.nextRule = db.nextRule
  BY <1>1, <1>3, ShrinksNothingAhead DEF Shrinks
<1>8. StoreInv'
  BY <1>1, <1>2, <1>4, <1>5, <1>6, <1>7, Preserved DEF Op
<1> QED BY <1>3, <1>8

LEMMA NoRowShrinks == ASSUME NEW d \in Database PROVE Shrinks(d, d)
BY DEF Shrinks

\* What a request that writes outside a transaction is known to hold.
LEMMA AtExec ==
  ASSUME NEW s \in Sessions, StoreInv, NEW op, Exec(s, op)
  PROVE  /\ req[s] \in Requests /\ req[s].op = op /\ db \in Database
         /\ Fits("exec", req[s], view[s]) /\ IsView(view[s]) /\ Shrinks(db, db)
BY AtStatement, NoRowShrinks DEF Exec, At, StoreInv, Statements

LEMMA ExecCreateFlagPreserves ==
  ASSUME NEW s \in Sessions, StoreInv, ExecCreateFlag(s)
  PROVE  StoreInv' /\ Shrinks(db, db')
<1> DEFINE r == req[s]
           d == PutFlag(db, r.flag, FlagRowOf(r))
<1>1. Exec(s, "CreateFlag")
  BY DEF ExecCreateFlag
<1>2. r \in Requests /\ r.op = "CreateFlag" /\ db \in Database /\ Shrinks(db, db)
      /\ ValidFlag(r)
  BY <1>1, AtExec DEF Fits
<1>3. CASE HasFlag(db, r.flag)
  <2>1. NoRow /\ Finish(s, 409, NoBody)
    BY <1>3 DEF ExecCreateFlag
  <2> QED BY <1>1, <1>2, <2>1, ExecWrites
<1>4. CASE ~HasFlag(db, r.flag)
  <2>1. Install(s, d) /\ Finish(s, 201, NoBody)
    BY <1>4 DEF ExecCreateFlag
  <2>2. r.flag \in FlagKeys /\ FlagRowOf(r) \in FlagRow \cup {Absent}
    BY <1>2, RequestShape, SchemaAssumption DEF ValidFlag, FlagRowOf, FlagRow
  <2>3. Shrinks(db, d)
    BY <1>2, <2>2, PutFlagShrinks
  <2> HIDE DEF d
  <2> QED BY <1>1, <2>1, <2>3, ExecWrites
<1> QED BY <1>3, <1>4

LEMMA ExecUpdateFlagPreserves ==
  ASSUME NEW s \in Sessions, StoreInv, ExecUpdateFlag(s)
  PROVE  StoreInv' /\ Shrinks(db, db')
<1> DEFINE r == req[s]
           merged == Merge(view[s].row, r)
           d == [db EXCEPT !.flags[r.flag].enabled = merged.enabled,
                           !.flags[r.flag].default = merged.default]
<1>1. Exec(s, "UpdateFlag") /\ \E b : Finish(s, 200, b)
  BY DEF ExecUpdateFlag
<1>2. r \in Requests /\ r.op = "UpdateFlag" /\ db \in Database /\ Shrinks(db, db)
      /\ view[s].row \in FlagRow
  BY <1>1, AtExec DEF Fits, IsView
<1>3. CASE HasFlag(db, r.flag)
  <2>1. Install(s, d)
    BY <1>3 DEF ExecUpdateFlag
  <2>2. merged.enabled \in BOOLEAN /\ merged.default \in Values /\ r.flag \in FlagKeys
    BY <1>2, MergeTyped, RequestShape
  <2>3. Shrinks(db, d)
    <3> HIDE DEF merged
    <3> QED BY <1>2, <1>3, <2>2, UpdateShrinks
  <2> HIDE DEF d
  <2> QED BY <1>1, <2>1, <2>3, ExecWrites
<1>4. CASE ~HasFlag(db, r.flag)
  <2>1. NoRow
    BY <1>4 DEF ExecUpdateFlag
  <2> QED BY <1>1, <1>2, <2>1, ExecWrites
<1> QED BY <1>3, <1>4

LEMMA ExecDeleteFlagPreserves ==
  ASSUME NEW s \in Sessions, StoreInv, ExecDeleteFlag(s)
  PROVE  StoreInv' /\ Shrinks(db, db')
<1> DEFINE f == req[s].flag
<1>1. Exec(s, "DeleteFlag")
  BY DEF ExecDeleteFlag
<1>2. f \in FlagKeys /\ db \in Database /\ Shrinks(db, db) /\ FK(s) \in BOOLEAN
  BY <1>1, AtExec, RequestShape DEF FK
<1>3. CASE HasFlag(db, f)
  BY <1>1, <1>2, <1>3, DropFlagShrinks, ExecWrites DEF ExecDeleteFlag
<1>4. CASE ~HasFlag(db, f)
  <2>1. NoRow /\ Finish(s, 404, NoBody)
    BY <1>4 DEF ExecDeleteFlag
  <2> QED BY <1>1, <1>2, <2>1, ExecWrites
<1> QED BY <1>3, <1>4

LEMMA ExecToggleFlagPreserves ==
  ASSUME NEW s \in Sessions, StoreInv, ExecToggleFlag(s)
  PROVE  StoreInv' /\ Shrinks(db, db')
<1> DEFINE f == req[s].flag
<1>1. Exec(s, "ToggleFlag") /\ Goto(s, "flagRow", NoView)
  BY DEF ExecToggleFlag
<1>2. f \in FlagKeys /\ db \in Database /\ Shrinks(db, db)
  BY <1>1, AtExec, RequestShape
<1>3. CASE HasFlag(db, f)
  BY <1>1, <1>2, <1>3, ToggleShrinks, ExecWrites DEF ExecToggleFlag
<1>4. CASE ~HasFlag(db, f)
  <2>1. NoRow
    BY <1>4 DEF ExecToggleFlag
  <2> QED BY <1>1, <1>2, <2>1, ExecWrites
<1> QED BY <1>3, <1>4

LEMMA ExecDeleteRulePreserves ==
  ASSUME NEW s \in Sessions, StoreInv, ExecDeleteRule(s)
  PROVE  StoreInv' /\ Shrinks(db, db')
<1> DEFINE r == req[s]
<1>1. Exec(s, "DeleteRule")
  BY DEF ExecDeleteRule
<1>2. {r.rule} \in SUBSET RuleIds /\ db \in Database /\ Shrinks(db, db) /\ FK(s) \in BOOLEAN
  BY <1>1, AtExec, RequestShape DEF FK
<1>3. CASE HasRule(db, r.flag, r.rule)
  BY <1>1, <1>2, <1>3, DropRulesShrinks, ExecWrites DEF ExecDeleteRule
<1>4. CASE ~HasRule(db, r.flag, r.rule)
  <2>1. NoRow /\ Finish(s, 404, NoBody)
    BY <1>4 DEF ExecDeleteRule
  <2> QED BY <1>1, <1>2, <2>1, ExecWrites
<1> QED BY <1>3, <1>4

LEMMA ExecDeleteSegmentPreserves ==
  ASSUME NEW s \in Sessions, StoreInv, ExecDeleteSegment(s)
  PROVE  StoreInv' /\ Shrinks(db, db')
<1> DEFINE g == req[s].segment
<1>1. Exec(s, "DeleteSegment")
  BY DEF ExecDeleteSegment
<1>2. g \in SegmentKeys /\ db \in Database /\ Shrinks(db, db) /\ FK(s) \in BOOLEAN
  BY <1>1, AtExec, RequestShape DEF FK
<1>3. CASE g \in db.segs
  BY <1>1, <1>2, <1>3, DropSegmentShrinks, ExecWrites DEF ExecDeleteSegment
<1>4. CASE g \notin db.segs
  <2>1. NoRow /\ Finish(s, 404, NoBody)
    BY <1>4 DEF ExecDeleteSegment
  <2> QED BY <1>1, <1>2, <2>1, ExecWrites
<1> QED BY <1>3, <1>4

-----------------------------------------------------------------------------
(* Transactions. *)

\* The rule that a CreateRule or UpdateRule writes.
RuleId(d, r) == IF r.op = "CreateRule" THEN d.nextRule ELSE r.rule

\* Database e is d after the transaction of request r has written.
Transacts(d, e, r) ==
  /\ r.op \in SegmentOps => Shrinks(d, e)
  /\ r.op \in RuleOps =>
       /\ RuleId(d, r) \in RuleIds /\ ValidRule(r)
       /\ PutsRule(d, e, RuleId(d, r), RuleRowOf(r), r.conds, r.segs)
       /\ LinksOf(e, RuleId(d, r)) \subseteq KeysIn(r.segs)
       /\ r.op = "UpdateRule" => HasRule(d, r.flag, r.rule)
       /\ e.nextRule = IF r.op = "CreateRule" THEN d.nextRule + 1 ELSE d.nextRule

\* What a transaction writes.
LEMMA WrittenTransacts ==
  ASSUME NEW s \in Sessions, SessionInv(s), pc[s] \in {"write", "upgrade", "commit"},
         db \in Database, NothingAhead(db), RuleIdLeft(db, req[s]),
         Op(s) \in RuleOps => KeysIn(req[s].segs) \subseteq db.segs,
         Written(s) # Absent
  PROVE  /\ Written(s) \in Database /\ NothingAhead(Written(s))
         /\ Transacts(db, Written(s), req[s])
<1> DEFINE r == req[s]
<1>1. r \in Requests /\ Fits(pc[s], r, view[s]) /\ Op(s) = r.op /\ FK(s) \in BOOLEAN
  BY AtStatement DEF Statements, FK
<1>2. r.op \in RuleOps \cup SegmentOps
  BY <1>1 DEF Fits, OpsAt
<1>3. CASE r.op \in RuleOps
  <2>1. ValidRule(r)
    BY <1>1, <1>3 DEF Fits
  <2>2. /\ RuleRowOf(r) \in RuleRow /\ RuleRowOf(r).flag = r.flag
        /\ r.conds \in Seq(Conditions) /\ KeysIn(r.segs) \subseteq SegmentKeys
    BY <1>1, <1>3, <2>1, RuleRequest
  <2>3. CASE r.op = "CreateRule"
    <3>1. Written(s) = InsertRule(db, RuleRowOf(r), r.conds, r.segs, FK(s))
      BY <2>3 DEF Written
    <3>2. db.nextRule \in RuleIds
      BY <2>3 DEF RuleIdLeft
    <3>3. /\ PutsRule(db, Written(s), db.nextRule, RuleRowOf(r), r.conds, r.segs)
          /\ Written(s).nextRule = db.nextRule + 1
      <4>1. InsertRule(db, RuleRowOf(r), r.conds, r.segs, FK(s)) # Absent
        BY <3>1
      <4> HIDE DEF r
      <4>2. PutsRule(db, InsertRule(db, RuleRowOf(r), r.conds, r.segs, FK(s)), db.nextRule, RuleRowOf(r), r.conds, r.segs)
        BY <1>1, <2>2, <3>2, <4>1, InsertRulePuts
      <4>3. InsertRule(db, RuleRowOf(r), r.conds, r.segs, FK(s)).nextRule = db.nextRule + 1
        BY <1>1, <2>2, <3>2, <4>1, InsertRulePuts
      <4> QED BY <3>1, <4>2, <4>3
    <3>4. LinksOf(db, db.nextRule) = {}
      BY <3>2 DEF LinksOf, NothingAhead, RuleIds
    <3>5. LinksOf(Written(s), db.nextRule) \subseteq KeysIn(r.segs)
      BY <3>3, <3>4 DEF PutsRule
    <3>6. NothingAhead(Written(s))
      <4>1. ASSUME NEW l \in Written(s).links PROVE l[1] < db.nextRule + 1
        <5>1. CASE l \in db.links
          <6>1. l[1] \in RuleIds /\ l[1] < db.nextRule
            BY <5>1 DEF NothingAhead, Database
          <6> QED BY <3>2, <6>1 DEF RuleIds
        <5>2. CASE l \in {db.nextRule} \X KeysIn(r.segs)
          BY <3>2, <5>2 DEF RuleIds
        <5> QED BY <3>3, <5>1, <5>2 DEF PutsRule
      <4>2. ASSUME NEW i \in RuleIds, Written(s).rules[i] # Absent PROVE i < db.nextRule + 1
        BY <3>2, <3>3, <4>2 DEF PutsRule, NothingAhead, IdsFresh, RuleIds
      <4> QED BY <3>3, <4>1, <4>2 DEF NothingAhead, IdsFresh
    <3> QED BY <2>1, <2>3, <3>2, <3>3, <3>5, <3>6
            DEF Transacts, RuleId, SegmentOps, PutsRule
  <2>4. CASE r.op = "UpdateRule"
    <3>1. Written(s) = RewriteRule(db, r.rule, RuleRowOf(r), r.conds, r.segs, FK(s))
      BY <2>4 DEF Written
    <3>2. r.rule \in RuleIds
      BY <1>1, <2>4, RequestShape
    <3>3. /\ PutsRule(db, Written(s), r.rule, RuleRowOf(r), r.conds, r.segs)
          /\ LinksOf(Written(s), r.rule) \subseteq KeysIn(r.segs)
          /\ Written(s).nextRule = db.nextRule
          /\ HasRule(db, r.flag, r.rule)
      BY <1>1, <2>2, <3>1, <3>2, RewriteRulePuts
    <3>4. r.rule < db.nextRule
      BY <3>2, <3>3 DEF HasRule, NothingAhead, IdsFresh
    <3>5. NothingAhead(Written(s))
      <4>1. ASSUME NEW l \in Written(s).links PROVE l[1] < db.nextRule
        BY <3>3, <3>4 DEF PutsRule, NothingAhead
      <4>2. ASSUME NEW i \in RuleIds, Written(s).rules[i] # Absent PROVE i < db.nextRule
        BY <3>3, <3>4, <4>2 DEF PutsRule, NothingAhead, IdsFresh
      <4> QED BY <3>3, <4>1, <4>2 DEF NothingAhead, IdsFresh
    <3> QED BY <2>1, <2>4, <3>2, <3>3, <3>5
            DEF Transacts, RuleId, SegmentOps, PutsRule
  <2> QED BY <1>3, <2>3, <2>4 DEF RuleOps
<1>4. CASE r.op \in SegmentOps
  <2>1. r.segment \in SegmentKeys
    BY <1>1, <1>4, RequestShape DEF SegmentOps
  <2>2. Shrinks(db, Written(s))
    <3>1. CASE r.op = "CreateSegment"
      <4>1. Written(s) = InsertSegment(db, r.segment, r.text, r.conds)
        BY <3>1 DEF Written
      <4>2. pc[s] # "upgrade" /\ r.conds \in Seq(Conditions) /\ r.text \in Descriptions
        BY <1>1, <3>1, RequestShape DEF Fits, OpsAt, RuleOps, ValidSegment, ValidConditions
      <4> QED BY <2>1, <4>1, <4>2, InsertSegmentShrinks
    <3>2. CASE r.op = "UpdateSegment"
      <4> DEFINE text == TextOf(r, view[s].text)
      <4>1. Written(s) = RewriteSegment(db, r.segment, text, r.conds, FK(s))
        BY <3>2 DEF Written
      <4>2. pc[s] # "upgrade" /\ r.conds \in Seq(Conditions) \cup {Absent}
        BY <1>1, <3>2 DEF Fits, OpsAt, RuleOps, ValidSegment, ValidConditions
      <4>3. text \in Descriptions \cup {Absent}
        BY <1>1, <3>2, AtStatement, RequestShape DEF TextOf, IsView, Statements
      <4> HIDE DEF text
      <4> QED BY <1>1, <2>1, <4>1, <4>2, <4>3, RewriteSegmentShrinks
    <3> QED BY <1>4, <3>1, <3>2 DEF SegmentOps
  <2>3. NothingAhead(Written(s)) /\ Written(s) \in Database
    BY <2>2, ShrinksNothingAhead DEF Shrinks
  <2> QED BY <1>4, <2>2, <2>3 DEF Transacts, RuleOps, SegmentOps
<1> QED BY <1>2, <1>3, <1>4

\* A statement fails.
LEMMA AbortPreserves ==
  ASSUME NEW s \in Sessions, StoreInv,
         pc[s] \in Reads \cup {"exec", "validate", "write", "upgrade"},
         conn[s] # Absent, Abort(s), UNCHANGED req
  PROVE  StoreInv' /\ db' = db
<1>1. Shaped /\ SessionInv(s) /\ PoolTyped /\ pc[s] \in Statements /\ conn[s] \in Kinds
  BY DEF StoreInv, Statements, Reads, SessionInv, SessionTyped
<1>2. req[s] # Absent /\ out[s] = NoReply /\ work[s] = Absent /\ pc[s] # "commit"
  BY <1>1, AtStatement DEF Reads
<1>3. Finish(s, ErrorStatus(req[s].op), NoBody) /\ Release(s) /\ UNCHANGED <<db, work>>
      /\ s \notin stale'
  BY DEF Abort
<1>4. ErrorStatus(req[s].op) # 0
  BY DEF ErrorStatus
<1>5. SessionInv(s)'
  BY <1>1, <1>2, <1>3, <1>4, Ends
<1>6. Kept(s)
  BY <1>1 DEF Abort, Kept, Shaped, Release, Finish
<1>7. PoolTyped'
  BY <1>1, <1>3, PoolKept
<1> QED BY <1>2, <1>3, <1>5, <1>6, <1>7, Preserved DEF StoreInv, Op

LEMMA ValidateSegmentKeysPreserves ==
  ASSUME NEW s \in Sessions, StoreInv, ValidateSegmentKeys(s)
  PROVE  StoreInv' /\ db' = db
<1>1. Shaped /\ SessionInv(s) /\ PoolTyped /\ pc[s] = "validate" /\ conn[s] # Absent
      /\ pc[s] \in Statements /\ UNCHANGED req
  BY DEF StoreInv, ValidateSegmentKeys, At, Statements
<1>2. /\ req[s] \in Requests /\ req[s] # Absent /\ out[s] = NoReply /\ s \notin stale
      /\ work[s] = Absent /\ Op(s) = req[s].op /\ Fits("validate", req[s], view[s])
  BY <1>1, AtStatement
<1>3. CASE KeysIn(req[s].segs) \subseteq db.segs
  <2>1. Goto(s, "upgrade", NoView) /\ Keep /\ UNCHANGED <<db, work, stale>>
    BY <1>3 DEF ValidateSegmentKeys
  <2>2. Kept(s)
    BY <1>1, <2>1 DEF Kept, Shaped, Goto, Keep
  <2>3. /\ pc'[s] = "upgrade" /\ view'[s] = NoView /\ conn'[s] = conn[s] /\ out'[s] = out[s]
    BY <1>1, <2>1 DEF Shaped, Goto, Keep
  <2>4. Fits("upgrade", req[s], NoView)
    BY <1>2 DEF Fits, OpsAt, RuleOps
  <2>5. SessionInv(s)'
    BY <1>1, <1>2, <1>3, <2>1, <2>3, <2>4, NoViewIsView
       DEF SessionInv, SessionTyped, Placed, Isolated, Statements, Reads
  <2> QED BY <1>1, <1>2, <2>1, <2>2, <2>5, Preserved DEF StoreInv, PoolTyped, Keep, Goto, Op
<1>4. CASE ~ KeysIn(req[s].segs) \subseteq db.segs
  <2>1. Abort(s)
    BY <1>4 DEF ValidateSegmentKeys
  <2> QED BY <1>1, <2>1, AbortPreserves
<1> QED BY <1>3, <1>4

LEMMA ReadFailsPreserves ==
  ASSUME NEW s \in Sessions, StoreInv, ReadFails(s)
  PROVE  StoreInv' /\ db' = db
BY AbortPreserves DEF ReadFails, At

LEMMA BusyPreserves ==
  ASSUME NEW s \in Sessions, StoreInv, Busy(s)
  PROVE  StoreInv' /\ db' = db
BY AbortPreserves DEF Busy, At

LEMMA WriteTransactionPreserves ==
  ASSUME NEW s \in Sessions, StoreInv, WriteTransaction(s)
  PROVE  StoreInv' /\ db' = db
<1>1. Shaped /\ SessionInv(s) /\ PoolTyped /\ pc[s] \in {"write", "upgrade"} /\ conn[s] # Absent
      /\ pc[s] \in Statements /\ UNCHANGED req /\ RuleIdLeft(db, req[s])
      /\ db \in Database /\ NothingAhead(db)
  BY DEF StoreInv, WriteTransaction, At, Statements
<1>2. /\ req[s] \in Requests /\ req[s] # Absent /\ out[s] = NoReply
      /\ work[s] = Absent /\ Op(s) = req[s].op /\ Fits(pc[s], req[s], view[s])
  BY <1>1, AtStatement
<1>3. CASE s \in stale \/ Written(s) = Absent
  <2>1. Abort(s)
    BY <1>3 DEF WriteTransaction
  <2> QED BY <1>1, <2>1, AbortPreserves
<1>4. CASE ~(s \in stale \/ Written(s) = Absent)
  <2>1. /\ work' = [work EXCEPT ![s] = Written(s)]
        /\ Goto(s, "commit", view[s]) /\ Keep /\ UNCHANGED <<db, stale>>
    BY <1>4 DEF WriteTransaction
  <2>2. \A t \in Sessions \ {s} : work[t] = Absent
    BY <1>4 DEF WriteTransaction, Locked
  <2>3. Kept(s)
    BY <1>1, <2>1 DEF Kept, Shaped, Goto, Keep
  <2>4. /\ pc'[s] = "commit" /\ view'[s] = view[s] /\ conn'[s] = conn[s] /\ out'[s] = out[s]
        /\ work'[s] = Written(s) /\ req'[s] = req[s]
    BY <1>1, <2>1 DEF Shaped, Goto, Keep
  <2>5. Op(s) \in RuleOps => KeysIn(req[s].segs) \subseteq db.segs
    <3>1. CASE pc[s] = "write"
      BY <1>2, <3>1 DEF Fits, KeysIn
    <3>2. CASE pc[s] = "upgrade"
      BY <1>1, <1>4, <3>2 DEF SessionInv, Isolated
    <3> QED BY <1>1, <3>1, <3>2
  <2>6. Written(s) \in Database
    BY <1>1, <1>4, <2>5, WrittenTransacts
  <2>7. Fits("commit", req[s], view[s])
    BY <1>1, <1>2 DEF Fits, OpsAt, RuleOps, SegmentOps
  <2>8. Written(s)' = Written(s)
    BY <2>1, <2>4 DEF Written, FK
  <2>9. SessionInv(s)'
    <3>1. SessionTyped(s)'
      BY <1>1, <1>2, <2>4, <2>6 DEF SessionInv, SessionTyped, Statements
    <3>2. Placed(s)'
      BY <1>1, <1>2, <1>4, <2>1, <2>4, <2>7 DEF Placed, Statements, Reads
    <3>3. Isolated(s)'
      BY <1>1, <2>1, <2>4, <2>5, <2>8 DEF Isolated, Op
    <3> QED BY <3>1, <3>2, <3>3 DEF SessionInv
  <2> QED BY <1>1, <1>2, <2>1, <2>2, <2>3, <2>9, Preserved DEF StoreInv, PoolTyped, Keep, Goto, Op
<1> QED BY <1>3, <1>4

LEMMA CommitPreserves ==
  ASSUME NEW s \in Sessions, StoreInv, Commit(s)
  PROVE  StoreInv' /\ req[s] \in Requests /\ Transacts(db, db', req[s])
         /\ (req[s].op \in RuleOps => KeysIn(req[s].segs) \subseteq db.segs)
<1>1. Shaped /\ SessionInv(s) /\ PoolTyped /\ pc[s] = "commit" /\ conn[s] \in Kinds
      /\ conn[s] # Absent /\ pc[s] \in Statements /\ UNCHANGED req /\ Release(s)
      /\ db \in Database /\ NothingAhead(db) /\ db' = work[s]
  BY DEF StoreInv, Commit, Install, At, Statements, SessionInv, SessionTyped
<1>2. /\ req[s] \in Requests /\ req[s] # Absent /\ out[s] = NoReply
      /\ Op(s) = req[s].op /\ s \notin stale /\ Fits("commit", req[s], view[s])
  BY <1>1, AtStatement
<1>3. /\ work[s] = Written(s) /\ work[s] # Absent /\ RuleIdLeft(db, req[s])
      /\ Op(s) \in RuleOps => KeysIn(req[s].segs) \subseteq db.segs
  BY <1>1 DEF SessionInv, Isolated, Placed
<1>4. db' \in Database /\ NothingAhead(db') /\ Transacts(db, db', req[s])
  BY <1>1, <1>3, WrittenTransacts
<1>5. Kept(s)
  BY CommitKeeps
<1>6. \E st \in {200, 201} : \E b : Finish(s, st, b)
  BY CommitEnds
<1>7. /\ work'[s] = Absent /\ s \notin stale' /\ out'[s] # NoReply
      /\ \A t \in Sessions \ {s} : work[t] = Absent
  <2>1. \A t \in Sessions \ {s} : work[t] = Absent
    BY <1>3 DEF StoreInv, OneWriter
  <2>2. \E st \in {200, 201} : \E b : Finish(s, st, b)
    BY <1>6
  <2> QED BY <1>1, <1>2, <2>1, <2>2, Distinctions DEF Commit, Install, Finish, Shaped
<1>8. SessionInv(s)'
  BY <1>1, <1>2, <1>7, <1>6, Ends
<1>9. PoolTyped'
  BY <1>1, PoolKept
<1>10. \A t \in Sessions : SessionInv(t)'
  BY <1>5, <1>8, OthersKept DEF StoreInv
<1>11. OneWriter'
  BY <1>5, <1>7 DEF OneWriter, Kept
<1>12. IdsSuffice'
  <2>1. Pending' \subseteq Pending \ {s}
    BY <1>1, <1>5, <1>7 DEF Pending, Kept, Op
  <2>2. IsFiniteSet(Pending \ {s}) /\ Cardinality(Pending \ {s}) \in Nat
    BY PendingFinite, FS_RemoveElement, FS_CardinalityType
  <2>3. Cardinality(Pending') <= Cardinality(Pending \ {s}) /\ Cardinality(Pending') \in Nat
    BY <2>1, <2>2, FS_Subset, FS_CardinalityType
  <2>4. Cardinality(Pending \ {s})
          = IF s \in Pending THEN Cardinality(Pending) - 1 ELSE Cardinality(Pending)
    BY PendingFinite, FS_RemoveElement
  <2>5. db.nextRule \in Int /\ MaxRule \in Int /\ Cardinality(Pending) \in Int
    BY <1>1, PendingFinite, SchemaAssumption DEF Database
  <2>6. CASE req[s].op = "CreateRule"
    <3>1. s \in Pending /\ db'.nextRule = db.nextRule + 1
      BY <1>2, <1>4, <2>6 DEF Pending, Transacts, RuleOps
    <3> QED BY <2>2, <2>3, <2>4, <2>5, <3>1 DEF StoreInv, IdsSuffice
  <2>7. CASE req[s].op # "CreateRule"
    <3>1. s \notin Pending
      BY <1>2, <2>7 DEF Pending
    <3>2. db'.nextRule = db.nextRule
      BY <1>2, <1>4, <2>7 DEF Transacts, Fits, OpsAt, Shrinks
    <3> QED BY <2>2, <2>3, <2>4, <2>5, <3>1, <3>2 DEF StoreInv, IdsSuffice
  <2> QED BY <2>6, <2>7
<1> QED BY <1>1, <1>2, <1>3, <1>4, <1>5, <1>9, <1>10, <1>11, <1>12 DEF StoreInv, Kept

-----------------------------------------------------------------------------
(* Requests and connections. *)

LEMMA ValidatePreserves ==
  ASSUME NEW s \in Sessions, StoreInv, Validate(s)
  PROVE  StoreInv' /\ db' = db
<1> DEFINE r == req[s]
           todo == IF r.op \in {"GetSegment", "UpdateSegment"} THEN {r.segment} ELSE {}
           v == [NoView EXCEPT !.todo = todo]
<1>1. Shaped /\ SessionInv(s) /\ PoolTyped /\ pc[s] = "handler"
      /\ UNCHANGED <<db, free, conn, req, work, stale>>
  BY DEF StoreInv, Validate
<1>2. /\ r \in Requests /\ r # Absent /\ out[s] = NoReply /\ s \notin stale
      /\ work[s] = Absent /\ Op(s) = r.op /\ conn[s] = Absent
  BY <1>1 DEF SessionInv, SessionTyped, Placed, Statements, Reads, Op
<1>3. Kept(s)
  BY <1>1 DEF Validate, Kept, Shaped, Goto, Finish
<1>4. CASE Refused(r)
  <2>1. Finish(s, 400, NoBody)
    BY <1>4 DEF Validate
  <2>2. /\ pc'[s] = "returned" /\ view'[s] = NoView /\ out'[s] # NoReply
    BY <1>1, <2>1, Distinctions DEF Shaped, Finish
  <2>3. SessionInv(s)'
    BY <1>1, <1>2, <2>2, NoViewIsView
       DEF SessionInv, SessionTyped, Placed, Isolated, Statements, Reads
  <2> QED BY <1>1, <1>2, <1>3, <2>2, <2>3, Preserved DEF StoreInv, PoolTyped, Op
<1>5. CASE ~Refused(r)
  <2>1. Goto(s, FirstStep(r), v)
    BY <1>5 DEF Validate
  <2>2. todo \subseteq SegmentKeys
    BY <1>2, RequestShape
  <2> HIDE DEF todo
  <2>3. v = [row |-> NoView.row, rules |-> NoView.rules, todo |-> todo, text |-> NoView.text,
             segments |-> NoView.segments]
    BY NoViewIsView DEF IsView
  <2> HIDE DEF v
  <2>4. IsView(v)
    BY <2>2, <2>3, NoViewIsView DEF IsView
  <2>5. FirstStep(r) \in {"exec", "flagRow", "segRow", "count", "write", "validate"}
        /\ Fits(FirstStep(r), r, v)
    <3>1. r.op \in {"CreateFlag", "GetFlag", "UpdateFlag", "DeleteFlag", "ToggleFlag",
                    "CreateRule", "UpdateRule", "DeleteRule", "CreateSegment", "GetSegment",
                    "UpdateSegment", "DeleteSegment", "Evaluate"}
      BY <1>2, RequestShape
    <3>2. CASE r.op = "UpdateRule"
      BY <1>5, <3>2 DEF Refused, FirstStep, Begin, Fits, OpsAt, RuleOps
    <3>3. CASE r.op \in {"CreateFlag", "DeleteFlag", "ToggleFlag", "DeleteRule"}
      BY <1>5, <3>3 DEF Refused, FirstStep, Fits, OpsAt
    <3>4. CASE r.op \in {"GetFlag", "UpdateFlag", "CreateRule", "Evaluate"}
      BY <3>4 DEF FirstStep, Fits, OpsAt, FlagOps
    <3>5. CASE r.op \in {"GetSegment", "UpdateSegment"}
      BY <1>5, <3>5 DEF Refused, FirstStep, Fits, OpsAt
    <3>6. CASE r.op \in {"DeleteSegment", "CreateSegment"}
      BY <1>5, <3>6 DEF Refused, FirstStep, Fits, OpsAt, RuleOps, SegmentOps
    <3> QED BY <3>1, <3>2, <3>3, <3>4, <3>5, <3>6
  <2>6. SessionInv(s)'
    BY <1>1, <1>2, <2>1, <2>4, <2>5, GoesOn DEF Statements, Reads
  <2> QED BY <1>1, <1>2, <1>3, <2>1, <2>6, Preserved DEF StoreInv, PoolTyped, Op, Goto
<1> QED BY <1>4, <1>5

LEMMA AcquirePreserves ==
  ASSUME NEW s \in Sessions, StoreInv, Acquire(s)
  PROVE  StoreInv' /\ db' = db
<1>1. Shaped /\ SessionInv(s) /\ PoolTyped /\ pc[s] \in Statements /\ conn[s] = Absent
      /\ UNCHANGED <<db, req, pc, view, work, stale, out>>
  BY DEF StoreInv, Acquire
<1>2. conn'[s] \in Kinds /\ conn'[s] # Absent
  BY <1>1, Distinctions DEF Acquire, Shaped, Kinds
<1>3. Kept(s)
  BY <1>1 DEF Acquire, Kept, Shaped
<1>4. PoolTyped'
  <2>1. ASSUME NEW k \in Kinds, free[k] > 0, free' = [free EXCEPT ![k] = @ - 1]
        PROVE  PoolTyped'
    BY <1>1, <2>1, StoreAssumption DEF PoolTyped, Kinds
  <2> QED BY <1>1, <2>1 DEF Acquire, PoolTyped
<1>5. SessionInv(s)'
  <2>1. pc[s] # "commit"
    BY <1>1 DEF SessionInv, Placed
  <2> QED BY <1>1, <1>2, <2>1 DEF SessionInv, SessionTyped, Placed, Isolated
<1> QED BY <1>1, <1>3, <1>4, <1>5, Preserved DEF StoreInv, OneWriter, Op

LEMMA RespondPreserves ==
  ASSUME NEW s \in Sessions, StoreInv, Respond(s)
  PROVE  StoreInv' /\ db' = db
<1>1. Shaped /\ SessionInv(s) /\ PoolTyped /\ pc[s] = "returned"
      /\ UNCHANGED <<db, free, conn, view, work, stale>>
  BY DEF StoreInv, Respond
<1>2. pc'[s] = "idle" /\ req'[s] = Absent /\ out'[s] = NoReply
  BY <1>1 DEF Respond, Shaped
<1>3. Kept(s)
  BY <1>1 DEF Respond, Kept, Shaped
<1>4. SessionInv(s)'
  BY <1>1, <1>2 DEF SessionInv, SessionTyped, Placed, Isolated, Statements, Reads
<1>5. ~(Op(s)' = "CreateRule")
  BY <1>2 DEF Op
<1>6. work'[s] = Absent
  BY <1>1 DEF SessionInv, Placed
<1> QED BY <1>1, <1>3, <1>4, <1>5, <1>6, Preserved DEF StoreInv, PoolTyped

LEMMA StartPreserves ==
  ASSUME NEW s \in Sessions, StoreInv, NEW r \in Requests, Start(s, r)
  PROVE  StoreInv' /\ db' = db
<1>1. Shaped /\ SessionInv(s) /\ PoolTyped /\ pc[s] = "idle" /\ db \in Database
      /\ UNCHANGED <<db, free, conn, work, stale, out>> /\ Goto(s, "handler", NoView)
  BY DEF StoreInv, Start, Goto
<1>2. pc'[s] = "handler" /\ req'[s] = r /\ view'[s] = NoView /\ r # Absent
  BY <1>1, Distinctions DEF Start, Goto, Shaped
<1>3. Kept(s)
  BY <1>1 DEF Start, Goto, Kept, Shaped
<1>4. work[s] = Absent /\ s \notin stale /\ req[s] = Absent /\ conn[s] = Absent /\ out[s] = NoReply
  BY <1>1 DEF SessionInv, Placed, Statements, Reads
<1>5. SessionInv(s)'
  BY <1>1, <1>2, <1>4, NoViewIsView
     DEF SessionInv, SessionTyped, Placed, Isolated, Statements, Reads
<1>6. CASE r.op = "CreateRule"
  <2>1. \A t \in Sessions : SessionInv(t)'
    BY <1>3, <1>5, OthersKept DEF StoreInv
  <2>2. IdsSuffice'
    <3>1. Pending \subseteq CreatingRules /\ IsFiniteSet(CreatingRules)
      BY StoreAssumption, FS_Subset DEF Pending, CreatingRules
    <3>2. Cardinality(Pending) <= Cardinality(CreatingRules) /\ Cardinality(CreatingRules) \in Nat
      BY <3>1, FS_Subset, FS_CardinalityType
    <3>3. Pending' \subseteq Pending \cup {s}
      BY <1>1, <1>3 DEF Pending, Kept, Op
    <3>4. /\ IsFiniteSet(Pending \cup {s})
          /\ Cardinality(Pending \cup {s}) <= Cardinality(Pending) + 1
          /\ Cardinality(Pending \cup {s}) \in Nat
      <4>1. /\ IsFiniteSet(Pending \cup {s})
            /\ Cardinality(Pending \cup {s})
                 = IF s \in Pending THEN Cardinality(Pending) ELSE Cardinality(Pending) + 1
        BY PendingFinite, FS_AddElement
      <4>2. Cardinality(Pending \cup {s}) \in Nat
        BY <4>1, FS_CardinalityType
      <4> QED BY <4>1, <4>2, PendingFinite
    <3>5. Cardinality(Pending') <= Cardinality(Pending \cup {s}) /\ Cardinality(Pending') \in Nat
      BY <3>3, <3>4, FS_Subset, FS_CardinalityType
    <3>6. db.nextRule + Cardinality(CreatingRules) <= MaxRule
      BY <1>6 DEF Start
    <3>7. db.nextRule \in Int /\ MaxRule \in Int
      BY <1>1, SchemaAssumption DEF Database
    <3> QED BY <1>1, <3>2, <3>4, <3>5, <3>6, <3>7, PendingFinite DEF IdsSuffice
  <2>3. OneWriter'
    BY <1>1 DEF StoreInv, OneWriter
  <2> QED BY <1>1, <1>3, <2>1, <2>2, <2>3 DEF StoreInv, Kept, PoolTyped
<1>7. CASE r.op # "CreateRule"
  <2>1. Op(s)' # "CreateRule"
    BY <1>2, <1>7 DEF Op
  <2> QED BY <1>1, <1>3, <1>4, <1>5, <2>1, Preserved DEF StoreInv, PoolTyped
<1> QED BY <1>6, <1>7

\* No session is at work.
Rested == /\ db \in Database /\ NothingAhead(db)
          /\ free = [k \in Kinds |-> IF k = "fk" THEN 1 ELSE 0]
          /\ conn = Nobody /\ req = Nobody /\ work = Nobody
          /\ out = [s \in Sessions |-> NoReply]
          /\ pc = [s \in Sessions |-> "idle"]
          /\ view = [s \in Sessions |-> NoView]
          /\ stale = {}

LEMMA RestedInv == Rested => StoreInv
<1> SUFFICES ASSUME Rested PROVE StoreInv
  OBVIOUS
<1>1. Shaped /\ OneWriter
  BY DEF Rested, Nobody, Shaped, OneWriter
<1>2. PoolTyped
  BY StoreAssumption DEF Rested, PoolTyped, Kinds
<1>3. ASSUME NEW s \in Sessions PROVE SessionInv(s)
  BY NoViewIsView DEF Rested, Nobody, SessionInv, SessionTyped, Placed, Isolated, Statements, Reads
<1>4. IdsSuffice
  <2>1. Pending = {}
    BY DEF Rested, Nobody, Pending, Op
  <2>2. db.nextRule \in 1 .. MaxRule + 1
    BY DEF Rested, Database
  <2> QED BY <2>1, <2>2, FS_EmptySet, SchemaAssumption DEF IdsSuffice
<1> QED BY <1>1, <1>2, <1>3, <1>4 DEF Rested, StoreInv

LEMMA InitInv == Init => StoreInv
<1> SUFFICES ASSUME Init PROVE Rested
  BY RestedInv
<1>1. db \in Database /\ IdsFresh(db) /\ ReferentialIntegrity(db)
  BY RequestsAssumption DEF Init
<1>2. ASSUME NEW l \in db.links PROVE l[1] < db.nextRule
  <2>1. l[1] \in RuleIds /\ l[2] \in SegmentKeys /\ l = <<l[1], l[2]>>
    BY <1>1 DEF Database
  <2>2. LinksOf(db, l[1]) # {}
    BY <2>1 DEF LinksOf
  <2> QED BY <1>1, <2>1, <2>2 DEF ReferentialIntegrity, IdsFresh
<1> QED BY <1>1, <1>2 DEF Init, Rested, NothingAhead

LEMMA CrashPreserves == StoreInv /\ Crash => StoreInv'
<1> SUFFICES ASSUME StoreInv, Crash PROVE Rested'
  BY RestedInv, PTL
<1> QED BY DEF StoreInv, Crash, Rested, Nobody

-----------------------------------------------------------------------------
(* Theorems. *)

LEMMA Stutters == StoreInv /\ UNCHANGED vars => StoreInv' /\ db' = db
<1> SUFFICES ASSUME StoreInv, UNCHANGED vars PROVE StoreInv' /\ db' = db
  OBVIOUS
<1>1. UNCHANGED <<db, free, conn, req, pc, view, work, stale, out>>
  BY DEF vars
<1>2. \A s \in Sessions : SessionInv(s)'
  <2>1. ASSUME NEW s \in Sessions PROVE SessionInv(s)'
    BY <1>1 DEF StoreInv, SessionInv, SessionTyped, Placed, Isolated, Op, Written, FK
  <2> QED BY <2>1
<1>3. IdsSuffice'
  BY <1>1 DEF StoreInv, IdsSuffice, Pending, Op
<1> QED BY <1>1, <1>2, <1>3 DEF StoreInv, PoolTyped, Shaped, OneWriter

\* What a step does to the database: it removes rules and links and changes
\* flags and segments, or the transaction of request r on a rule commits.
CommitsRule(r) == /\ r.op \in RuleOps
                  /\ Transacts(db, db', r)
                  /\ KeysIn(r.segs) \subseteq db.segs

DatabaseStep == Shrinks(db, db') \/ \E r \in Workload : CommitsRule(r)

\* A session preserves the invariant, whatever request it serves.
LEMMA StepPreserves ==
  ASSUME NEW s \in Sessions, StoreInv, Step(s)
  PROVE  StoreInv' /\ (Shrinks(db, db') \/ (req[s] \in Requests /\ CommitsRule(req[s])))
<1>1. db' = db => Shrinks(db, db')
  BY NoRowShrinks DEF StoreInv
<1>2. CASE Validate(s)
  BY <1>1, <1>2, ValidatePreserves
<1>3. CASE Acquire(s)
  BY <1>1, <1>3, AcquirePreserves
<1>4. CASE Respond(s)
  BY <1>1, <1>4, RespondPreserves
<1>5. CASE Read(s)
  <2>1. db' = db
    BY <1>5 DEF Read, ReadFlagRow, ReadRules, ReadLinks, ReadSegmentRow, ReadSegmentConds,
                CountLinks, ReadOnly
  <2> QED BY <1>1, <1>5, <2>1, ReadPreserves
<1>6. CASE \/ ExecCreateFlag(s) \/ ExecUpdateFlag(s) \/ ExecDeleteFlag(s)
           \/ ExecToggleFlag(s) \/ ExecDeleteRule(s) \/ ExecDeleteSegment(s)
  BY <1>6, ExecCreateFlagPreserves, ExecUpdateFlagPreserves, ExecDeleteFlagPreserves,
     ExecToggleFlagPreserves, ExecDeleteRulePreserves, ExecDeleteSegmentPreserves
<1>7. CASE ValidateSegmentKeys(s) \/ WriteTransaction(s) \/ Busy(s)
  BY <1>1, <1>7, ValidateSegmentKeysPreserves, WriteTransactionPreserves, BusyPreserves
<1>8. CASE Commit(s)
  <2>1. /\ StoreInv' /\ req[s] \in Requests /\ Transacts(db, db', req[s])
        /\ req[s].op \in RuleOps => KeysIn(req[s].segs) \subseteq db.segs
    BY <1>8, CommitPreserves
  <2>2. req[s].op \in RuleOps \cup SegmentOps
    <3>1. SessionInv(s) /\ pc[s] = "commit" /\ pc[s] \in Statements
      BY <1>8 DEF StoreInv, Commit, At, Statements
    <3> QED BY <3>1, AtStatement DEF Fits, OpsAt
  <2> QED BY <2>1, <2>2 DEF CommitsRule, Transacts
<1> QED BY <1>2, <1>3, <1>4, <1>5, <1>6, <1>7, <1>8 DEF Step, Write

\* A step of a session takes nothing but its own request away.
LEMMA SentPreserved ==
  ASSUME StoreInv, Sent, [Next]_vars
  PROVE  Sent'
<1>1. Shaped
  BY DEF StoreInv
<1>2. ASSUME NEW s \in Sessions, Step(s) PROVE Sent'
  <2>1. UNCHANGED req \/ Respond(s)
    BY <1>2 DEF Step, Validate, Acquire, Read, Write, ReadFlagRow, ReadRules, ReadLinks,
         ReadSegmentRow, ReadSegmentConds, CountLinks, ReadOnly, ExecCreateFlag, ExecUpdateFlag,
         ExecDeleteFlag, ExecToggleFlag, ExecDeleteRule, ExecDeleteSegment, Exec,
         ValidateSegmentKeys, WriteTransaction, Commit, Busy
  <2> QED BY <1>1, <2>1 DEF Sent, Respond, Shaped
<1>3. ASSUME NEW s \in Sessions, NEW r \in Workload, Start(s, r) PROVE Sent'
  BY <1>1, <1>3 DEF Sent, Start, Shaped
<1>4. ASSUME NEW s \in Sessions, ReadFails(s) PROVE Sent'
  BY <1>4 DEF Sent, ReadFails
<1> QED BY <1>2, <1>3, <1>4 DEF Next, Crash, Nobody, Sent, vars

\* The invariant is inductive.
LEMMA NextPreserves == StoreInv /\ Sent /\ [Next]_vars => StoreInv' /\ Sent' /\ DatabaseStep
<1> SUFFICES ASSUME StoreInv, Sent, [Next]_vars PROVE StoreInv' /\ DatabaseStep
  BY SentPreserved
<1>1. StoreInv' /\ db' = db => StoreInv' /\ DatabaseStep
  BY NoRowShrinks DEF StoreInv, DatabaseStep
<1>2. ASSUME NEW s \in Sessions, Step(s) PROVE StoreInv' /\ DatabaseStep
  BY <1>2, StepPreserves, Distinctions DEF DatabaseStep, Sent
<1>3. ASSUME NEW s \in Sessions, NEW r \in Workload, Start(s, r) PROVE StoreInv' /\ DatabaseStep
  BY <1>1, <1>3, StartPreserves, Distinctions
<1>4. ASSUME NEW s \in Sessions, ReadFails(s) PROVE StoreInv' /\ DatabaseStep
  BY <1>1, <1>4, ReadFailsPreserves
<1>5. CASE Crash
  BY <1>1, <1>5, CrashPreserves DEF Crash
<1>6. CASE UNCHANGED vars
  BY <1>1, <1>6, Stutters
<1> QED BY <1>2, <1>3, <1>4, <1>5, <1>6 DEF Next

\* The invariant of the store: a transaction that has written has the database
\* to itself, one that has read before another commits is stale, and a session
\* holds what the statement it is at needs.
THEOREM StoreInvariant == Spec => [](StoreInv /\ Sent)
<1>1. Init => StoreInv /\ Sent
  BY InitInv DEF Init, Sent, Nobody
<1>2. StoreInv /\ Sent /\ [Next]_vars => StoreInv' /\ Sent'
  BY NextPreserves
<1> QED BY <1>1, <1>2, PTL DEF Spec

\* The database, the connections, the requests and what they have read keep
\* their types, whatever requests overlap and wherever the process dies.
THEOREM StoreTyped == Spec => []TypeOK
<1>1. StoreInv /\ Sent => TypeOK
  <2> SUFFICES ASSUME StoreInv, Sent PROVE TypeOK
    OBVIOUS
  <2>1. \A s \in Sessions : SessionTyped(s)
    BY DEF StoreInv, SessionInv
  <2>2. free \in [Kinds -> 0 .. MaxIdle]
    <3>1. \A k \in Kinds : free[k] \in 0 .. MaxIdle
      BY StoreAssumption DEF StoreInv, PoolTyped, Kinds
    <3> QED BY <3>1 DEF StoreInv, PoolTyped
  <2>3. req \in [Sessions -> Workload \cup {Absent}]
    BY DEF StoreInv, Shaped, Sent
  <2> QED BY <2>1, <2>2, <2>3 DEF StoreInv, SessionTyped, Shaped, TypeOK
<1> QED BY <1>1, StoreInvariant, PTL

\* No transaction links a rule to a segment that is not there when it commits
\* (validateSegmentKeys): a segment deleted in between makes it stale, on any
\* connection.
THEOREM LiveLinks == Spec => NewLinksAreLive
<1>1. ASSUME StoreInv, Sent, [Next]_vars PROVE [\A l \in db'.links \ db.links : l[2] \in db'.segs]_vars
  <2>1. DatabaseStep
    BY <1>1, NextPreserves
  <2>2. CASE Shrinks(db, db')
    BY <2>2 DEF Shrinks
  <2>3. ASSUME NEW r \in Workload, CommitsRule(r)
        PROVE  \A l \in db'.links \ db.links : l[2] \in db'.segs
    BY <2>3 DEF CommitsRule, Transacts, PutsRule
  <2> QED BY <2>1, <2>2, <2>3 DEF DatabaseStep
<1> QED BY <1>1, StoreInvariant, PTL DEF Spec, NewLinksAreLive

\* A rule that was deleted never comes back: an update that read before the
\* delete is too late to write, and one that has written has kept the delete out.
THEOREM DeletedRulesStayGone == Spec => NoRuleReturns
<1>1. ASSUME StoreInv, Sent, [Next]_vars
      PROVE  [\A i \in RuleIds : i < db.nextRule /\ db.rules[i] = Absent
                                 => db'.rules[i] = Absent]_vars
  <2>1. DatabaseStep
    BY <1>1, NextPreserves
  <2>2. CASE Shrinks(db, db')
    BY <2>2 DEF Shrinks
  <2>3. ASSUME NEW r \in Workload, CommitsRule(r),
               NEW i \in RuleIds, i < db.nextRule, db.rules[i] = Absent
        PROVE  db'.rules[i] = Absent
    <3>1. i # RuleId(db, r)
      <4>1. db.nextRule \in Int /\ i \in Int
        BY <1>1, SchemaAssumption DEF StoreInv, Database, RuleIds
      <4>2. CASE r.op = "CreateRule"
        BY <2>3, <4>1, <4>2 DEF RuleId
      <4>3. CASE r.op = "UpdateRule"
        BY <2>3, <4>3 DEF RuleId, CommitsRule, Transacts, HasRule
      <4> QED BY <2>3, <4>2, <4>3 DEF CommitsRule, RuleOps
    <3> QED BY <2>3, <3>1 DEF CommitsRule, Transacts, PutsRule
  <2> QED BY <2>1, <2>2, <2>3 DEF DatabaseStep
<1> QED BY <1>1, StoreInvariant, PTL DEF Spec, NoRuleReturns

\* The rules of database d are each what one request asked for.
RulesWhole(d) ==
  \A i \in RuleIds : d.rules[i] # Absent =>
    \E r \in Workload : /\ r.op \in {"CreateRule", "UpdateRule"}
                        /\ d.rules[i] = RuleRowOf(r) /\ d.conds[i] = r.conds
                        /\ LinksOf(d, i) \subseteq KeysIn(r.segs)

\* A stored rule is what one CreateRule or UpdateRule asked for and never a
\* mixture of two, provided the rules the server is started with are: a new rule
\* inherits no links, as nothing is stored under an id still to come.
THEOREM RulesStayWhole ==
  ASSUME \A d \in Stored : RulesWhole(d)
  PROVE  Spec => []RulesAreWhole
<1>1. Init => RulesAreWhole
  BY DEF Init, RulesWhole, RulesAreWhole
<1>2. StoreInv /\ Sent /\ [Next]_vars /\ RulesAreWhole => RulesAreWhole'
  <2> SUFFICES ASSUME StoreInv, Sent, [Next]_vars, RulesAreWhole,
                      NEW i \in RuleIds, db'.rules[i] # Absent
               PROVE  \E r \in Workload : /\ r.op \in {"CreateRule", "UpdateRule"}
                                          /\ db'.rules[i] = RuleRowOf(r) /\ db'.conds[i] = r.conds
                                          /\ LinksOf(db', i) \subseteq KeysIn(r.segs)
    BY DEF RulesAreWhole
  <2>1. DatabaseStep
    BY NextPreserves
  <2>2. CASE Shrinks(db, db')
    <3>1. db'.rules[i] = db.rules[i] /\ db'.conds[i] = db.conds[i]
          /\ LinksOf(db', i) \subseteq LinksOf(db, i)
      BY <2>2 DEF Shrinks, LinksOf
    <3> QED BY <3>1 DEF RulesAreWhole
  <2>3. ASSUME NEW q \in Workload, CommitsRule(q)
        PROVE  \E r \in Workload : /\ r.op \in {"CreateRule", "UpdateRule"}
                                   /\ db'.rules[i] = RuleRowOf(r) /\ db'.conds[i] = r.conds
                                   /\ LinksOf(db', i) \subseteq KeysIn(r.segs)
    <3>1. CASE i = RuleId(db, q)
      BY <2>3, <3>1 DEF CommitsRule, Transacts, PutsRule, RuleOps
    <3>2. CASE i # RuleId(db, q)
      <4>1. db'.rules[i] = db.rules[i] /\ db'.conds[i] = db.conds[i]
            /\ LinksOf(db', i) \subseteq LinksOf(db, i)
        BY <2>3, <3>2 DEF CommitsRule, Transacts, PutsRule, LinksOf
      <4> QED BY <4>1 DEF RulesAreWhole
    <3> QED BY <3>1, <3>2
  <2> QED BY <2>1, <2>2, <2>3 DEF DatabaseStep
<1> QED BY <1>1, <1>2, StoreInvariant, PTL DEF Spec
=============================================================================
