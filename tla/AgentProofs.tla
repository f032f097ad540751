----------------------------- MODULE AgentProofs -----------------------------
(***************************************************************************)
(* The maintenance of agents: the inductive invariant of AgentMaintenance, *)
(* and what follows from it, for any sets of agents, modes, resources and  *)
(* handlers. An agent's choice of its server: what it configures and       *)
(* persists is a server URL that was announced, for any set of URLs and    *)
(* announcements and any number of loops that overwrite each other's       *)
(* result (at the end, about the instance E of AgentEndpoints).            *)
(***************************************************************************)
EXTENDS MCAgent, TLAPS

-----------------------------------------------------------------------------
(* Maintenance. *)

\* A conditional update of enabled keeps the rows' type and which rows exist.
LEMMA SwitchedRows ==
    ASSUME TypeOK, NEW set \in SUBSET Resources, NEW on \in BOOLEAN,
           \A r \in set : Exists(r), NEW new, new = Switched(set, on)
    PROVE  /\ new \in [Resources -> Row \cup {Unset}]
           /\ \A r \in Resources : new[r] # Unset <=> Exists(r)
           /\ \A r \in Resources : r \notin set => new[r] = table[r]
           /\ \A r \in set : /\ new[r].on = on
                             /\ new[r].agent = table[r].agent
                             /\ new[r].mode = table[r].mode
  <1>0. new = [r \in Resources |->
                  IF r \in set THEN [table[r] EXCEPT !.on = on] ELSE table[r]]
    BY DEF Switched
  <1>1. \A r \in set : table[r] \in Row
    BY DEF TypeOK, Exists
  <1>2. ASSUME NEW r \in set
        PROVE  /\ new[r] = [table[r] EXCEPT !.on = on]
               /\ new[r] \in Row
               /\ new[r].on = on
               /\ new[r].agent = table[r].agent
               /\ new[r].mode = table[r].mode
    <2>1. new[r] = [table[r] EXCEPT !.on = on] /\ table[r] \in Row
      BY <1>0, <1>1, <1>2
    <2> QED BY <2>1 DEF Row
  <1>3. \A r \in Resources \ set : new[r] = table[r]
    BY <1>0
  <1>4. \A r \in Resources : new[r] \in Row \cup {Unset}
    BY <1>2, <1>3 DEF TypeOK
  <1>5. \A r \in set : new[r] # Unset
    BY <1>2, UnsetAssumption
  <1> QED
    BY <1>0, <1>2, <1>3, <1>4, <1>5 DEF Exists

\* The history variables keep their types, whatever is switched.
LEMMA HistoryTypes ==
    ASSUME TypeOK, NEW new, NEW set \in SUBSET Resources,
           NEW who \in {"asked", "kept", "suspend", "resume"}
    PROVE  /\ ChangedBy(new, who) =>
                  by' \in [Resources -> {"asked", "kept", "suspend", "resume"}]
           /\ Touch(set, new) => own' \in [Resources -> {"on", "off", "touched"}]
  <1>1. SUFFICES ASSUME Touch(set, new)
                 PROVE  own' \in [Resources -> {"on", "off", "touched"}]
    BY DEF ChangedBy, TypeOK
  <1>2. ASSUME NEW r \in Resources
        PROVE  own'[r] \in {"on", "off", "touched"}
    <2>1. CASE r \notin set \/ new[r] = Unset
      BY <1>1, <2>1 DEF Touch, TypeOK
    <2>2. CASE r \in set /\ new[r] # Unset /\ Recorded(r)
      BY <1>1, <2>2 DEF Touch
    <2>3. CASE r \in set /\ new[r] # Unset /\ ~Recorded(r)
      BY <1>1, <2>3 DEF Touch
    <2> QED BY <2>1, <2>2, <2>3
  <1> QED BY <1>1, <1>2 DEF Touch

\* What Touch makes of one resource.
LEMMA Touched ==
    ASSUME NEW set \in SUBSET Resources, NEW new, Touch(set, new), NEW r \in Resources
    PROVE  /\ r \notin set => own'[r] = own[r]
           /\ r \in set /\ new[r] # Unset /\ Recorded(r) => own'[r] = "touched"
           /\ r \in set /\ new[r] # Unset /\ ~Recorded(r) =>
                  own'[r] = IF new[r].on THEN "on" ELSE "off"
  <1>1. CASE r \notin set
    BY <1>1 DEF Touch
  <1>2. CASE r \in set /\ new[r] = Unset
    BY <1>2
  <1>3. CASE r \in set /\ new[r] # Unset /\ Recorded(r)
    BY <1>3 DEF Touch
  <1>4. CASE r \in set /\ new[r] # Unset /\ ~Recorded(r)
    BY <1>4 DEF Touch
  <1> QED BY <1>1, <1>2, <1>3, <1>4

\* A request that writes the rows of set, without a change of the records.
LEMMA RowsWritten ==
    ASSUME Inv, NEW set \in SUBSET Resources, NEW new \in [Resources -> Row \cup {Unset}],
           table' = new, Touch(set, new),
           \A r \in Resources : new[r] # Unset <=> Exists(r),
           \A r \in Resources \ set : new[r] = table[r],
           UNCHANGED <<agents, born, flags, records>>
    PROVE  BornRows' /\ RecordsFlagged' /\ UntouchedRecord' /\ Transparent'
  <1>1. \A r \in Resources : Exists(r)' <=> Exists(r)
    BY DEF Exists
  <1>2. \A r \in Resources : Recorded(r)' <=> Recorded(r)
    BY DEF Recorded
  <1>3. BornRows'
    BY <1>1 DEF Inv, BornRows
  <1>4. RecordsFlagged'
    BY <1>1 DEF Inv, RecordsFlagged, TypeOK, Record
  <1>5. ASSUME NEW r \in Resources, Untouched(r)', Recorded(r)
        PROVE  Untouched(r) /\ table'[r] = table[r] /\ own'[r] = own[r]
    <2>1. r \notin set
      BY <1>5, <1>1, Touched DEF Untouched, Exists
    <2> QED BY <1>5, <1>1, <2>1, Touched DEF Untouched
  <1>6. UntouchedRecord'
    <2> SUFFICES ASSUME NEW rec \in records, NEW other \in records,
                        Untouched(rec.resource)'
                 PROVE  /\ rec.agent = table'[rec.resource].agent
                        /\ other.resource = rec.resource => other = rec
      BY DEF UntouchedRecord
    <2>1. rec.resource \in Resources /\ Recorded(rec.resource)
      BY DEF Inv, TypeOK, Record, Recorded
    <2> QED BY <2>1, <1>5 DEF Inv, UntouchedRecord
  <1>7. Transparent'
    <2> SUFFICES ASSUME NEW r \in Resources, Untouched(r)'
                 PROVE  /\ table'[r].on <=> (own'[r] = "on" /\ ~Recorded(r)')
                        /\ Recorded(r)' => own'[r] = "on"
      BY DEF Transparent
    <2>1. CASE Recorded(r)
      BY <2>1, <1>2, <1>5 DEF Inv, Transparent
    <2>2. CASE ~Recorded(r) /\ r \notin set
      BY <2>2, <1>1, <1>2, Touched DEF Inv, Transparent, Untouched
    <2>3. CASE ~Recorded(r) /\ r \in set
      <3>1. new[r] \in Row
        BY DEF Untouched, Exists
      <3>2. own'[r] = IF new[r].on THEN "on" ELSE "off"
        BY <2>3, Touched DEF Untouched, Exists
      <3> QED BY <2>3, <1>2, <3>1, <3>2 DEF Row
    <2> QED BY <2>1, <2>2, <2>3
  <1> QED BY <1>3, <1>4, <1>6, <1>7

LEMMA InitInv == Init => Inv
  <1> SUFFICES ASSUME Init PROVE Inv
    OBVIOUS
  <1>1. TypeOK
    BY MaxOpsAssumption DEF Init, TypeOK, Idle
  <1> QED
    BY <1>1 DEF Init, Inv, BornRows, RecordsFlagged, UntouchedRecord, Transparent,
                Untouched, Exists, Recorded

LEMMA BeginOps == TypeOK /\ Begin => ops' \in 0..MaxOps
  BY MaxOpsAssumption DEF TypeOK, Begin

LEMMA SuspendKeeps ==
    ASSUME Inv, NEW a \in Agents, NEW modes \in SUBSET Modes, SuspendAgentResources(a, modes)
    PROVE  Inv'
  <1> DEFINE hit == Concerned(a, modes)
             fresh == {RecordOf(a, r) : r \in {x \in hit : ~Known(a, x)}}
             new == Switched(hit, FALSE)
  <1>1. /\ a \in agents /\ flags' = [flags EXCEPT ![a] = @ \cup modes]
        /\ records' = records \cup fresh
        /\ table' = new /\ ChangedBy(new, "suspend") /\ Begin
        /\ UNCHANGED <<agents, born, request, own>>
    BY DEF SuspendAgentResources
  <1>2. hit \in SUBSET Resources /\ \A r \in hit : Exists(r) /\ table[r].agent = a
                                        /\ table[r].mode \in modes /\ table[r].on
    BY DEF Concerned
  <1>3. TypeOK
    BY DEF Inv
  <1>4. /\ new \in [Resources -> Row \cup {Unset}]
        /\ \A r \in Resources : new[r] # Unset <=> Exists(r)
        /\ \A r \in Resources : r \notin hit => new[r] = table[r]
        /\ \A r \in hit : new[r].on = FALSE /\ new[r].agent = table[r].agent
                          /\ new[r].mode = table[r].mode
    <2>1. PICK on \in BOOLEAN : on = FALSE
      OBVIOUS
    <2>2. new = Switched(hit, on)
      BY <2>1
    <2> HIDE DEF hit, new
    <2>3. /\ new \in [Resources -> Row \cup {Unset}]
          /\ \A r \in Resources : new[r] # Unset <=> Exists(r)
          /\ \A r \in Resources : r \notin hit => new[r] = table[r]
          /\ \A r \in hit : new[r].on = on /\ new[r].agent = table[r].agent
                            /\ new[r].mode = table[r].mode
      BY <1>2, <1>3, <2>2, SwitchedRows
    <2> QED BY <2>1, <2>3
  <1>5. \A rec \in fresh : /\ rec \in Record /\ rec.agent = a /\ rec.resource \in hit
                           /\ rec.mode = table[rec.resource].mode /\ ~Known(a, rec.resource)
    <2> SUFFICES ASSUME NEW r \in hit, ~Known(a, r)
                 PROVE  /\ RecordOf(a, r) \in Record /\ RecordOf(a, r).agent = a
                        /\ RecordOf(a, r).resource = r /\ RecordOf(a, r).mode = table[r].mode
      BY Zenon
    <2>1. table[r] \in Row
      BY <1>2, <1>3 DEF TypeOK, Exists
    <2> QED BY <2>1, <1>2 DEF RecordOf, Record, Row
  <1>6. \A x, y \in fresh : x.resource = y.resource => x = y
    <2> SUFFICES ASSUME NEW r \in hit, NEW s \in hit,
                        RecordOf(a, r).resource = RecordOf(a, s).resource
                 PROVE  RecordOf(a, r) = RecordOf(a, s)
      BY Zenon
    <2> QED BY DEF RecordOf
  <1>7. \A r \in Resources : Exists(r)' <=> Exists(r)
    BY <1>1, <1>4 DEF Exists
  <1> HIDE DEF hit, fresh, new
  <1>8. ASSUME NEW r \in Resources, Untouched(r), r \in hit
        PROVE  ~Recorded(r) /\ own[r] = "on"
    BY <1>2, <1>8 DEF Inv, Transparent
  <1>9. ASSUME NEW rec \in records', rec.resource \in hit, Untouched(rec.resource)
        PROVE  rec \in fresh
    <2>1. ~Recorded(rec.resource)
      BY <1>2, <1>8, <1>9
    <2> QED BY <2>1, <1>1, <1>9 DEF Recorded
  <1>10. \A r \in Resources : Untouched(r)' <=> Untouched(r)
    BY <1>1, <1>7 DEF Untouched
  <1>11. TypeOK'
    <2>1. table' \in [Resources -> Row \cup {Unset}]
      BY <1>1, <1>4
    <2>2. records' \subseteq Record
      BY <1>1, <1>3, <1>5 DEF TypeOK
    <2>3. flags' \in [Agents -> SUBSET Modes]
      BY <1>1, <1>3 DEF TypeOK
    <2>4. by' \in [Resources -> {"asked", "kept", "suspend", "resume"}]
      BY <1>1, <1>3, HistoryTypes
    <2>5. ops' \in 0..MaxOps
      BY <1>1, <1>3, BeginOps
    <2> QED BY <1>1, <1>3, <2>1, <2>2, <2>3, <2>4, <2>5 DEF TypeOK
  <1>12. BornRows'
    BY <1>1, <1>7 DEF Inv, BornRows
  <1>13. RecordsFlagged'
    <2> SUFFICES ASSUME NEW rec \in records'
                 PROVE  /\ rec.agent \in agents'
                        /\ Exists(rec.resource)'
                        /\ rec.mode \in flags'[rec.agent]
      BY DEF RecordsFlagged
    <2>1. CASE rec \in records
      <3>1. rec.agent \in Agents /\ rec.resource \in Resources
        BY <2>1, <1>3 DEF TypeOK, Record
      <3> QED BY <2>1, <3>1, <1>1, <1>7, <1>3 DEF Inv, RecordsFlagged, TypeOK
    <2>2. CASE rec \in fresh
      <3>1. rec.mode \in modes /\ rec.resource \in Resources /\ Exists(rec.resource)
        BY <2>2, <1>2, <1>5
      <3> QED BY <2>2, <3>1, <1>1, <1>3, <1>5, <1>7 DEF TypeOK
    <2> QED BY <1>1, <2>1, <2>2
  <1>14. UntouchedRecord'
    <2> SUFFICES ASSUME NEW rec \in records', NEW other \in records',
                        Untouched(rec.resource)'
                 PROVE  /\ rec.agent = table'[rec.resource].agent
                        /\ other.resource = rec.resource => other = rec
      BY DEF UntouchedRecord
    <2>0. rec.resource \in Resources /\ Untouched(rec.resource)
      BY <1>10, <1>11 DEF TypeOK, Record
    <2>1. CASE rec.resource \in hit
      BY <2>0, <2>1, <1>1, <1>2, <1>4, <1>5, <1>6, <1>9
    <2>2. CASE rec.resource \notin hit
      BY <2>0, <2>2, <1>1, <1>4, <1>5 DEF Inv, UntouchedRecord
    <2> QED BY <2>1, <2>2
  <1>15. Transparent'
    <2> SUFFICES ASSUME NEW r \in Resources, Untouched(r)'
                 PROVE  /\ table'[r].on <=> (own'[r] = "on" /\ ~Recorded(r)')
                        /\ Recorded(r)' => own'[r] = "on"
      BY DEF Transparent
    <2>0. Untouched(r)
      BY <1>10
    <2>1. CASE r \in hit
      <3>1. own[r] = "on" /\ ~Recorded(r)
        BY <2>0, <2>1, <1>8
      <3>2. ~Known(a, r)
        BY <3>1 DEF Recorded, Known
      <3>3. RecordOf(a, r) \in records' /\ RecordOf(a, r).resource = r
        BY <2>1, <3>2, <1>1 DEF fresh, RecordOf
      <3>4. Recorded(r)'
        BY <3>3 DEF Recorded
      <3> QED BY <2>1, <3>1, <3>4, <1>1, <1>4
    <2>2. CASE r \notin hit
      <3>1. Recorded(r)' <=> Recorded(r)
        BY <2>2, <1>1, <1>5 DEF Recorded
      <3> QED BY <2>0, <2>2, <3>1, <1>1, <1>4 DEF Inv, Transparent
    <2> QED BY <2>1, <2>2
  <1> QED BY <1>11, <1>12, <1>13, <1>14, <1>15 DEF Inv

LEMMA ResumeKeeps ==
    ASSUME Inv, NEW a \in Agents, NEW modes \in SUBSET Modes, ResumeAgentResources(a, modes)
    PROVE  Inv'
  <1> DEFINE due == Due(a, modes)
             hit == {r \in Resources : Exists(r) /\ \E rec \in due : rec.resource = r}
             new == Switched(hit, TRUE)
  <1>1. /\ a \in agents /\ flags' = [flags EXCEPT ![a] = FlagsLeft(a, records \ due)]
        /\ records' = records \ due
        /\ table' = new /\ ChangedBy(new, "resume") /\ Begin
        /\ UNCHANGED <<agents, born, request, own>>
    BY DEF ResumeAgentResources
  <1>2. new = Switched(hit, TRUE)
    OBVIOUS
  <1>3. TypeOK
    BY DEF Inv
  <1>4. /\ new \in [Resources -> Row \cup {Unset}]
        /\ \A r \in Resources : new[r] # Unset <=> Exists(r)
        /\ \A r \in Resources : r \notin hit => new[r] = table[r]
        /\ \A r \in hit : new[r].on = TRUE /\ new[r].agent = table[r].agent
                          /\ new[r].mode = table[r].mode
    <2>1. PICK on \in BOOLEAN : on = TRUE
      OBVIOUS
    <2>2. new = Switched(hit, on)
      BY <1>2, <2>1
    <2>3. hit \in SUBSET Resources /\ (\A r \in hit : Exists(r))
      OBVIOUS
    <2> HIDE DEF hit, new
    <2>4. /\ new \in [Resources -> Row \cup {Unset}]
          /\ \A r \in Resources : new[r] # Unset <=> Exists(r)
          /\ \A r \in Resources : r \notin hit => new[r] = table[r]
          /\ \A r \in hit : new[r].on = on /\ new[r].agent = table[r].agent
                            /\ new[r].mode = table[r].mode
      BY <1>3, <2>2, <2>3, SwitchedRows
    <2> QED BY <2>1, <2>4
  <1>5. \A rec \in due : rec \in records /\ rec.agent = a
    BY DEF Due
  <1>6. \A r \in hit : \E rec \in due : rec.resource = r
    OBVIOUS
  <1>7. \A rec \in due : rec.resource \in hit
    BY <1>5, <1>3 DEF Inv, RecordsFlagged, TypeOK, Record
  <1> HIDE DEF due, hit, new
  <1>8. \A r \in Resources : Exists(r)' <=> Exists(r)
    BY <1>1, <1>4 DEF Exists
  <1>9. \A r \in Resources : Untouched(r)' <=> Untouched(r)
    BY <1>1, <1>8 DEF Untouched
  <1>10. TypeOK'
    <2>1. flags' \in [Agents -> SUBSET Modes]
      <3>1. FlagsLeft(a, records \ due) \subseteq Modes
        BY <1>3 DEF FlagsLeft, TypeOK, Record
      <3> QED BY <1>1, <1>3, <3>1 DEF TypeOK
    <2>2. by' \in [Resources -> {"asked", "kept", "suspend", "resume"}]
      BY <1>1, <1>3, HistoryTypes
    <2>3. ops' \in 0..MaxOps
      BY <1>1, <1>3, BeginOps
    <2> QED BY <1>1, <1>3, <1>4, <2>1, <2>2, <2>3 DEF TypeOK
  <1>11. BornRows'
    BY <1>1, <1>8 DEF Inv, BornRows
  <1>12. RecordsFlagged'
    <2> SUFFICES ASSUME NEW rec \in records'
                 PROVE  /\ rec.agent \in agents'
                        /\ Exists(rec.resource)'
                        /\ rec.mode \in flags'[rec.agent]
      BY DEF RecordsFlagged
    <2>1. /\ rec \in records \ due
          /\ rec.agent \in Agents /\ rec.resource \in Resources
      BY <1>1, <1>3 DEF TypeOK, Record
    <2>2. rec.mode \in flags'[rec.agent]
      <3>1. CASE rec.agent = a
        BY <2>1, <3>1, <1>1, <1>3 DEF FlagsLeft, TypeOK
      <3>2. CASE rec.agent # a
        BY <2>1, <3>2, <1>1, <1>3 DEF Inv, RecordsFlagged, TypeOK
      <3> QED BY <3>1, <3>2
    <2> QED BY <2>1, <2>2, <1>1, <1>8 DEF Inv, RecordsFlagged
  <1>13. UntouchedRecord'
    <2> SUFFICES ASSUME NEW rec \in records', NEW other \in records',
                        Untouched(rec.resource)'
                 PROVE  /\ rec.agent = table'[rec.resource].agent
                        /\ other.resource = rec.resource => other = rec
      BY DEF UntouchedRecord
    <2>1. rec \in records /\ other \in records /\ rec.resource \in Resources
      BY <1>1, <1>3 DEF TypeOK, Record
    <2>2. table'[rec.resource].agent = table[rec.resource].agent
      BY <2>1, <1>1, <1>4
    <2> QED BY <2>1, <2>2, <1>9 DEF Inv, UntouchedRecord
  <1>14. Transparent'
    <2> SUFFICES ASSUME NEW r \in Resources, Untouched(r)'
                 PROVE  /\ table'[r].on <=> (own'[r] = "on" /\ ~Recorded(r)')
                        /\ Recorded(r)' => own'[r] = "on"
      BY DEF Transparent
    <2>0. Untouched(r) /\ own'[r] = own[r]
      BY <1>1, <1>9
    <2>1. CASE r \in hit
      <3>1. PICK rec \in due : rec.resource = r
        BY <2>1, <1>6
      <3>2. rec \in records /\ Recorded(r)
        BY <3>1, <1>5 DEF Recorded
      <3>3. \A other \in records : other.resource = r => other = rec
        BY <2>0, <3>1, <3>2 DEF Inv, UntouchedRecord
      <3>4. ~Recorded(r)'
        BY <3>1, <3>3, <1>1 DEF Recorded
      <3> QED BY <2>0, <2>1, <3>2, <3>4, <1>1, <1>4 DEF Inv, Transparent
    <2>2. CASE r \notin hit
      <3>1. Recorded(r)' <=> Recorded(r)
        BY <2>2, <1>1, <1>7 DEF Recorded
      <3> QED BY <2>0, <2>2, <3>1, <1>1, <1>4 DEF Inv, Transparent
    <2> QED BY <2>1, <2>2
  <1> QED BY <1>10, <1>11, <1>12, <1>13, <1>14 DEF Inv

LEMMA DeleteAgentKeeps ==
    ASSUME Inv, NEW a \in Agents, DeleteAgentAndResources(a)
    PROVE  Inv'
  <1> DEFINE of == {r \in Resources : Exists(r) /\ table[r].agent = a}
  <1>1. /\ agents' = agents \ {a}
        /\ table' = [r \in Resources |-> IF r \in of THEN Unset ELSE table[r]]
        /\ flags' = [flags EXCEPT ![a] = {}]
        /\ records' = {rec \in records : rec.agent # a /\ rec.resource \notin of}
        /\ Begin /\ UNCHANGED <<born, request, historyVars>>
    BY DEF DeleteAgentAndResources
  <1>2. TypeOK
    BY DEF Inv
  <1>3. TypeOK'
    <2>1. ops' \in 0..MaxOps
      BY <1>1, <1>2, BeginOps
    <2> QED BY <1>1, <1>2, <2>1 DEF TypeOK, historyVars
  <1>4. \A r \in Resources : Exists(r)' => (r \notin of) /\ Exists(r) /\ table'[r] = table[r]
    BY <1>1 DEF Exists
  <1>5. BornRows'
    BY <1>1, <1>4 DEF Inv, BornRows
  <1>6. RecordsFlagged'
    <2> SUFFICES ASSUME NEW rec \in records'
                 PROVE  /\ rec.agent \in agents'
                        /\ Exists(rec.resource)'
                        /\ rec.mode \in flags'[rec.agent]
      BY DEF RecordsFlagged
    <2>1. /\ rec \in records /\ rec.agent # a /\ rec.resource \notin of
          /\ rec.agent \in Agents /\ rec.resource \in Resources
      BY <1>1, <1>2 DEF TypeOK, Record
    <2>2. Exists(rec.resource)'
      BY <2>1, <1>1 DEF Inv, RecordsFlagged, Exists
    <2> QED BY <2>1, <2>2, <1>1, <1>2 DEF Inv, RecordsFlagged, TypeOK
  <1>7. UntouchedRecord'
    <2> SUFFICES ASSUME NEW rec \in records', NEW other \in records',
                        Untouched(rec.resource)'
                 PROVE  /\ rec.agent = table'[rec.resource].agent
                        /\ other.resource = rec.resource => other = rec
      BY DEF UntouchedRecord
    <2>1. rec \in records /\ other \in records /\ rec.resource \in Resources
      BY <1>1, <1>2 DEF TypeOK, Record
    <2> QED BY <2>1, <1>1, <1>4 DEF Inv, UntouchedRecord, Untouched, historyVars
  <1>8. Transparent'
    <2> SUFFICES ASSUME NEW r \in Resources, Untouched(r)'
                 PROVE  /\ table'[r].on <=> (own'[r] = "on" /\ ~Recorded(r)')
                        /\ Recorded(r)' => own'[r] = "on"
      BY DEF Transparent
    <2>1. Untouched(r) /\ r \notin of /\ table'[r] = table[r] /\ own'[r] = own[r]
      BY <1>1, <1>4 DEF Untouched, historyVars
    <2>2. \A rec \in records : rec.resource = r => rec.agent # a
      BY <2>1 DEF Inv, UntouchedRecord, Untouched
    <2>3. Recorded(r)' <=> Recorded(r)
      BY <2>1, <2>2, <1>1 DEF Recorded
    <2> QED BY <2>1, <2>3 DEF Inv, Transparent
  <1> QED BY <1>3, <1>5, <1>6, <1>7, <1>8 DEF Inv

LEMMA CreateKeeps ==
    ASSUME Inv, NEW r \in Resources, NEW a \in Owners, NEW m \in Modes, CreateResource(r, a, m)
    PROVE  Inv'
  <1> DEFINE new == [table EXCEPT ![r] = [agent |-> a, mode |-> m, on |-> TRUE]]
  <1>1. /\ r \notin born /\ table' = new /\ born' = born \cup {r} /\ Touch({r}, new)
        /\ Begin /\ UNCHANGED <<agents, flags, records, request, by>>
    BY DEF CreateResource
  <1>2. TypeOK
    BY DEF Inv
  <1>3. /\ new \in [Resources -> Row \cup {Unset}] /\ new[r].on
        /\ new[r] # Unset /\ \A x \in Resources \ {r} : new[x] = table[x]
    <2>1. [agent |-> a, mode |-> m, on |-> TRUE] \in Row
      BY DEF Row
    <2>2. [agent |-> a, mode |-> m, on |-> TRUE] # Unset
      BY <2>1, UnsetAssumption
    <2> QED BY <1>2, <2>1, <2>2 DEF TypeOK
  <1>4. ~Exists(r)
    BY <1>1 DEF Inv, BornRows
  <1>5. ~Recorded(r)
    BY <1>4 DEF Inv, RecordsFlagged, Recorded
  <1> HIDE DEF new
  <1>6. own'[r] = "on" /\ \A x \in Resources \ {r} : own'[x] = own[x]
    <2>1. {r} \in SUBSET Resources
      OBVIOUS
    <2> QED BY <1>1, <1>3, <1>5, <2>1, Touched
  <1>7. TypeOK'
    <2>1. own' \in [Resources -> {"on", "off", "touched"}]
      <3>1. {r} \in SUBSET Resources
        OBVIOUS
      <3> QED BY <1>1, <1>2, <3>1, HistoryTypes
    <2>2. ops' \in 0..MaxOps
      BY <1>1, <1>2, BeginOps
    <2> QED BY <1>1, <1>2, <1>3, <2>1, <2>2 DEF TypeOK
  <1>8. BornRows'
    BY <1>1, <1>3 DEF Inv, BornRows, Exists
  <1>9. \A rec \in records : rec.resource \in Resources \ {r}
    BY <1>2, <1>5 DEF TypeOK, Record, Recorded
  <1>10. RecordsFlagged'
    BY <1>1, <1>3, <1>9 DEF Inv, RecordsFlagged, Exists
  <1>11. UntouchedRecord'
    BY <1>1, <1>3, <1>6, <1>9 DEF Inv, UntouchedRecord, Untouched, Exists
  <1>12. Transparent'
    <2> SUFFICES ASSUME NEW x \in Resources, Untouched(x)'
                 PROVE  /\ table'[x].on <=> (own'[x] = "on" /\ ~Recorded(x)')
                        /\ Recorded(x)' => own'[x] = "on"
      BY DEF Transparent
    <2>1. Recorded(x)' <=> Recorded(x)
      BY <1>1 DEF Recorded
    <2>2. CASE x = r
      BY <2>1, <2>2, <1>1, <1>3, <1>5, <1>6
    <2>3. CASE x # r
      BY <2>1, <2>3, <1>1, <1>3, <1>6 DEF Inv, Transparent, Untouched, Exists
    <2> QED BY <2>2, <2>3
  <1> QED BY <1>7, <1>8, <1>10, <1>11, <1>12 DEF Inv

LEMMA DeleteKeeps ==
    ASSUME Inv, NEW r \in Resources, DeleteResource(r)
    PROVE  Inv'
  <1>1. /\ table' = [table EXCEPT ![r] = Unset]
        /\ records' = {rec \in records : rec.resource # r}
        /\ Begin /\ UNCHANGED <<agents, born, flags, request, historyVars>>
    BY DEF DeleteResource
  <1>2. TypeOK
    BY DEF Inv
  <1>3. TypeOK'
    <2>1. ops' \in 0..MaxOps
      BY <1>1, <1>2, BeginOps
    <2> QED BY <1>1, <1>2, <2>1 DEF TypeOK, historyVars
  <1>4. \A x \in Resources : /\ Exists(x)' => x # r
                             /\ x # r => table'[x] = table[x] /\ (Exists(x)' <=> Exists(x))
    BY <1>1, <1>2 DEF Exists, TypeOK
  <1>5. BornRows'
    BY <1>1, <1>4 DEF Inv, BornRows
  <1>6. \A rec \in records' : rec \in records /\ rec.resource # r /\ rec.resource \in Resources
    BY <1>1, <1>2 DEF TypeOK, Record
  <1>7. RecordsFlagged'
    BY <1>1, <1>4, <1>6 DEF Inv, RecordsFlagged
  <1>8. UntouchedRecord'
    BY <1>1, <1>4, <1>6 DEF Inv, UntouchedRecord, Untouched, historyVars
  <1>9. Transparent'
    <2> SUFFICES ASSUME NEW x \in Resources, Untouched(x)'
                 PROVE  /\ table'[x].on <=> (own'[x] = "on" /\ ~Recorded(x)')
                        /\ Recorded(x)' => own'[x] = "on"
      BY DEF Transparent
    <2>1. Untouched(x) /\ x # r /\ table'[x] = table[x] /\ own'[x] = own[x]
      BY <1>1, <1>4 DEF Untouched, historyVars
    <2>2. Recorded(x)' <=> Recorded(x)
      BY <2>1, <1>1 DEF Recorded
    <2> QED BY <2>1, <2>2 DEF Inv, Transparent
  <1> QED BY <1>3, <1>5, <1>7, <1>8, <1>9 DEF Inv

LEMMA BulkKeeps ==
    ASSUME Inv, NEW set \in SUBSET Resources, NEW on \in BOOLEAN,
           BulkSetResourcesEnabled(set, on)
    PROVE  Inv'
  <1> DEFINE new == Switched(set, on)
  <1>1. /\ \A r \in set : Exists(r)
        /\ table' = new /\ ChangedBy(new, "asked") /\ Touch(set, new)
        /\ Begin /\ UNCHANGED <<agents, born, flags, records, request>>
    BY DEF BulkSetResourcesEnabled
  <1>2. TypeOK
    BY DEF Inv
  <1>3. /\ new \in [Resources -> Row \cup {Unset}]
        /\ \A r \in Resources : new[r] # Unset <=> Exists(r)
        /\ \A r \in Resources \ set : new[r] = table[r]
    BY <1>1, <1>2, SwitchedRows
  <1> HIDE DEF new
  <1>4. TypeOK'
    <2>1. /\ by' \in [Resources -> {"asked", "kept", "suspend", "resume"}]
          /\ own' \in [Resources -> {"on", "off", "touched"}]
      BY <1>1, <1>2, HistoryTypes
    <2>2. ops' \in 0..MaxOps
      BY <1>1, <1>2, BeginOps
    <2> QED BY <1>1, <1>2, <1>3, <2>1, <2>2 DEF TypeOK
  <1>5. BornRows' /\ RecordsFlagged' /\ UntouchedRecord' /\ Transparent'
    BY <1>1, <1>3, RowsWritten
  <1> QED BY <1>4, <1>5 DEF Inv

LEMMA WriteKeeps ==
    ASSUME Inv, NEW h \in Handlers, WriteResource(h)
    PROVE  Inv'
  <1> DEFINE q == request[h]
             new == Written(q)
             who == IF q.asked THEN "asked" ELSE "kept"
  <1>1. /\ q.pc = "writing" /\ table' = new /\ request' = [request EXCEPT ![h] = Idle]
        /\ ChangedBy(new, who) /\ Touch({q.resource}, new)
        /\ UNCHANGED <<agents, born, flags, records, ops>>
    BY DEF WriteResource
  <1>2. TypeOK
    BY DEF Inv
  <1>3. q \in Request
    BY <1>1, <1>2 DEF TypeOK, Idle
  <1>4. /\ q.resource \in Resources /\ q.row \in Row /\ q.row.on \in BOOLEAN
        /\ q.asked \in BOOLEAN /\ q.full \in BOOLEAN
    BY <1>3 DEF Request, Row
  <1>5. /\ new \in [Resources -> Row \cup {Unset}]
        /\ \A r \in Resources : new[r] # Unset <=> Exists(r)
        /\ \A r \in Resources \ {q.resource} : new[r] = table[r]
    <2>1. CASE ~Exists(q.resource)
      BY <2>1, <1>2 DEF Written, TypeOK, Exists
    <2>2. CASE Exists(q.resource) /\ q.full
      BY <2>2, <1>2, <1>4, UnsetAssumption DEF Written, TypeOK, Exists
    <2>3. CASE Exists(q.resource) /\ ~q.full
      <3>1. table[q.resource] \in Row
        BY <2>3, <1>2, <1>4 DEF TypeOK, Exists
      <3>2. [table[q.resource] EXCEPT !.on = q.row.on] \in Row
        BY <3>1, <1>4 DEF Row
      <3>3. new = [table EXCEPT ![q.resource] = [table[q.resource] EXCEPT !.on = q.row.on]]
        BY <2>3, <1>2 DEF Written, TypeOK
      <3> QED BY <2>3, <3>2, <3>3, <1>2, <1>4, UnsetAssumption DEF TypeOK, Exists
    <2> QED BY <2>1, <2>2, <2>3
  <1>6. who \in {"asked", "kept", "suspend", "resume"}
    OBVIOUS
  <1>7. {q.resource} \in SUBSET Resources
    BY <1>4
  <1> HIDE DEF new, who
  <1>8. TypeOK'
    <2>1. by' \in [Resources -> {"asked", "kept", "suspend", "resume"}]
      BY <1>1, <1>2, <1>6, <1>7, HistoryTypes
    <2>2. own' \in [Resources -> {"on", "off", "touched"}]
      BY <1>1, <1>2, <1>6, <1>7, HistoryTypes
    <2>3. request' \in [Handlers -> Request \cup {Idle}]
      BY <1>1, <1>2 DEF TypeOK
    <2> QED BY <1>1, <1>2, <1>5, <2>1, <2>2, <2>3 DEF TypeOK
  <1>9. BornRows' /\ RecordsFlagged' /\ UntouchedRecord' /\ Transparent'
    BY <1>1, <1>5, <1>7, RowsWritten
  <1> QED BY <1>8, <1>9 DEF Inv

\* A step that leaves the rows, the flags and the records alone.
LEMMA NothingWritten ==
    ASSUME Inv, UNCHANGED <<rowVars, flags, records, historyVars>>
    PROVE  BornRows' /\ RecordsFlagged' /\ UntouchedRecord' /\ Transparent'
  BY DEF Inv, BornRows, RecordsFlagged, UntouchedRecord, Transparent, Untouched, Exists,
         Recorded, rowVars, historyVars

LEMMA ReadKeeps ==
    ASSUME Inv, NEW h \in Handlers, NEW r \in Resources,
           ReadForControl(h, r) \/ ReadForEdit(h, r)
    PROVE  Inv'
  <1>1. TypeOK
    BY DEF Inv
  <1>2. UNCHANGED <<rowVars, flags, records, historyVars>> /\ Begin /\ Exists(r)
    BY DEF ReadForControl, ReadForEdit
  <1>3. table[r] \in Row
    BY <1>1, <1>2 DEF TypeOK, Exists
  <1>4. request' \in [Handlers -> Request \cup {Idle}]
    <2>1. CASE ReadForControl(h, r)
      <3>1. PICK asked \in BOOLEAN, on \in BOOLEAN :
                request' = [request EXCEPT ![h] =
                    [pc |-> "writing", resource |-> r, asked |-> asked, full |-> FALSE,
                     row |-> [table[r] EXCEPT !.on = on]]]
        BY <2>1 DEF ReadForControl
      <3>2. [table[r] EXCEPT !.on = on] \in Row
        BY <1>3 DEF Row
      <3>3. [pc |-> "writing", resource |-> r, asked |-> asked, full |-> FALSE,
             row |-> [table[r] EXCEPT !.on = on]] \in Request
        BY <3>2 DEF Request
      <3> QED BY <3>1, <3>3, <1>1 DEF TypeOK
    <2>2. CASE ReadForEdit(h, r)
      <3>1. PICK asked \in BOOLEAN, on \in BOOLEAN, a \in Owners, m \in Modes :
                request' = [request EXCEPT ![h] =
                    [pc |-> "writing", resource |-> r, asked |-> asked, full |-> TRUE,
                     row |-> [agent |-> a, mode |-> m, on |-> on]]]
        BY <2>2 DEF ReadForEdit
      <3>2. [pc |-> "writing", resource |-> r, asked |-> asked, full |-> TRUE,
             row |-> [agent |-> a, mode |-> m, on |-> on]] \in Request
        BY DEF Request, Row
      <3> QED BY <3>1, <3>2, <1>1 DEF TypeOK
    <2> QED BY <2>1, <2>2
  <1>5. TypeOK'
    <2>1. ops' \in 0..MaxOps
      BY <1>1, <1>2, BeginOps
    <2> QED BY <1>1, <1>2, <1>4, <2>1 DEF TypeOK, rowVars, historyVars
  <1> QED BY <1>2, <1>5, NothingWritten DEF Inv

LEMMA RefuseKeeps ==
    ASSUME Inv, NEW h \in Handlers, RefuseResource(h)
    PROVE  Inv'
  <1>1. UNCHANGED <<rowVars, flags, records, historyVars>>
    BY DEF RefuseResource
  <1>2. TypeOK'
    BY DEF Inv, TypeOK, RefuseResource, rowVars, historyVars
  <1> QED BY <1>1, <1>2, NothingWritten DEF Inv

LEMMA NextInv == Inv /\ [Next]_vars => Inv'
  <1> SUFFICES ASSUME Inv, [Next]_vars PROVE Inv'
    OBVIOUS
  <1>1. CASE \E a \in Agents : Maintain(a)
    BY <1>1, SuspendKeeps, ResumeKeeps, DeleteAgentKeeps DEF Maintain
  <1>2. CASE \E r \in Resources : Administer(r)
    BY <1>2, CreateKeeps, DeleteKeeps DEF Administer
  <1>3. CASE \E h \in Handlers : Handle(h)
    BY <1>3, ReadKeeps, WriteKeeps, RefuseKeeps DEF Handle
  <1>4. CASE Select
    BY <1>4, BulkKeeps DEF Select
  <1>5. CASE UNCHANGED vars
    <2>1. UNCHANGED <<rowVars, flags, records, historyVars>>
      BY <1>5 DEF vars
    <2>2. TypeOK'
      BY <1>5 DEF Inv, TypeOK, vars, rowVars, historyVars
    <2> QED BY <2>1, <2>2, NothingWritten DEF Inv
  <1> QED BY <1>1, <1>2, <1>3, <1>4, <1>5 DEF Next

\* The invariant of the maintenance tables and the resources, in every reachable state.
THEOREM Invariance == Spec => []Inv
  BY InitInv, NextInv, PTL DEF Spec

\* Every variable stays in its type.
THEOREM TypeCorrect == Spec => []TypeOK
  <1>1. Inv => TypeOK
    BY DEF Inv
  <1> QED BY <1>1, Invariance, PTL

\* No record is left that no resumption would take up: SuspendAgentResources,
\* ResumeAgentResources and the cascades keep the two maintenance tables together.
THEOREM RecordsAlwaysFlagged == Spec => []RecordsFlagged
  <1>1. Inv => RecordsFlagged
    BY DEF Inv
  <1> QED BY <1>1, Invariance, PTL

\* What no request touches while it is suspended comes back as it was.
THEOREM MaintenanceTransparent == Spec => []Transparent
  <1>1. Inv => Transparent
    BY DEF Inv
  <1> QED BY <1>1, Invariance, PTL

-----------------------------------------------------------------------------
(* The choice of the server. *)

Servers == {d.server : d \in Announcements}

\* What a loop carries from one step to the next: an announcement, a copy of the
\* manager's state, and what it derived from both, each with an announced server.
CarriesAnnounced(q) ==
    /\ q.pc \in {"found", "probing"} => q.found \in Announcements
    /\ q.pc = "probing" => q.seen.server \in Servers
    /\ q.pc = "storing" => q.next.server \in Servers
    /\ q.pc = "persisting" => q.config.server \in Servers

\* RescueNotPersisted alone is not inductive: Store writes to memory, and Persist to
\* the file, what a loop derived from a copy it made some steps before.
EndpointInv ==
    /\ E!TypeOK
    /\ E!RescueNotPersisted
    /\ \A l \in Loops : CarriesAnnounced(loop[l])

\* What the type says of a loop at each of its places.
LEMMA LoopTyped ==
    ASSUME E!TypeOK, NEW l \in Loops
    PROVE  /\ loop[l].pc = "discovering" => loop[l].at \in Urls
           /\ loop[l].pc = "found" =>
                  loop[l].rescue \in BOOLEAN /\ loop[l].found \in E!AgentDiscovery
           /\ loop[l].pc = "probing" =>
                  /\ loop[l].rescue \in BOOLEAN /\ loop[l].found \in E!AgentDiscovery
                  /\ loop[l].seen \in E!Memory
           /\ loop[l].pc = "storing" => loop[l].rescue \in BOOLEAN /\ loop[l].next \in E!Memory
           /\ loop[l].pc = "persisting" =>
                  loop[l].rescue \in BOOLEAN /\ loop[l].config \in E!Config
  BY DEF E!TypeOK, E!Idle

\* The URL that is active next is one of those the agent knows.
LEMMA NextBaseKnown ==
    ASSUME NEW seen, NEW found, NEW rescue
    PROVE  E!NextBase(seen, found, rescue) \in
               {found.server, found.fallback, seen.fallback, seen.base}
  BY DEF E!NextBase

\* What Probe derives is well formed and has the announced server.
LEMMA NextStateTyped ==
    ASSUME NEW seen \in E!Memory, NEW found \in E!AgentDiscovery, NEW rescue \in BOOLEAN
    PROVE  /\ E!NextState(seen, found, rescue) \in E!Memory
           /\ E!NextState(seen, found, rescue).server = found.server
  <1>1. E!NextBase(seen, found, rescue) \in Urls
    BY NextBaseKnown DEF E!Memory, E!AgentDiscovery
  <1> QED BY <1>1 DEF E!NextState, E!Memory, E!AgentDiscovery

\* A loop that moves to a well formed state with an announced server.
LEMMA LoopMoves ==
    ASSUME EndpointInv, NEW l \in Loops, NEW q, E!Goto(l, q), CarriesAnnounced(q)
    PROVE  \A k \in Loops : CarriesAnnounced(loop'[k])
  BY DEF EndpointInv, E!TypeOK, E!Goto

LEMMA EndpointInit == E!Init => EndpointInv
  <1> SUFFICES ASSUME E!Init PROVE EndpointInv
    OBVIOUS
  <1>1. First \in Announcements /\ First \in E!AgentDiscovery
    BY AnnouncementsAssumption
  <1>2. E!Started(First) \in E!Memory /\ E!Started(First).server = First.server
    BY <1>1 DEF E!Started, E!Memory, E!AgentDiscovery
  <1>3. E!TypeOK
    <2>1. file \in E!Config /\ memory \in E!Memory
      BY <1>1, <1>2 DEF E!Init, E!Config, E!AgentDiscovery
    <2>2. /\ moves \in 0..MaxMoves /\ flips \in 0..MaxFlips
          /\ fails \in 0..MaxFails /\ restarts \in 0..MaxRestarts
      BY BoundsAssumption DEF E!Init
    <2> QED BY <2>1, <2>2 DEF E!Init, E!TypeOK
  <1>4. E!RescueNotPersisted
    BY <1>1, <1>2 DEF E!Init, E!RescueNotPersisted
  <1>5. \A l \in Loops : CarriesAnnounced(loop[l])
    BY DEF E!Init, CarriesAnnounced, E!Idle
  <1> QED BY <1>3, <1>4, <1>5 DEF EndpointInv

LEMMA LoopKeeps ==
    ASSUME EndpointInv, NEW l \in Loops, E!LoopStep(l)
    PROVE  EndpointInv'
  <1> USE DEF E!worldVars, E!counterVars
  <1>1. E!TypeOK /\ memory.server \in Servers /\ file.server \in Servers
        /\ CarriesAnnounced(loop[l])
    BY DEF EndpointInv, E!RescueNotPersisted, Servers
  <1>2. announced \in E!AgentDiscovery
    BY AnnouncementsAssumption, <1>1 DEF E!TypeOK
  \* It suffices that the step leads to a typed state that carries an announced server.
  <1>3. ASSUME NEW q, E!Goto(l, q), CarriesAnnounced(q), E!TypeOK',
               memory' = memory \/ memory'.server \in Servers,
               file' = file \/ file'.server \in Servers
        PROVE  EndpointInv'
    <2>1. E!RescueNotPersisted'
      BY <1>1, <1>3 DEF E!RescueNotPersisted, Servers
    <2>2. \A k \in Loops : CarriesAnnounced(loop[k])'
      BY <1>3, LoopMoves DEF CarriesAnnounced
    <2> QED BY <1>3, <2>1, <2>2 DEF EndpointInv
  <1>4. CASE E!Poll(l)
    <2> DEFINE q == IF leads[memory.base] = "panel"
                    THEN [pc |-> "found", rescue |-> FALSE, found |-> announced]
                    ELSE [pc |-> "failed"]
    <2>1. E!Goto(l, q) /\ UNCHANGED <<E!worldVars, memory, file, throttled, E!counterVars>>
      BY <1>4 DEF E!Poll
    <2>2. CarriesAnnounced(q)
      BY <1>1 DEF CarriesAnnounced, E!TypeOK
    <2>3. E!TypeOK'
      BY <1>1, <1>2, <2>1 DEF E!TypeOK, E!Goto
    <2> QED BY <1>3, <2>1, <2>2, <2>3
  <1>5. CASE E!ReportFailure(l)
    <2> DEFINE q == [pc |-> "discovering", at |-> memory.fallback]
    <2>1. /\ \/ E!Goto(l, E!Idle) /\ UNCHANGED throttled
             \/ E!Goto(l, q) /\ throttled' = TRUE
          /\ UNCHANGED <<E!worldVars, memory, file, E!counterVars>>
      BY <1>5 DEF E!ReportFailure
    <2>2. CarriesAnnounced(q) /\ CarriesAnnounced(E!Idle)
      BY DEF CarriesAnnounced, E!Idle
    <2>3. q \in [pc : {"discovering"}, at : Urls] /\ throttled' \in BOOLEAN
      BY <1>1, <2>1 DEF E!TypeOK, E!Memory
    <2> HIDE DEF q
    <2>4. E!TypeOK'
      <3>1. CASE E!Goto(l, E!Idle)
        BY <1>1, <2>1, <2>3, <3>1 DEF E!TypeOK, E!Goto
      <3>2. CASE E!Goto(l, q)
        BY <1>1, <2>1, <2>3, <3>2 DEF E!TypeOK, E!Goto
      <3> QED BY <2>1, <3>1, <3>2
    <2> QED BY <1>3, <2>1, <2>2, <2>4
  <1>6. CASE E!Discover(l)
    <2> DEFINE q == IF leads[loop[l].at] = "panel"
                    THEN [pc |-> "found", rescue |-> TRUE, found |-> announced]
                    ELSE E!Idle
    <2>1. E!Goto(l, q) /\ UNCHANGED <<E!worldVars, memory, file, throttled, E!counterVars>>
      BY <1>6 DEF E!Discover
    <2>2. CarriesAnnounced(q)
      BY <1>1 DEF CarriesAnnounced, E!TypeOK, E!Idle
    <2>3. E!TypeOK'
      BY <1>1, <1>2, <2>1 DEF E!TypeOK, E!Goto
    <2> QED BY <1>3, <2>1, <2>2, <2>3
  <1>7. CASE E!ReadState(l)
    <2> DEFINE q == [pc |-> "probing", rescue |-> loop[l].rescue, found |-> loop[l].found,
                     seen |-> memory]
    <2>1. /\ loop[l].pc = "found" /\ E!Goto(l, q)
          /\ UNCHANGED <<E!worldVars, memory, file, throttled, E!counterVars>>
      BY <1>7 DEF E!ReadState
    <2>2. CarriesAnnounced(q)
      BY <1>1, <2>1 DEF CarriesAnnounced
    <2>3. q \in [pc : {"probing"}, rescue : BOOLEAN, found : E!AgentDiscovery, seen : E!Memory]
      BY <1>1, <2>1, LoopTyped DEF E!TypeOK
    <2> HIDE DEF q
    <2>4. E!TypeOK'
      BY <1>1, <2>1, <2>3 DEF E!TypeOK, E!Goto
    <2> QED BY <1>3, <2>1, <2>2, <2>4
  <1>8. CASE E!Probe(l)
    <2> DEFINE next == E!NextState(loop[l].seen, loop[l].found, loop[l].rescue)
               q == [pc |-> "storing", rescue |-> loop[l].rescue, next |-> next]
    <2>1. /\ loop[l].pc = "probing"
          /\ \/ E!Goto(l, E!Idle)
             \/ E!Goto(l, q)
          /\ UNCHANGED <<E!worldVars, memory, file, throttled, E!counterVars>>
      BY <1>8 DEF E!Probe
    <2>2. /\ next \in E!Memory /\ next.server = loop[l].found.server
          /\ loop[l].rescue \in BOOLEAN
      BY <1>1, <2>1, LoopTyped, NextStateTyped
    <2> HIDE DEF next
    <2>3. CarriesAnnounced(q) /\ CarriesAnnounced(E!Idle)
      BY <1>1, <2>1, <2>2 DEF CarriesAnnounced, Servers, E!Idle
    <2>4. E!TypeOK'
      BY <1>1, <2>1, <2>2 DEF E!TypeOK, E!Goto
    <2> QED BY <1>3, <2>1, <2>3, <2>4
  <1>9. CASE E!Store(l)
    <2> DEFINE q == [pc |-> "persisting", rescue |-> loop[l].rescue,
                     config |-> [server |-> loop[l].next.server,
                                 fallback |-> loop[l].next.fallback]]
    <2>1. /\ loop[l].pc = "storing" /\ memory' = loop[l].next /\ E!Goto(l, q)
          /\ UNCHANGED <<E!worldVars, file, throttled, E!counterVars>>
      BY <1>9 DEF E!Store
    <2>2. loop[l].next \in E!Memory /\ loop[l].rescue \in BOOLEAN
          /\ loop[l].next.server \in Servers
      BY <1>1, <2>1, LoopTyped DEF CarriesAnnounced
    <2>3. CarriesAnnounced(q)
      BY <2>2 DEF CarriesAnnounced
    <2>4. q \in [pc : {"persisting"}, rescue : BOOLEAN, config : E!Config]
      BY <2>2 DEF E!Memory, E!Config
    <2> HIDE DEF q
    <2>5. E!TypeOK'
      BY <1>1, <2>1, <2>2, <2>4 DEF E!TypeOK, E!Goto
    <2> QED BY <1>3, <2>1, <2>2, <2>3, <2>5
  <1>10. CASE E!Persist(l) \/ E!PersistFails(l)
    <2>1. /\ loop[l].pc = "persisting" /\ E!Goto(l, E!Idle)
          /\ UNCHANGED <<E!worldVars, memory, throttled, restarts>>
          /\ file' \in {file, loop[l].config}
          /\ \/ UNCHANGED fails
             \/ fails < MaxFails /\ fails' = fails + 1
      BY <1>10 DEF E!Persist, E!PersistFails
    <2>2. loop[l].config \in E!Config /\ loop[l].config.server \in Servers
      BY <1>1, <2>1, LoopTyped DEF CarriesAnnounced
    <2>3. CarriesAnnounced(E!Idle)
      BY DEF CarriesAnnounced, E!Idle
    <2>4. fails' \in 0..MaxFails
      BY BoundsAssumption, <1>1, <2>1 DEF E!TypeOK
    <2>5. E!TypeOK'
      BY <1>1, <2>1, <2>2, <2>4 DEF E!TypeOK, E!Goto
    <2> QED BY <1>3, <2>1, <2>2, <2>3, <2>5
  <1> QED BY <1>4, <1>5, <1>6, <1>7, <1>8, <1>9, <1>10 DEF E!LoopStep

LEMMA WorldKeeps ==
    ASSUME EndpointInv, E!ThrottleEnds \/ E!Restart \/ E!Announce \/ \E u \in Urls : E!Reroute(u)
    PROVE  EndpointInv'
  <1> USE DEF E!worldVars, E!counterVars
  <1>1. E!TypeOK /\ file.server \in Servers
    BY DEF EndpointInv, E!RescueNotPersisted, Servers
  <1>2. CASE E!Restart
    <2>1. E!Started(file) \in E!Memory /\ E!Started(file).server = file.server
      BY <1>1 DEF E!TypeOK, E!Started, E!Memory, E!Config
    <2>2. restarts' \in 0..MaxRestarts
      BY BoundsAssumption, <1>1, <1>2 DEF E!TypeOK, E!Restart
    <2>3. E!TypeOK'
      BY <1>1, <1>2, <2>1, <2>2 DEF E!TypeOK, E!Restart
    <2>4. E!RescueNotPersisted'
      BY <1>1, <1>2, <2>1 DEF E!RescueNotPersisted, Servers, E!Restart
    <2>5. \A l \in Loops : CarriesAnnounced(loop[l])'
      BY <1>2 DEF E!Restart, CarriesAnnounced, E!Idle
    <2> QED BY <2>3, <2>4, <2>5 DEF EndpointInv
  <1>3. CASE E!ThrottleEnds \/ E!Announce \/ \E u \in Urls : E!Reroute(u)
    <2>1. UNCHANGED <<memory, file, loop, E!counterVars>>
      BY <1>3 DEF E!ThrottleEnds, E!Announce, E!Reroute
    <2>2. moves' \in 0..MaxMoves /\ flips' \in 0..MaxFlips
      BY BoundsAssumption, <1>1, <1>3 DEF E!TypeOK, E!ThrottleEnds, E!Announce, E!Reroute
    <2>3. /\ announced' \in Announcements
          /\ leads' \in [Urls -> {"panel", "other", "nothing"}]
          /\ throttled' \in BOOLEAN
      BY <1>1, <1>3 DEF E!TypeOK, E!ThrottleEnds, E!Announce, E!Reroute
    <2>4. E!TypeOK'
      BY <1>1, <2>1, <2>2, <2>3 DEF E!TypeOK
    <2> QED BY <2>1, <2>4 DEF EndpointInv, E!RescueNotPersisted, CarriesAnnounced
  <1> QED BY <1>2, <1>3

LEMMA EndpointNext ==
    EndpointInv /\ [E!Next]_(E!vars) => EndpointInv'
  <1> SUFFICES ASSUME EndpointInv, [E!Next]_(E!vars)
               PROVE  EndpointInv'
    OBVIOUS
  <1>1. CASE UNCHANGED E!vars
    BY <1>1 DEF EndpointInv, E!TypeOK, E!RescueNotPersisted, CarriesAnnounced, E!vars,
                E!worldVars, E!counterVars
  <1> QED BY <1>1, LoopKeeps, WorldKeeps DEF E!Next

\* The invariant of the two loops, in every reachable state.
THEOREM EndpointInvariance == E!Spec => []EndpointInv
  <1>1. E!Init => EndpointInv
    BY EndpointInit
  <1>2. EndpointInv /\ [E!Next]_(E!vars) => EndpointInv'
    BY EndpointNext
  <1> QED BY <1>1, <1>2, PTL DEF E!Spec

\* The rescue address never becomes the configured or the persisted server:
\* applyDiscovery and persistAgentEndpointConfig only pass on a server URL that was
\* announced, whichever loop writes last and whatever copy it started from.
THEOREM RescueNeverPersisted == E!Spec => []ConfiguredAnnounced
  <1>1. EndpointInv => ConfiguredAnnounced
    BY DEF EndpointInv, ConfiguredAnnounced, E!ConfiguredAnnounced
  <1> QED BY <1>1, EndpointInvariance, PTL

=============================================================================
