--------------------------- MODULE FindingProofs ---------------------------
(***************************************************************************)
(* What TLAPS proves of FindingLifecycle, for any rules, targets, limits   *)
(* and bounds: whatever the steps of the pass, the operator, the           *)
(* verification and the purge interleave to, the history of a finding      *)
(* tells its status, each of its episodes is announced once, and a pass    *)
(* resolves only what its own rule no longer saw; and when they do not     *)
(* interleave, the histories are chains, orphans go and what the operator  *)
(* ignored stays ignored.                                                  *)
(***************************************************************************)
EXTENDS FindingLifecycle, SequenceTheorems, TLAPS

-----------------------------------------------------------------------------
(* The types. *)

Statuses == {Absent, Active, Ignored, Resolved}
EntryRecords == [from : Statuses, to : Statuses]
Kept == FindingRows \ {NoFinding}

PassRecords ==
  {Idle} \union [phase : {"started"}]
    \union [phase : {"ran"}, executed : SUBSET Rules, reported : [Targets -> 0..MaxRows],
            world : [Targets -> 0..MaxRows]]
    \union [phase : {"loaded"}, executed : SUBSET Rules, reported : [Targets -> 0..MaxRows],
            world : [Targets -> 0..MaxRows], loaded : [Targets -> FindingRows]]
    \union [phase : {"saved"}, created : SUBSET (Targets \X FindingRows),
            resolved : SUBSET (Targets \X FindingRows)]

PurgeRecords ==
  {Idle} \union [phase : {"started"}, known : SUBSET Rules]
    \union [phase : {"loaded"}, known : SUBSET Rules, orphans : SUBSET Targets]

Typed ==
  /\ rules \subseteq Rules
  /\ world \in [Targets -> 0..MaxRows]
  /\ findings \in [Targets -> FindingRows]
  /\ history \in [Targets -> Seq(EntryRecords)]
  /\ pass \in PassRecords
  /\ request \in {Idle} \union [phase : {"loaded"}, target : Targets, to : {Active, Ignored},
                                loaded : Kept]
  /\ verify \in {Idle} \union [phase : {"loaded", "gone"}, target : Targets, loaded : Kept]
  /\ purge \in PurgeRecords
  /\ purgeRequested \in BOOLEAN
  /\ \A n \in DOMAIN queue : queue[n] \in Nat \ {0}
  /\ stamp \in Nat

\* A pass at rest is in no other phase.
LEMMA IdlePhase == Idle.phase = "idle"
  BY DEF Idle

\* A row that exists has an identifier, and only then.
LEMMA RowFacts ==
  /\ NoFinding \in FindingRows /\ NoFinding.id = 0 /\ NoFinding.detected = 0
  /\ NoFinding.dated = FALSE /\ NoFinding.status = Absent
  /\ \A f \in FindingRows :
       /\ f.status \in Statuses /\ f.dated \in BOOLEAN /\ f.detected \in Nat /\ f.id \in Nat
       /\ f = NoFinding <=> f.id = 0
       /\ Exists(f) <=> f.id # 0
       /\ f.status # Absent <=> f.id # 0
       /\ f.id # 0 => f \in [status : {Active, Ignored, Resolved}, dated : BOOLEAN,
                             detected : Nat \ {0}, id : Nat \ {0}]
<1>1. /\ NoFinding \in FindingRows /\ NoFinding.id = 0 /\ NoFinding.detected = 0
      /\ NoFinding.dated = FALSE /\ NoFinding.status = Absent
  BY DEF NoFinding, FindingRows
<1>2. ASSUME NEW f \in FindingRows
      PROVE  /\ f.status \in Statuses /\ f.dated \in BOOLEAN /\ f.detected \in Nat /\ f.id \in Nat
             /\ f = NoFinding <=> f.id = 0
             /\ Exists(f) <=> f.id # 0
             /\ f.status # Absent <=> f.id # 0
             /\ f.id # 0 => f \in [status : {Active, Ignored, Resolved}, dated : BOOLEAN,
                                   detected : Nat \ {0}, id : Nat \ {0}]
  <2>1. CASE f = NoFinding
    <3>1. f.id = 0 /\ f.detected = 0 /\ f.dated = FALSE /\ f.status = Absent
      BY <1>1, <2>1
    <3>2. ~Exists(f) /\ f.status \in Statuses /\ f.dated \in BOOLEAN
      BY <3>1 DEF Exists, Statuses
    <3>3. QED  BY <2>1, <3>1, <3>2
  <2>2. CASE f \in [status : {Active, Ignored, Resolved}, dated : BOOLEAN,
                    detected : Nat \ {0}, id : Nat \ {0}]
    BY <1>1, <2>2 DEF Statuses, Exists, Active, Ignored, Resolved, Absent
  <2>3. QED  BY <2>1, <2>2 DEF FindingRows
<1>3. QED  BY <1>1, <1>2

\* What the phase says of a pass.
LEMMA PassFacts ==
  ASSUME Typed
  PROVE  /\ pass.phase = "started" => pass # Idle
         /\ pass.phase = "ran" =>
              /\ pass.executed \subseteq Rules
              /\ pass.reported \in [Targets -> 0..MaxRows] /\ pass.world \in [Targets -> 0..MaxRows]
         /\ pass.phase = "loaded" =>
              /\ pass.executed \subseteq Rules
              /\ pass.reported \in [Targets -> 0..MaxRows] /\ pass.loaded \in [Targets -> FindingRows]
         /\ pass.phase = "saved" =>
              /\ pass.created \subseteq Targets \X FindingRows
              /\ pass.resolved \subseteq Targets \X FindingRows
  BY DEF Typed, PassRecords, Idle

\* What the type of the actors says of each of their phases.
LEMMA ActorFacts ==
  ASSUME Typed
  PROVE  /\ request # Idle => /\ request.target \in Targets /\ request.loaded \in Kept
                              /\ request.to \in {Active, Ignored}
         /\ verify # Idle => verify.target \in Targets /\ verify.loaded \in Kept
         /\ verify.phase \in {"loaded", "gone"} => verify # Idle
         /\ purge # Idle => purge.known \subseteq Rules
         /\ purge.phase \in {"started", "loaded"} => purge # Idle
         /\ purge.phase = "loaded" => purge.orphans \subseteq Targets
  BY DEF Typed, PurgeRecords, Idle

-----------------------------------------------------------------------------
(* The saves. *)

\* A status that is saved is saved with its history entry, on the row that was loaded.
LEMMA StatusSaved ==
  ASSUME Typed, HistoryTellsStatus, NEW t \in Targets, NEW loaded \in Kept,
         NEW to \in {Active, Ignored, Resolved}, SaveStatus(t, loaded, to)
  PROVE  /\ findings' \in [Targets -> FindingRows]
         /\ history' \in [Targets -> Seq(EntryRecords)]
         /\ HistoryTellsStatus'
         /\ \A u \in Targets : findings'[u].id = findings[u].id
                               /\ findings'[u].detected = findings[u].detected
<1>1. CASE UNCHANGED <<findings, history>>
  BY <1>1 DEF Typed, HistoryTellsStatus
<1>2. CASE /\ findings[t].id = loaded.id
           /\ findings' = [findings EXCEPT ![t] = Changed(@, loaded, to)]
           /\ history' = [history EXCEPT ![t] = Append(@, Entry(loaded.status, to))]
  <2> DEFINE g == Changed(findings[t], loaded, to)
             e == Entry(loaded.status, to)
  <2>1. findings \in [Targets -> FindingRows] /\ history \in [Targets -> Seq(EntryRecords)]
    BY DEF Typed
  <2>2. findings[t].id # 0 /\ loaded.status \in Statuses /\ loaded.dated \in BOOLEAN
    BY <1>2, <2>1, RowFacts DEF Kept
  <2>3. findings[t] \in [status : {Active, Ignored, Resolved}, dated : BOOLEAN,
                         detected : Nat \ {0}, id : Nat \ {0}]
    BY <2>1, <2>2, RowFacts
  <2>4. /\ g \in [status : {Active, Ignored, Resolved}, dated : BOOLEAN,
                  detected : Nat \ {0}, id : Nat \ {0}]
        /\ g.status = to /\ g.id = findings[t].id /\ g.detected = findings[t].detected
    <3>1. \A b \in BOOLEAN :
            /\ [findings[t] EXCEPT !.status = to, !.dated = b] \in
                 [status : {Active, Ignored, Resolved}, dated : BOOLEAN,
                  detected : Nat \ {0}, id : Nat \ {0}]
            /\ [findings[t] EXCEPT !.status = to, !.dated = b].status = to
            /\ [findings[t] EXCEPT !.status = to, !.dated = b].id = findings[t].id
            /\ [findings[t] EXCEPT !.status = to, !.dated = b].detected = findings[t].detected
      BY <2>3
    <3>2. \E b \in BOOLEAN : g = [findings[t] EXCEPT !.status = to, !.dated = b]
      BY <2>3 DEF Changed
    <3> HIDE DEF g
    <3>3. QED  BY <3>1, <3>2
  <2>5. e \in EntryRecords /\ e.to = to
    BY <2>2 DEF Entry, EntryRecords, Statuses
  <2>6. findings' = [findings EXCEPT ![t] = g] /\ history' = [history EXCEPT ![t] = Append(@, e)]
    BY <1>2
  <2> HIDE DEF g, e
  <2>7. g \in FindingRows /\ Exists(g)
    BY <2>4 DEF FindingRows, Exists, Active, Ignored, Resolved, Absent
  <2>8. /\ history'[t] \in Seq(EntryRecords) /\ history'[t] # << >>
        /\ Last(history'[t]) = e
    <3>1. history'[t] = Append(history[t], e) /\ history[t] \in Seq(EntryRecords)
      BY <2>1, <2>6
    <3>2. QED  BY <2>5, <3>1, AppendProperties DEF Last
  <2>9. \A u \in Targets \ {t} : findings'[u] = findings[u] /\ history'[u] = history[u]
    BY <2>1, <2>6
  <2>10. findings'[t] = g
    BY <2>1, <2>6
  <2>11. HistoryTellsStatus'
    BY <2>4, <2>5, <2>7, <2>8, <2>9, <2>10 DEF HistoryTellsStatus
  <2>12. findings' \in [Targets -> FindingRows] /\ history' \in [Targets -> Seq(EntryRecords)]
    BY <2>1, <2>5, <2>6, <2>7, AppendProperties
  <2>13. QED  BY <2>4, <2>9, <2>10, <2>11, <2>12
<1>3. QED  BY <1>1, <1>2 DEF SaveStatus

\* What one target is saved to by a pass whose save is accepted.
LEMMA ReconciledRow ==
  ASSUME Typed, pass.phase = "loaded", ~SaveRefused, NEW t \in Targets
  PROVE  /\ Reconciled(t) \in FindingRows /\ PassEntries(t) \in Seq(EntryRecords)
         /\ \/ /\ t \in Created \union Reappeared
               /\ Reconciled(t).status = Active /\ Reconciled(t).dated = FALSE
               /\ Reconciled(t).detected = stamp + 1
               /\ \/ t \in Created /\ findings[t] = NoFinding /\ PassEntries(t) = << Entry(Absent, Active) >>
                  \/ /\ t \in Reappeared /\ findings[t].id # 0 /\ findings[t].id = pass.loaded[t].id
                     /\ PassEntries(t) = << Entry(Resolved, Active) >>
            \/ /\ t \in Vanished /\ t \notin Created \union Reappeared
               /\ findings[t].id # 0 /\ findings[t].id = pass.loaded[t].id
               /\ Reconciled(t).status = Resolved /\ Reconciled(t).dated = TRUE
               /\ Reconciled(t).id = findings[t].id /\ Reconciled(t).detected = findings[t].detected
               /\ PassEntries(t) = << Entry(Active, Resolved) >>
            \/ /\ t \notin Created \union Reappeared \union Vanished
               /\ Reconciled(t) = findings[t] /\ PassEntries(t) = << >>
<1>1. /\ findings[t] \in FindingRows /\ pass.loaded[t] \in FindingRows /\ stamp \in Nat
  BY PassFacts DEF Typed
<1>2. /\ Entry(Absent, Active) \in EntryRecords /\ Entry(Resolved, Active) \in EntryRecords
      /\ Entry(Active, Resolved) \in EntryRecords
  BY DEF Entry, EntryRecords, Statuses
<1>3. CASE t \in Created
  <2>1. t \notin Reappeared /\ t \notin Vanished
    BY <1>3 DEF Created, Reappeared, Vanished, Exists, Absent, Resolved, Active
  <2>2. findings[t] = NoFinding
    BY <1>1, <1>3, RowFacts DEF SaveRefused
  <2>3. Reconciled(t) = [status |-> Active, dated |-> FALSE, detected |-> stamp + 1, id |-> stamp + 1]
    BY <1>3, <2>1 DEF Reconciled
  <2>4. PassEntries(t) = << Entry(Absent, Active) >>
    BY <1>3, <2>1 DEF PassEntries
  <2>5. Reconciled(t) \in FindingRows
    BY <1>1, <2>3 DEF FindingRows
  <2>6. QED  BY <1>2, <1>3, <2>2, <2>3, <2>4, <2>5
<1>4. CASE t \in Reappeared
  <2>1. t \notin Created /\ t \notin Vanished /\ pass.loaded[t].id # 0
    BY <1>1, <1>4, RowFacts DEF Created, Reappeared, Vanished, Exists, Absent, Resolved, Active
  <2>2. findings[t].id = pass.loaded[t].id
    BY <1>4 DEF SaveRefused
  <2>3. findings[t] \in [status : {Active, Ignored, Resolved}, dated : BOOLEAN,
                         detected : Nat \ {0}, id : Nat \ {0}]
    BY <1>1, <2>1, <2>2, RowFacts
  <2>4. Reconciled(t) = [findings[t] EXCEPT !.status = Active, !.dated = FALSE, !.detected = stamp + 1]
    BY <1>4, <2>1 DEF Reconciled
  <2>5. PassEntries(t) = << Entry(Resolved, Active) >>
    BY <1>4, <2>1 DEF PassEntries
  <2>6. /\ Reconciled(t) \in FindingRows /\ Reconciled(t).status = Active
        /\ Reconciled(t).dated = FALSE /\ Reconciled(t).detected = stamp + 1
    <3>1. \A m \in Nat \ {0} :
            LET g == [findings[t] EXCEPT !.status = Active, !.dated = FALSE, !.detected = m]
            IN  /\ g \in [status : {Active, Ignored, Resolved}, dated : BOOLEAN,
                           detected : Nat \ {0}, id : Nat \ {0}]
                /\ g.status = Active /\ g.dated = FALSE /\ g.detected = m
      BY <2>3
    <3>2. stamp + 1 \in Nat \ {0}
      BY <1>1
    <3>3. QED  BY <2>4, <3>1, <3>2 DEF FindingRows
  <2>7. QED  BY <1>2, <1>4, <2>1, <2>2, <2>5, <2>6
<1>5. CASE t \in Vanished
  <2>1. t \notin Created /\ t \notin Reappeared /\ pass.loaded[t].id # 0
    BY <1>1, <1>5, RowFacts DEF Created, Reappeared, Vanished, Exists, Absent, Resolved, Active
  <2>2. findings[t].id = pass.loaded[t].id
    BY <1>5 DEF SaveRefused
  <2>3. findings[t] \in [status : {Active, Ignored, Resolved}, dated : BOOLEAN,
                         detected : Nat \ {0}, id : Nat \ {0}]
    BY <1>1, <2>1, <2>2, RowFacts
  <2>4. Reconciled(t) = [findings[t] EXCEPT !.status = Resolved, !.dated = TRUE]
    BY <1>5, <2>1 DEF Reconciled
  <2>5. PassEntries(t) = << Entry(Active, Resolved) >>
    BY <1>5, <2>1 DEF PassEntries
  <2>6. /\ Reconciled(t) \in FindingRows /\ Reconciled(t).status = Resolved
        /\ Reconciled(t).dated = TRUE
        /\ Reconciled(t).id = findings[t].id /\ Reconciled(t).detected = findings[t].detected
    BY <2>3, <2>4 DEF FindingRows
  <2>7. QED  BY <1>2, <1>5, <2>1, <2>2, <2>5, <2>6
<1>6. CASE t \notin Created \union Reappeared \union Vanished
  BY <1>1, <1>6 DEF Reconciled, PassEntries
<1>7. QED  BY <1>3, <1>4, <1>5, <1>6

\* A pass saves the statuses with their history entries.
LEMMA PassSaved ==
  ASSUME Typed, HistoryTellsStatus, PassSave
  PROVE  /\ findings' \in [Targets -> FindingRows]
         /\ history' \in [Targets -> Seq(EntryRecords)]
         /\ stamp' \in Nat /\ pass' \in PassRecords
         /\ HistoryTellsStatus'
<1>1. CASE SaveRefused
  BY <1>1 DEF PassSave, Typed, HistoryTellsStatus, PassRecords
<1>2. CASE ~SaveRefused
  <2>1. /\ pass.phase = "loaded"
        /\ findings' = [t \in Targets |-> Reconciled(t)]
        /\ history' = [t \in Targets |-> history[t] \o PassEntries(t)]
        /\ stamp' = IF Created \union Reappeared = {} THEN stamp ELSE stamp + 1
        /\ pass' = [phase |-> "saved",
                    created |-> {<<t, findings'[t]>> : t \in Created \union Reappeared},
                    resolved |-> {<<t, findings'[t]>> : t \in Vanished}]
    BY <1>2 DEF PassSave
  <2>2. findings' \in [Targets -> FindingRows]
    BY <1>2, <2>1, ReconciledRow
  <2>3. history' \in [Targets -> Seq(EntryRecords)]
    BY <1>2, <2>1, ReconciledRow, ConcatProperties DEF Typed
  <2>4. stamp' \in Nat
    BY <2>1 DEF Typed
  <2>5. pass' \in PassRecords
    <3>1. Created \union Reappeared \subseteq Targets /\ Vanished \subseteq Targets
      BY DEF Created, Reappeared, Vanished, Seen
    <3>2. /\ {<<t, findings'[t]>> : t \in Created \union Reappeared} \subseteq Targets \X FindingRows
          /\ {<<t, findings'[t]>> : t \in Vanished} \subseteq Targets \X FindingRows
      BY <2>2, <3>1
    <3>3. QED  BY <2>1, <3>2 DEF PassRecords
  <2>6. HistoryTellsStatus'
    <3> SUFFICES ASSUME NEW t \in Targets
                 PROVE  IF Exists(findings'[t])
                          THEN history'[t] # << >> /\ Last(history'[t]).to = findings'[t].status
                          ELSE history'[t] = << >>
      BY DEF HistoryTellsStatus
    <3>1. findings'[t] = Reconciled(t) /\ history'[t] = history[t] \o PassEntries(t)
      BY <2>1
    <3>2. history[t] \in Seq(EntryRecords)
      BY DEF Typed
    <3>3. \A e \in EntryRecords : /\ history[t] \o << e >> # << >>
                                  /\ Last(history[t] \o << e >>) = e
      <4> SUFFICES ASSUME NEW e \in EntryRecords
                   PROVE  history[t] \o << e >> # << >> /\ Last(history[t] \o << e >>) = e
        OBVIOUS
      <4>1. history[t] \o << e >> = Append(history[t], e)
        BY <3>2, AppendIsConcat
      <4>2. QED  BY <3>2, <4>1, AppendProperties DEF Last
    <3>4. CASE /\ findings'[t].status = Active
               /\ \/ PassEntries(t) = << Entry(Absent, Active) >>
                  \/ PassEntries(t) = << Entry(Resolved, Active) >>
      <4>1. Entry(Absent, Active) \in EntryRecords /\ Entry(Resolved, Active) \in EntryRecords
        BY DEF Entry, EntryRecords, Statuses
      <4>2. Entry(Absent, Active).to = Active /\ Entry(Resolved, Active).to = Active
        BY DEF Entry
      <4>3. Exists(findings'[t])
        BY <3>4 DEF Exists, Active, Absent
      <4>4. QED  BY <3>1, <3>3, <3>4, <4>1, <4>2, <4>3
    <3>5. CASE findings'[t].status = Resolved /\ PassEntries(t) = << Entry(Active, Resolved) >>
      <4>1. Entry(Active, Resolved) \in EntryRecords /\ Entry(Active, Resolved).to = Resolved
        BY DEF Entry, EntryRecords, Statuses
      <4>2. Exists(findings'[t])
        BY <3>5 DEF Exists, Resolved, Absent
      <4>3. QED  BY <3>1, <3>3, <3>5, <4>1, <4>2
    <3>6. CASE PassEntries(t) = << >> /\ Reconciled(t) = findings[t]
      <4>1. history'[t] = history[t]
        BY <3>1, <3>2, <3>6, ConcatEmptySeq
      <4>2. QED  BY <3>1, <3>6, <4>1 DEF HistoryTellsStatus
    <3>7. QED  BY <1>2, <2>1, <3>1, <3>4, <3>5, <3>6, ReconciledRow
  <2>7. QED  BY <2>2, <2>3, <2>4, <2>5, <2>6
<1>3. QED  BY <1>1, <1>2

\* A purge deletes a finding with its history.
LEMMA PurgeSaved ==
  ASSUME Typed, HistoryTellsStatus, PurgeCommit
  PROVE  /\ findings' \in [Targets -> FindingRows]
         /\ history' \in [Targets -> Seq(EntryRecords)]
         /\ HistoryTellsStatus'
<1>1. /\ findings' = [t \in Targets |-> IF t \in purge.orphans THEN NoFinding ELSE findings[t]]
      /\ history' = [t \in Targets |-> IF t \in purge.orphans THEN << >> ELSE history[t]]
  BY DEF PurgeCommit
<1>2. findings' \in [Targets -> FindingRows] /\ history' \in [Targets -> Seq(EntryRecords)]
  BY <1>1, RowFacts DEF Typed
<1>3. ~Exists(NoFinding)
  BY RowFacts DEF Exists
<1>4. HistoryTellsStatus'
  BY <1>1, <1>3 DEF HistoryTellsStatus
<1>5. QED  BY <1>2, <1>4

-----------------------------------------------------------------------------
(* The history tells the status. *)

\* The steps that save nothing.
LEMMA NothingSaved ==
  ASSUME Typed, HistoryTellsStatus, UNCHANGED <<findings, history>>
  PROVE  HistoryTellsStatus'
  BY DEF HistoryTellsStatus

\* The initial rows are typed, with an empty history that tells their status.
LEMMA StartsTyped == Init => Typed /\ HistoryTellsStatus
<1> SUFFICES ASSUME Init
             PROVE  Typed /\ HistoryTellsStatus
  OBVIOUS
<1>1. Typed
  <2>1. history \in [Targets -> Seq(EntryRecords)] /\ findings \in [Targets -> FindingRows]
    BY RowFacts DEF Init
  <2>2. DOMAIN queue = {}
    BY DEF Init
  <2>3. pass \in PassRecords
    BY DEF Init, PassRecords
  <2>4. QED  BY <2>1, <2>2, <2>3 DEF Init, Typed, PurgeRecords
<1>2. ~Exists(NoFinding)
  BY RowFacts DEF Exists
<1>3. HistoryTellsStatus
  BY <1>2 DEF Init, HistoryTellsStatus
<1>4. QED  BY <1>1, <1>3

\* The steps of the pass but its save.
LEMMA PassStepsTyped ==
  ASSUME Typed, PassStart \/ PassLoad \/ PassAbort \/ \E executed \in SUBSET Rules : PassRun(executed)
  PROVE  Typed'
<1>1. UNCHANGED <<rules, world, findings, history, request, verify, purge, purgeRequested, queue, stamp>>
  BY DEF PassStart, PassLoad, PassAbort, PassRun
<1>2. pass' \in PassRecords
  <2>1. CASE PassStart \/ PassAbort
    BY <2>1 DEF PassStart, PassAbort, PassRecords
  <2>2. CASE PassLoad
    <3>1. [t \in Targets |-> IF RuleOf[t] \in pass.executed THEN findings[t] ELSE NoFinding]
            \in [Targets -> FindingRows]
      BY RowFacts DEF Typed
    <3>2. /\ pass.executed \subseteq Rules /\ pass.reported \in [Targets -> 0..MaxRows]
          /\ pass.world \in [Targets -> 0..MaxRows]
      BY <2>2, PassFacts DEF PassLoad
    <3>3. QED  BY <2>2, <3>1, <3>2 DEF PassLoad, PassRecords
  <2>3. ASSUME NEW executed \in SUBSET Rules, PassRun(executed)
        PROVE  pass' \in PassRecords
    <3>1. CASE pass' = Idle
      BY <3>1 DEF PassRecords
    <3>2. CASE \E reported \in Reports(executed) :
                 pass' = [phase |-> "ran", executed |-> executed, reported |-> reported, world |-> world]
      <4>1. Reports(executed) \subseteq [Targets -> 0..MaxRows]
        BY DEF Reports
      <4>2. QED  BY <3>2, <4>1 DEF PassRecords, Typed
    <3>3. QED  BY <2>3, <3>1, <3>2 DEF PassRun
  <2>4. QED  BY <2>1, <2>2, <2>3
<1>3. QED  BY <1>1, <1>2 DEF Typed

\* Publishing the outcome of a pass preserves the types.
LEMMA PublishTyped == ASSUME Typed, PassPublish PROVE Typed'
<1>1. UNCHANGED <<rules, world, findings, history, request, verify, purge, purgeRequested, stamp>>
  BY DEF PassPublish
<1>2. pass' \in PassRecords
  BY DEF PassPublish, PassRecords
<1>3. PICK sent : queue' = [n \in DOMAIN queue \union sent |-> NoticeCount(n) + (IF n \in sent THEN 1 ELSE 0)]
  BY DEF PassPublish
<1>4. \A n \in DOMAIN queue' : queue'[n] \in Nat \ {0}
  <2>1. \A n : NoticeCount(n) \in Nat /\ (n \in DOMAIN queue => NoticeCount(n) # 0)
    BY DEF NoticeCount, Typed
  <2>2. QED  BY <1>3, <2>1
<1>5. QED  BY <1>1, <1>2, <1>4 DEF Typed

\* The steps of the requests, the verification and the purge preserve the types.
LEMMA OthersTyped ==
  ASSUME Typed, RequestLoad \/ VerifyLoad \/ VerifyRun \/ EditRules \/ PurgeStart \/ PurgeLoad \/ WorldChange \/ Crash
  PROVE  Typed' /\ UNCHANGED <<findings, history, stamp, queue>>
<1>1. CASE RequestLoad
  <2>1. PICK t \in Targets, s \in {Active, Ignored} :
          /\ Exists(findings[t])
          /\ request' = [phase |-> "loaded", target |-> t, to |-> s, loaded |-> findings[t]]
    BY <1>1 DEF RequestLoad
  <2>2. findings[t] \in Kept
    BY <2>1, RowFacts DEF Typed, Kept
  <2>3. QED  BY <1>1, <2>1, <2>2 DEF RequestLoad, Typed
<1>2. CASE VerifyLoad
  <2>1. PICK t \in Targets :
          /\ Exists(findings[t])
          /\ verify' = [phase |-> "loaded", target |-> t, loaded |-> findings[t]]
    BY <1>2 DEF VerifyLoad
  <2>2. findings[t] \in Kept
    BY <2>1, RowFacts DEF Typed, Kept
  <2>3. QED  BY <1>2, <2>1, <2>2 DEF VerifyLoad, Typed
<1>3. CASE VerifyRun
  <2>1. verify' = Idle \/ verify' = [phase |-> "gone", target |-> verify.target, loaded |-> verify.loaded]
    BY <1>3 DEF VerifyRun
  <2>2. verify.target \in Targets /\ verify.loaded \in Kept
    BY <1>3, ActorFacts DEF VerifyRun
  <2>3. QED  BY <1>3, <2>1, <2>2 DEF VerifyRun, Typed
<1>4. CASE EditRules
  BY <1>4 DEF EditRules, Typed
<1>5. CASE PurgeStart
  <2>1. purge' \in PurgeRecords
    BY <1>5 DEF PurgeStart, Typed, PurgeRecords
  <2>2. QED  BY <1>5, <2>1 DEF PurgeStart, Typed
<1>6. CASE PurgeLoad
  <2>1. purge.known \subseteq Rules
    BY <1>6, ActorFacts DEF PurgeLoad
  <2>2. purge' \in PurgeRecords
    BY <1>6, <2>1 DEF PurgeLoad, PurgeRecords, Orphans
  <2>3. QED  BY <1>6, <2>2 DEF PurgeLoad, Typed
<1>7. CASE WorldChange
  <2>1. world' \in [Targets -> 0..MaxRows]
    BY <1>7 DEF WorldChange, Typed
  <2>2. QED  BY <1>7, <2>1 DEF WorldChange, Typed
<1>8. CASE Crash
  BY <1>8 DEF Crash, Typed, PassRecords, PurgeRecords
<1>9. QED  BY <1>1, <1>2, <1>3, <1>4, <1>5, <1>6, <1>7, <1>8

\* The two saves of a status.
LEMMA StatusSteps ==
  ASSUME Typed, HistoryTellsStatus, RequestSave \/ VerifySave
  PROVE  /\ Typed' /\ HistoryTellsStatus' /\ UNCHANGED <<pass, queue, stamp>>
         /\ \A u \in Targets : findings'[u].id = findings[u].id
                               /\ findings'[u].detected = findings[u].detected
<1>1. CASE RequestSave
  <2>1. /\ request.target \in Targets /\ request.loaded \in Kept /\ request.to \in {Active, Ignored}
        /\ SaveStatus(request.target, request.loaded, request.to)
    BY <1>1, ActorFacts DEF RequestSave
  <2>2. /\ findings' \in [Targets -> FindingRows] /\ history' \in [Targets -> Seq(EntryRecords)]
        /\ HistoryTellsStatus'
        /\ \A u \in Targets : findings'[u].id = findings[u].id
                              /\ findings'[u].detected = findings[u].detected
    BY <2>1, StatusSaved
  <2>3. QED  BY <1>1, <2>2 DEF RequestSave, Typed
<1>2. CASE VerifySave
  <2>1. CASE UNCHANGED <<findings, history>>
    BY <1>2, <2>1, NothingSaved DEF VerifySave, Typed
  <2>2. CASE SaveStatus(verify.target, verify.loaded, Resolved)
    <3>1. verify.target \in Targets /\ verify.loaded \in Kept
      BY <1>2, ActorFacts DEF VerifySave
    <3>2. /\ findings' \in [Targets -> FindingRows] /\ history' \in [Targets -> Seq(EntryRecords)]
          /\ HistoryTellsStatus'
          /\ \A u \in Targets : findings'[u].id = findings[u].id
                                /\ findings'[u].detected = findings[u].detected
      BY <2>2, <3>1, StatusSaved
    <3>3. QED  BY <1>2, <3>2 DEF VerifySave, Typed
  <2>3. QED  BY <1>2, <2>1, <2>2 DEF VerifySave
<1>3. QED  BY <1>1, <1>2

\* Every step preserves the types and what the histories tell.
LEMMA StepsAreTyped ==
  ASSUME Typed, HistoryTellsStatus, [Next]_vars
  PROVE  Typed' /\ HistoryTellsStatus'
<1>1. CASE PassStart \/ PassLoad \/ PassAbort \/ \E executed \in SUBSET Rules : PassRun(executed)
  <2>1. UNCHANGED <<findings, history>>
    BY <1>1 DEF PassStart, PassLoad, PassAbort, PassRun
  <2>2. QED  BY <1>1, <2>1, PassStepsTyped, NothingSaved
<1>2. CASE PassPublish
  BY <1>2, PublishTyped, NothingSaved DEF PassPublish
<1>3. CASE PassSave
  BY <1>3, PassSaved DEF PassSave, Typed
<1>4. CASE RequestSave \/ VerifySave
  BY <1>4, StatusSteps
<1>5. CASE RequestLoad \/ VerifyLoad \/ VerifyRun \/ EditRules \/ PurgeStart \/ PurgeLoad \/ WorldChange \/ Crash
  BY <1>5, OthersTyped, NothingSaved
<1>6. CASE PurgeCommit
  BY <1>6, PurgeSaved DEF PurgeCommit, Typed, PurgeRecords
<1>7. CASE UNCHANGED vars
  <2>1. HistoryTellsStatus'
    BY <1>7, NothingSaved DEF vars
  <2>2. QED  BY <1>7, <2>1 DEF vars, Typed
<1>8. QED  BY <1>1, <1>2, <1>3, <1>4, <1>5, <1>6, <1>7 DEF Next

\* The types and what the histories tell hold in every state.
LEMMA TypedInvariant == Spec => [](Typed /\ HistoryTellsStatus)
<1>1. (Typed /\ HistoryTellsStatus) /\ [Next]_vars => (Typed /\ HistoryTellsStatus)'
  BY StepsAreTyped
<1>2. QED  BY <1>1, StartsTyped, PTL DEF Spec

\* Every save writes a status with its history entry, even one that overwrites somebody
\* else's: the last entry of a finding tells its status.
THEOREM HistoryTells == Spec => []HistoryTellsStatus
  BY TypedInvariant, PTL

\* The types of the tables and of what the actors hold.
THEOREM FindingsTyped == Spec => []TypeOK
<1>1. Typed => TypeOK
  <2> SUFFICES ASSUME Typed
               PROVE  TypeOK
    OBVIOUS
  <2>1. DOMAIN history = Targets
    BY DEF Typed
  <2>2. pass = Idle \/ pass.phase \in PassPhases
    BY DEF Typed, PassRecords, PassPhases
  <2>3. /\ request = Idle \/ request.loaded \in FindingRows
        /\ verify = Idle \/ verify.loaded \in FindingRows
        /\ purge = Idle \/ /\ purge.known \subseteq Rules
                           /\ purge.phase = "loaded" => purge.orphans \subseteq Targets
    BY ActorFacts DEF Kept
  <2>4. QED  BY <2>1, <2>2, <2>3 DEF Typed, TypeOK
<1>2. QED  BY <1>1, TypedInvariant, PTL

-----------------------------------------------------------------------------
(* What has been spent. *)

SpentTyped == {"setup", "crashes"} \subseteq DOMAIN spent /\ spent.crashes \in Nat

\* Every step keeps the counters of what is bounded within their bounds.
LEMMA SpentSteps ==
  ASSUME SpentTyped, [Next]_vars
  PROVE  /\ SpentTyped' /\ spent'.setup = spent.setup
         /\ \/ spent'.crashes = spent.crashes
            \/ Crash /\ spent'.crashes # 0
<1>1. CASE spent' = spent
  BY <1>1 DEF SpentTyped
<1>2. CASE \E what \in {"aborts", "requests", "edits", "changes"} : Spend(what)
  BY <1>2 DEF Spend, SpentTyped
<1>3. CASE Crash
  BY <1>3 DEF Crash, SpentTyped
<1>4. QED
  BY <1>1, <1>2, <1>3 DEF Next, vars, PassStart, PassRun, PassLoad, PassSave, PassPublish, PassAbort,
     RequestLoad, RequestSave, VerifyLoad, VerifyRun, VerifySave, EditRules, PurgeStart, PurgeLoad,
     PurgeCommit, WorldChange

-----------------------------------------------------------------------------
(* The episodes and their notifications. *)

Announcement(t, f) == <<t, Notice("new_finding", f)>>

\* No stamp comes from the future.
Numbered ==
  /\ \A t \in Targets : findings[t].detected <= stamp
  /\ \A n \in DOMAIN queue : n[2].cycle \in Nat /\ n[2].cycle <= stamp
  /\ pass.phase = "saved" => \A p \in pass.created \union pass.resolved : p[2].detected <= stamp

\* Each episode is announced, or about to be by the pass that saved it.
Once ==
  /\ \A n \in DOMAIN queue : n[2].event = "new_finding" => queue[n] = 1
  /\ pass.phase = "saved" =>
       \A p \in pass.created : Announcement(p[1], p[2]) \notin DOMAIN queue
  /\ spent.crashes = 0 =>
       \A t \in Targets : Exists(findings[t]) =>
         \/ Announcement(t, findings[t]) \in DOMAIN queue
         \/ /\ pass.phase = "saved"
            /\ \E p \in pass.created : Announcement(p[1], p[2]) = Announcement(t, findings[t])

\* Announcements that differ in nothing are the same announcement.
LEMMA SameNotice ==
  ASSUME NEW f, NEW g, f.id = g.id, f.detected = g.detected
  PROVE  \A t, event : /\ Notice(event, f) = Notice(event, g)
                       /\ Announcement(t, f) = Announcement(t, g)
  BY DEF Notice, Announcement

\* What an announcement is made of.
LEMMA NoticeFacts ==
  ASSUME NEW f, NEW event
  PROVE  Notice(event, f).event = event /\ Notice(event, f).cycle = f.detected
  BY DEF Notice

\* No new detection, no notification; what a pass has saved is kept, or lost in a crash.
LEMMA OnceKept ==
  ASSUME Typed, Typed', Numbered, Once, UNCHANGED <<queue, stamp>>,
         \A t \in Targets :
           \/ findings'[t] = NoFinding
           \/ findings'[t].id = findings[t].id /\ findings'[t].detected = findings[t].detected,
         pass' = pass \/ (pass'.phase # "saved" /\ (pass.phase # "saved" \/ spent'.crashes # 0)),
         spent'.crashes = spent.crashes \/ spent'.crashes # 0
  PROVE  Numbered' /\ Once'
<1>1. Numbered'
  <2>1. \A t \in Targets : findings'[t].detected <= stamp'
    <3> SUFFICES ASSUME NEW t \in Targets
                 PROVE  findings'[t].detected <= stamp'
      OBVIOUS
    <3>1. stamp' = stamp /\ 0 <= stamp /\ findings[t].detected <= stamp
      BY DEF Numbered, Typed
    <3>2. findings'[t].detected = 0 \/ findings'[t].detected = findings[t].detected
      BY RowFacts
    <3>3. QED  BY <3>1, <3>2
  <2>2. \A n \in DOMAIN queue' : n[2].cycle \in Nat /\ n[2].cycle <= stamp'
    BY DEF Numbered
  <2>3. pass'.phase = "saved" =>
          \A p \in pass'.created \union pass'.resolved : p[2].detected <= stamp'
    BY DEF Numbered
  <2>4. QED  BY <2>1, <2>2, <2>3 DEF Numbered
<1>2. \A n \in DOMAIN queue' : n[2].event = "new_finding" => queue'[n] = 1
  BY DEF Once
<1>3. pass'.phase = "saved" => \A p \in pass'.created : Announcement(p[1], p[2]) \notin DOMAIN queue'
  BY DEF Once
<1>4. ASSUME spent'.crashes = 0, NEW t \in Targets, Exists(findings'[t])
      PROVE  \/ Announcement(t, findings'[t]) \in DOMAIN queue'
             \/ /\ pass'.phase = "saved"
                /\ \E p \in pass'.created : Announcement(p[1], p[2]) = Announcement(t, findings'[t])
  <2>1. findings[t] \in FindingRows /\ findings'[t] \in FindingRows
    BY DEF Typed
  <2>2. findings'[t].id = findings[t].id /\ findings'[t].detected = findings[t].detected
    BY <1>4, <2>1, RowFacts
  <2>3. Exists(findings[t]) /\ Announcement(t, findings'[t]) = Announcement(t, findings[t])
    BY <1>4, <2>1, <2>2, RowFacts, SameNotice
  <2>4. QED  BY <1>4, <2>3 DEF Once
<1>5. QED  BY <1>1, <1>2, <1>3, <1>4 DEF Once

\* The pairs a pass keeps for its announcements come from the rows it saved.
LEMMA PairsOf ==
  ASSUME NEW S, NEW g
  PROVE  \A p \in {<<t, g[t]>> : t \in S} : p[1] \in S /\ p[2] = g[p[1]]
  OBVIOUS

\* The new detections of a save have a stamp that no notification has.
LEMMA OnceSaved ==
  ASSUME Typed, Typed', Numbered, Once, PassSave, spent' = spent
  PROVE  Numbered' /\ Once'
<1>1. CASE SaveRefused
  <2>1. pass'.phase # "saved" /\ pass.phase # "saved" /\ UNCHANGED <<queue, stamp, findings>>
    BY <1>1, IdlePhase DEF PassSave
  <2>2. QED  BY <2>1, OnceKept
<1>2. CASE ~SaveRefused
  <2> DEFINE New == Created \union Reappeared
  <2>1. /\ pass.phase = "loaded" /\ queue' = queue
        /\ findings' = [t \in Targets |-> Reconciled(t)]
        /\ stamp' = IF New = {} THEN stamp ELSE stamp + 1
        /\ pass'.phase = "saved"
        /\ pass'.created = {<<t, findings'[t]>> : t \in New}
        /\ pass'.resolved = {<<t, findings'[t]>> : t \in Vanished}
    BY <1>2 DEF PassSave
  <2>2. New \subseteq Targets /\ Vanished \subseteq Targets /\ stamp \in Nat /\ stamp' \in Nat
    BY <2>1 DEF Created, Reappeared, Vanished, Seen, Typed
  <2>3. \A t \in New : findings'[t].detected = stamp + 1 /\ stamp' = stamp + 1
    BY <1>2, <2>1, <2>2, ReconciledRow
  <2>4. \A t \in Targets \ New : findings'[t].id = findings[t].id
                               /\ findings'[t].detected = findings[t].detected
    BY <1>2, <2>1, ReconciledRow
  <2> HIDE DEF New
  <2>5. \A t \in Targets : findings'[t].detected <= stamp'
    <3> SUFFICES ASSUME NEW t \in Targets
                 PROVE  findings'[t].detected <= stamp'
      OBVIOUS
    <3>1. CASE t \in New
      BY <2>2, <2>3, <3>1
    <3>2. CASE t \notin New
      <4>1. findings[t].detected \in Nat /\ findings[t].detected <= stamp
        BY RowFacts DEF Numbered, Typed
      <4>2. stamp <= stamp'
        BY <2>1, <2>2
      <4>3. QED  BY <2>2, <2>4, <3>2, <4>1, <4>2
    <3>3. QED  BY <3>1, <3>2
  <2>6. Numbered'
    <3>1. \A n \in DOMAIN queue' : n[2].cycle \in Nat /\ n[2].cycle <= stamp'
      BY <2>1, <2>2 DEF Numbered
    <3>2. \A p \in pass'.created \union pass'.resolved : p[2].detected <= stamp'
      <4>1. \A p \in pass'.created \union pass'.resolved :
              p[1] \in Targets /\ p[2] = findings'[p[1]]
        BY <2>1, <2>2, PairsOf
      <4>2. QED  BY <2>5, <4>1
    <3>3. QED  BY <2>5, <3>1, <3>2 DEF Numbered
  <2>7. \A p \in pass'.created : Announcement(p[1], p[2]) \notin DOMAIN queue'
    <3> SUFFICES ASSUME NEW t \in New, Announcement(t, findings'[t]) \in DOMAIN queue
                 PROVE  FALSE
      <4>1. \A p \in pass'.created : p[1] \in New /\ p[2] = findings'[p[1]]
        BY <2>1, PairsOf
      <4>2. queue' = queue
        BY <2>1
      <4>3. QED  BY <4>1, <4>2
    <3>1. Announcement(t, findings'[t])[2].cycle = stamp + 1
      BY <2>3, NoticeFacts DEF Announcement
    <3>2. QED  BY <2>2, <3>1 DEF Numbered
  <2>8. ASSUME spent'.crashes = 0, NEW t \in Targets, Exists(findings'[t])
        PROVE  \/ Announcement(t, findings'[t]) \in DOMAIN queue'
               \/ \E p \in pass'.created : Announcement(p[1], p[2]) = Announcement(t, findings'[t])
    <3>1. CASE t \in New
      <4>1. <<t, findings'[t]>> \in pass'.created
        BY <2>1, <3>1
      <4> DEFINE p == <<t, findings'[t]>>
      <4>2. p[1] = t /\ p[2] = findings'[t]
        OBVIOUS
      <4> HIDE DEF p
      <4>3. Announcement(p[1], p[2]) = Announcement(t, findings'[t])
        BY <4>2
      <4>4. p \in pass'.created
        BY <4>1 DEF p
      <4>5. QED  BY <4>3, <4>4
    <3>2. CASE t \notin New
      <4>1. findings[t] \in FindingRows /\ findings'[t] \in FindingRows
        BY DEF Typed
      <4>2. Exists(findings[t]) /\ Announcement(t, findings'[t]) = Announcement(t, findings[t])
        BY <2>4, <2>8, <3>2, <4>1, RowFacts, SameNotice
      <4>3. QED  BY <2>1, <2>8, <4>2 DEF Once
    <3>3. QED  BY <3>1, <3>2
  <2>9. QED  BY <2>1, <2>6, <2>7, <2>8 DEF Once
<1>3. QED  BY <1>1, <1>2

\* What was saved is enqueued, once.
LEMMA OncePublished ==
  ASSUME Typed, Numbered, Once, PassPublish
  PROVE  Numbered' /\ Once'
<1> DEFINE new == {<<p[1], Notice("new_finding", p[2])>> : p \in pass.created}
           gone == {<<p[1], Notice("finding_resolved", p[2])>> : p \in pass.resolved}
<1>1. /\ pass.phase = "saved" /\ pass'.phase # "saved" /\ UNCHANGED <<findings, stamp, spent>>
      /\ queue' = [n \in DOMAIN queue \union (new \union gone) |->
                     NoticeCount(n) + (IF n \in new \union gone THEN 1 ELSE 0)]
  BY IdlePhase DEF PassPublish
<1>2. /\ \A n \in new : n[2].event = "new_finding" /\ n[2].cycle \in Nat /\ n[2].cycle <= stamp
                        /\ n \notin DOMAIN queue
      /\ \A n \in gone : n[2].event = "finding_resolved" /\ n[2].cycle \in Nat /\ n[2].cycle <= stamp
  <2>1. \A p \in pass.created \union pass.resolved : p[2].detected \in Nat /\ p[2].detected <= stamp
    BY <1>1, PassFacts, RowFacts DEF Numbered
  <2>2. \A p \in pass.created : Announcement(p[1], p[2]) \notin DOMAIN queue
    BY <1>1 DEF Once
  <2>3. QED  BY <2>1, <2>2, NoticeFacts DEF Announcement
<1>3. \A p \in pass.created : Announcement(p[1], p[2]) \in new
  BY DEF Announcement
<1> HIDE DEF new, gone
<1>4. DOMAIN queue' = DOMAIN queue \union (new \union gone)
  BY <1>1
<1>5. Numbered'
  BY <1>1, <1>2, <1>4 DEF Numbered
<1>6. \A n \in DOMAIN queue' : n[2].event = "new_finding" => queue'[n] = 1
  <2> SUFFICES ASSUME NEW n \in DOMAIN queue', n[2].event = "new_finding"
               PROVE  queue'[n] = 1
    OBVIOUS
  <2>1. n \notin gone
    BY <1>2
  <2>2. CASE n \in new
    BY <1>1, <1>2, <1>4, <2>2 DEF NoticeCount
  <2>3. CASE n \notin new
    <3>1. n \in DOMAIN queue /\ queue[n] = 1
      BY <1>4, <2>1, <2>3 DEF Once
    <3>2. queue'[n] = NoticeCount(n) + 0
      BY <1>1, <1>4, <2>1, <2>3
    <3>3. QED  BY <3>1, <3>2 DEF NoticeCount
  <2>4. QED  BY <2>2, <2>3
<1>7. spent'.crashes = 0 =>
        \A t \in Targets : Exists(findings'[t]) => Announcement(t, findings'[t]) \in DOMAIN queue'
  BY <1>1, <1>3, <1>4 DEF Once
<1>8. QED  BY <1>1, <1>5, <1>6, <1>7 DEF Once

\* Every step announces an episode at most once.
LEMMA OnceSteps ==
  ASSUME Typed, HistoryTellsStatus, SpentTyped, Numbered, Once, [Next]_vars
  PROVE  Numbered' /\ Once'
<1>1. Typed' /\ (spent'.crashes = spent.crashes \/ spent'.crashes # 0)
  BY StepsAreTyped, SpentSteps
<1>2. CASE PassStart \/ PassLoad \/ PassAbort \/ \E executed \in SUBSET Rules : PassRun(executed)
  <2>1. UNCHANGED <<findings, queue, stamp>>
    BY <1>2 DEF PassStart, PassLoad, PassAbort, PassRun
  <2>2. pass'.phase # "saved" /\ pass.phase # "saved"
    BY <1>2, IdlePhase DEF PassStart, PassLoad, PassAbort, PassRun
  <2>3. QED  BY <1>1, <2>1, <2>2, OnceKept
<1>3. CASE PassPublish
  BY <1>3, OncePublished
<1>4. CASE PassSave
  BY <1>1, <1>4, OnceSaved DEF PassSave
<1>5. CASE RequestSave \/ VerifySave
  BY <1>1, <1>5, StatusSteps, OnceKept
<1>6. CASE RequestLoad \/ VerifyLoad \/ VerifyRun \/ EditRules \/ PurgeStart \/ PurgeLoad \/ WorldChange
  <2>1. pass' = pass
    BY <1>6 DEF RequestLoad, VerifyLoad, VerifyRun, EditRules, PurgeStart, PurgeLoad, WorldChange
  <2>2. QED  BY <1>1, <1>6, <2>1, OthersTyped, OnceKept
<1>7. CASE Crash
  <2>1. pass'.phase # "saved" /\ spent'.crashes # 0
    BY <1>7, IdlePhase DEF Crash, SpentTyped
  <2>2. QED  BY <1>1, <1>7, <2>1, OthersTyped, OnceKept
<1>8. CASE PurgeCommit
  <2>1. \A t \in Targets : findings'[t] = NoFinding \/ findings'[t] = findings[t]
    BY <1>8 DEF PurgeCommit
  <2>2. UNCHANGED <<queue, stamp, pass>>
    BY <1>8 DEF PurgeCommit
  <2>3. QED  BY <1>1, <2>1, <2>2, OnceKept
<1>9. CASE UNCHANGED vars
  BY <1>1, <1>9, OnceKept DEF vars
<1>10. QED  BY <1>2, <1>3, <1>4, <1>5, <1>6, <1>7, <1>8, <1>9 DEF Next

\* Every episode of a finding is enqueued exactly once as long as no crash falls between
\* the save and the queue, and at most once whatever happens.
THEOREM AnnouncedOnce == Spec => []EachEpisodeAnnouncedOnce
<1>1. Init => SpentTyped /\ Numbered /\ Once
  <2> SUFFICES ASSUME Init
               PROVE  SpentTyped /\ Numbered /\ Once
    OBVIOUS
  <2>1. SpentTyped
    BY DEF Init, SpentTyped
  <2>2. DOMAIN queue = {} /\ pass.phase # "saved" /\ stamp = 0
    BY IdlePhase DEF Init
  <2>3. \A t \in Targets : findings[t] = NoFinding /\ ~Exists(NoFinding)
    BY RowFacts DEF Init, Exists
  <2>4. QED  BY <2>1, <2>2, <2>3, RowFacts DEF Numbered, Once
<1>2. (Typed /\ HistoryTellsStatus) /\ (SpentTyped /\ Numbered /\ Once) /\ [Next]_vars
        => (SpentTyped /\ Numbered /\ Once)'
  BY OnceSteps, SpentSteps
<1>3. Once => EachEpisodeAnnouncedOnce
  <2> SUFFICES ASSUME Once
               PROVE  EachEpisodeAnnouncedOnce
    OBVIOUS
  <2>1. ASSUME spent.crashes = 0, pass.phase # "saved", NEW t \in Targets, Exists(findings[t])
        PROVE  NoticeCount(<<t, Notice("new_finding", findings[t])>>) = 1
    <3>1. Announcement(t, findings[t]) \in DOMAIN queue
      BY <2>1 DEF Once
    <3>2. Announcement(t, findings[t])[2].event = "new_finding"
      BY NoticeFacts DEF Announcement
    <3>3. NoticeCount(Announcement(t, findings[t])) = 1
      BY <3>1, <3>2 DEF Once, NoticeCount
    <3>4. QED  BY <3>3 DEF Announcement
  <2>2. \A n \in DOMAIN queue : n[2].event = "new_finding" => queue[n] = 1
    BY DEF Once
  <2>3. QED  BY <2>1, <2>2 DEF EachEpisodeAnnouncedOnce
<1>4. QED  BY <1>1, <1>2, <1>3, TypedInvariant, PTL DEF Spec

-----------------------------------------------------------------------------
(* The actors served one at a time. *)

\* Only one of them is at work.
OneAtATime ==
  /\ pass # Idle => request = Idle /\ verify = Idle /\ purge = Idle
  /\ request # Idle => verify = Idle /\ purge = Idle
  /\ verify # Idle => purge = Idle

\* What it has loaded is still so.
UpToDate ==
  /\ request # Idle => findings[request.target] = request.loaded
  /\ verify # Idle => findings[verify.target] = verify.loaded
  /\ purge # Idle => purge.known = rules
  /\ purge.phase = "loaded" =>
       \A t \in Targets : Exists(findings[t]) /\ RuleOf[t] \notin rules => t \in purge.orphans
  /\ pass.phase \in {"ran", "loaded"} =>
       /\ pass.executed \subseteq rules
       /\ \A t \in Targets : RuleOf[t] \notin pass.executed => pass.reported[t] = 0
  /\ pass.phase = "loaded" => \A t \in Targets : pass.loaded[t] \in {findings[t], NoFinding}

\* An orphan has its purge before it, the pass at work or not.
Purged ==
  \A t \in Targets :
    (Exists(findings[t]) /\ RuleOf[t] \notin rules /\ rules # {}) => purgeRequested \/ purge # Idle

\* The dates and the chain of a finding.
Consistent(f, h) ==
  /\ Exists(f) => (f.dated <=> f.status = Resolved)
  /\ \A i \in 1..(Len(h) - 1) : h[i].to = h[i + 1].from

InTurn == /\ OneAtATime /\ UpToDate /\ Purged
          /\ \A t \in Targets : Consistent(findings[t], history[t])

\* An entry that starts where the last one ended keeps the chain.
LEMMA ChainGrows ==
  ASSUME NEW h \in Seq(EntryRecords), NEW e \in EntryRecords,
         \A i \in 1..(Len(h) - 1) : h[i].to = h[i + 1].from,
         h # << >> => Last(h).to = e.from
  PROVE  \A i \in 1..(Len(Append(h, e)) - 1) : Append(h, e)[i].to = Append(h, e)[i + 1].from
<1> SUFFICES ASSUME NEW i \in 1..(Len(Append(h, e)) - 1)
             PROVE  Append(h, e)[i].to = Append(h, e)[i + 1].from
  OBVIOUS
<1>1. /\ Len(h) \in Nat /\ Len(Append(h, e)) = Len(h) + 1 /\ Append(h, e)[Len(h) + 1] = e
      /\ \A k \in 1..Len(h) : Append(h, e)[k] = h[k]
  BY AppendProperties
<1>2. CASE i = Len(h)
  <2>1. h # << >> /\ Last(h) = h[i]
    BY <1>1, <1>2 DEF Last
  <2>2. Append(h, e)[i] = h[i] /\ Append(h, e)[i + 1] = e
    BY <1>1, <1>2
  <2>3. QED  BY <2>1, <2>2
<1>3. CASE i # Len(h)
  <2>1. i \in 1..(Len(h) - 1) /\ i \in 1..Len(h) /\ i + 1 \in 1..Len(h)
    BY <1>1, <1>3
  <2>2. Append(h, e)[i] = h[i] /\ Append(h, e)[i + 1] = h[i + 1]
    BY <1>1, <2>1
  <2>3. QED  BY <2>1, <2>2
<1>4. QED  BY <1>2, <1>3

\* A status saved over the row that was loaded.
LEMMA StatusInTurn ==
  ASSUME Typed, HistoryTellsStatus, NEW t \in Targets, NEW loaded \in Kept,
         NEW to \in {Active, Ignored, Resolved}, SaveStatus(t, loaded, to),
         findings[t] = loaded, \A u \in Targets : Consistent(findings[u], history[u])
  PROVE  \A u \in Targets : Consistent(findings'[u], history'[u])
<1>1. /\ findings' = [findings EXCEPT ![t] = Changed(@, loaded, to)]
      /\ history' = [history EXCEPT ![t] = Append(@, Entry(loaded.status, to))]
  BY DEF SaveStatus
<1>2. \A u \in Targets \ {t} : findings'[u] = findings[u] /\ history'[u] = history[u]
  BY <1>1 DEF Typed
<1>3. /\ findings'[t] = Changed(loaded, loaded, to)
      /\ history'[t] = Append(history[t], Entry(loaded.status, to))
  BY <1>1 DEF Typed
<1>4. /\ loaded \in [status : {Active, Ignored, Resolved}, dated : BOOLEAN,
                     detected : Nat \ {0}, id : Nat \ {0}]
      /\ Exists(loaded) /\ loaded.status \in Statuses
  BY RowFacts DEF Kept
<1>5. findings'[t].status = to /\ (findings'[t].dated <=> to = Resolved)
  BY <1>3, <1>4 DEF Changed
<1>6. history[t] \in Seq(EntryRecords) /\ Entry(loaded.status, to) \in EntryRecords
      /\ Entry(loaded.status, to).from = loaded.status
  BY <1>4 DEF Typed, Entry, EntryRecords, Statuses
<1>7. Last(history[t]).to = loaded.status
  BY <1>4 DEF HistoryTellsStatus
<1>8. \A i \in 1..(Len(history'[t]) - 1) : history'[t][i].to = history'[t][i + 1].from
  <2> DEFINE e == Entry(loaded.status, to)
  <2>1. /\ history[t] \in Seq(EntryRecords) /\ e \in EntryRecords
        /\ Last(history[t]).to = e.from /\ history'[t] = Append(history[t], e)
    BY <1>3, <1>6, <1>7
  <2>2. \A i \in 1..(Len(history[t]) - 1) : history[t][i].to = history[t][i + 1].from
    BY DEF Consistent
  <2> HIDE DEF e
  <2>3. QED  BY <2>1, <2>2, ChainGrows
<1>9. Consistent(findings'[t], history'[t])
  BY <1>5, <1>8 DEF Consistent
<1>10. QED  BY <1>2, <1>9

\* The steps that save nothing and leave the rules as they are.
LEMMA RestInTurn ==
  ASSUME InTurn, UNCHANGED <<findings, history>>
  PROVE  \A t \in Targets : Consistent(findings'[t], history'[t])
  BY DEF InTurn

\* When one actor works at a time, what the pass loads is what the table holds.
LEMMA PassInTurn ==
  ASSUME Typed, InTurn, Exclusive,
         PassStart \/ PassLoad \/ PassAbort \/ PassPublish \/ \E executed \in SUBSET Rules : PassRun(executed)
  PROVE  InTurn'
<1>1. UNCHANGED <<rules, findings, history, request, verify, purge, purgeRequested>>
  BY DEF PassStart, PassLoad, PassAbort, PassPublish, PassRun
<1>2. request = Idle /\ verify = Idle /\ purge = Idle
  <2>1. CASE PassStart
    BY <2>1 DEF PassStart, MayStart
  <2>2. CASE PassLoad \/ PassAbort \/ PassPublish \/ \E executed \in SUBSET Rules : PassRun(executed)
    <3>1. pass # Idle
      BY <2>2, IdlePhase DEF PassLoad, PassAbort, PassPublish, PassRun
    <3>2. QED  BY <3>1 DEF InTurn, OneAtATime
  <2>3. QED  BY <2>1, <2>2
<1>3. OneAtATime' /\ Purged'
  BY <1>1, <1>2 DEF InTurn, OneAtATime, Purged
<1>4. /\ pass'.phase \in {"ran", "loaded"} =>
           /\ pass'.executed \subseteq rules'
           /\ \A t \in Targets : RuleOf[t] \notin pass'.executed => pass'.reported[t] = 0
      /\ pass'.phase = "loaded" => \A t \in Targets : pass'.loaded[t] \in {findings'[t], NoFinding}
  <2>1. CASE PassStart \/ PassAbort \/ PassPublish
    BY <2>1, IdlePhase DEF PassStart, PassAbort, PassPublish
  <2>2. CASE PassLoad
    BY <1>1, <2>2 DEF PassLoad, InTurn, UpToDate
  <2>3. ASSUME NEW executed \in SUBSET Rules, PassRun(executed)
        PROVE  /\ pass'.phase # "loaded"
               /\ pass'.phase = "ran" =>
                    /\ pass'.executed \subseteq rules'
                    /\ \A t \in Targets : RuleOf[t] \notin pass'.executed => pass'.reported[t] = 0
    <3>1. CASE pass' = Idle
      BY <3>1, IdlePhase
    <3>2. ASSUME NEW reported \in Reports(executed),
                 pass' = [phase |-> "ran", executed |-> executed, reported |-> reported, world |-> world]
          PROVE  /\ pass'.phase = "ran" /\ pass'.executed \subseteq rules'
                 /\ \A t \in Targets : RuleOf[t] \notin pass'.executed => pass'.reported[t] = 0
      <4>1. \A t \in Targets : RuleOf[t] \notin executed => reported[t] = 0
        BY DEF Reports
      <4>2. executed \subseteq rules
        BY <2>3 DEF PassRun
      <4>3. QED  BY <1>1, <3>2, <4>1, <4>2
    <3>3. QED  BY <2>3, <3>1, <3>2 DEF PassRun
  <2>4. QED  BY <2>1, <2>2, <2>3
<1>5. UpToDate'
  BY <1>1, <1>2, <1>4, IdlePhase DEF UpToDate
<1>6. QED  BY <1>1, <1>3, <1>5, RestInTurn DEF InTurn

\* When one actor works at a time, the save of a pass continues the histories.
LEMMA PassSaveInTurn ==
  ASSUME Typed, HistoryTellsStatus, InTurn, PassSave
  PROVE  InTurn'
<1>0. /\ UNCHANGED <<rules, request, verify, purge, purgeRequested>>
      /\ pass.phase = "loaded" /\ pass'.phase \notin {"ran", "loaded"}
  BY IdlePhase DEF PassSave
<1>1. request = Idle /\ verify = Idle /\ purge = Idle
  BY <1>0, IdlePhase DEF InTurn, OneAtATime
<1>2. OneAtATime' /\ UpToDate'
  BY <1>0, <1>1, IdlePhase DEF OneAtATime, UpToDate
<1>3. CASE SaveRefused
  <2>1. UNCHANGED <<findings, history>>
    BY <1>3 DEF PassSave
  <2>2. Purged'
    BY <1>0, <2>1 DEF InTurn, Purged
  <2>3. QED  BY <1>2, <2>1, <2>2, RestInTurn DEF InTurn
<1>4. CASE ~SaveRefused
  <2>1. /\ findings' = [t \in Targets |-> Reconciled(t)]
        /\ history' = [t \in Targets |-> history[t] \o PassEntries(t)]
    BY <1>4 DEF PassSave
  <2>2. Purged'
    <3> SUFFICES ASSUME NEW t \in Targets, Exists(findings'[t]), RuleOf[t] \notin rules, rules # {}
                 PROVE  purgeRequested \/ purge # Idle
      BY <1>0 DEF Purged
    <3>1. t \notin Created
      BY <1>0 DEF InTurn, UpToDate, Created, Seen
    <3>2. findings[t].id # 0
      <4>1. findings[t] \in FindingRows
        BY DEF Typed
      <4>2. findings'[t] = Reconciled(t)
        BY <2>1
      <4>3. CASE t \in Reappeared \union Vanished
        BY <1>0, <1>4, <3>1, <4>3, ReconciledRow
      <4>4. CASE t \notin Reappeared \union Vanished
        <5>1. findings'[t] = findings[t]
          BY <1>0, <1>4, <3>1, <4>2, <4>4, ReconciledRow
        <5>2. QED  BY <4>1, <5>1, RowFacts
      <4>5. QED  BY <4>3, <4>4
    <3>3. Exists(findings[t])
      BY <3>2, RowFacts DEF Typed
    <3>4. QED  BY <3>3 DEF InTurn, Purged
  <2>3. ASSUME NEW t \in Targets
        PROVE  Consistent(findings'[t], history'[t])
    <3>1. /\ findings'[t] = Reconciled(t) /\ history'[t] = history[t] \o PassEntries(t)
          /\ history[t] \in Seq(EntryRecords) /\ findings[t] \in FindingRows
          /\ Consistent(findings[t], history[t])
          /\ pass.loaded[t] \in {findings[t], NoFinding}
      BY <1>0, <2>1 DEF Typed, InTurn, UpToDate
    <3>2. ASSUME NEW e \in EntryRecords, PassEntries(t) = << e >>,
                 findings[t].status = e.from
          PROVE  \A i \in 1..(Len(history'[t]) - 1) : history'[t][i].to = history'[t][i + 1].from
      <4>1. history'[t] = Append(history[t], e)
        BY <3>1, <3>2, AppendIsConcat
      <4>2. history[t] # << >> => Last(history[t]).to = e.from
        BY <3>2 DEF HistoryTellsStatus
      <4>3. QED  BY <3>1, <4>1, <4>2, ChainGrows DEF Consistent
    <3>3. CASE t \in Created \union Reappeared
      <4>1. findings'[t].status = Active /\ findings'[t].dated = FALSE
        BY <1>0, <1>4, <3>1, <3>3, ReconciledRow
      <4>2. \/ PassEntries(t) = << Entry(Absent, Active) >> /\ findings[t].status = Absent
            \/ PassEntries(t) = << Entry(Resolved, Active) >> /\ findings[t].status = Resolved
        <5>1. \/ PassEntries(t) = << Entry(Absent, Active) >> /\ findings[t] = NoFinding
              \/ /\ PassEntries(t) = << Entry(Resolved, Active) >> /\ t \in Reappeared
                 /\ findings[t].id # 0 /\ findings[t].id = pass.loaded[t].id
          BY <1>0, <1>4, <3>3, ReconciledRow
        <5>2. t \in Reappeared => pass.loaded[t].status = Resolved
          BY DEF Reappeared
        <5>3. QED  BY <3>1, <5>1, <5>2, RowFacts
      <4>3. /\ Entry(Absent, Active) \in EntryRecords /\ Entry(Resolved, Active) \in EntryRecords
            /\ Entry(Absent, Active).from = Absent /\ Entry(Resolved, Active).from = Resolved
        BY DEF Entry, EntryRecords, Statuses
      <4>4. Active # Resolved
        BY DEF Active, Resolved
      <4>5. QED  BY <3>2, <4>1, <4>2, <4>3, <4>4 DEF Consistent
    <3>4. CASE t \in Vanished /\ t \notin Created \union Reappeared
      <4>1. /\ findings'[t].status = Resolved /\ findings'[t].dated = TRUE
            /\ PassEntries(t) = << Entry(Active, Resolved) >>
            /\ findings[t].id # 0 /\ findings[t].id = pass.loaded[t].id
        BY <1>0, <1>4, <3>1, <3>4, ReconciledRow
      <4>2. findings[t].status = Active
        <5>1. pass.loaded[t].status = Active
          BY <3>4 DEF Vanished
        <5>2. QED  BY <3>1, <4>1, <5>1, RowFacts
      <4>3. Entry(Active, Resolved) \in EntryRecords /\ Entry(Active, Resolved).from = Active
        BY DEF Entry, EntryRecords, Statuses
      <4>4. QED  BY <3>2, <4>1, <4>2, <4>3 DEF Consistent
    <3>5. CASE t \notin Created \union Reappeared \union Vanished
      <4>1. findings'[t] = findings[t] /\ PassEntries(t) = << >>
        BY <1>0, <1>4, <3>1, <3>5, ReconciledRow
      <4>2. history'[t] = history[t]
        BY <3>1, <4>1, ConcatEmptySeq
      <4>3. QED  BY <3>1, <4>1, <4>2
    <3>6. QED  BY <3>3, <3>4, <3>5
  <2>4. QED  BY <1>2, <2>2, <2>3 DEF InTurn
<1>5. QED  BY <1>3, <1>4

\* When one actor works at a time, a change of status continues the history.
LEMMA StatusStepsInTurn ==
  ASSUME Typed, HistoryTellsStatus, InTurn, RequestSave \/ VerifySave
  PROVE  InTurn'
<1>1. UNCHANGED <<rules, pass, purge, purgeRequested>>
  BY DEF RequestSave, VerifySave
<1>2. pass = Idle /\ purge = Idle /\ request' = Idle /\ verify' = Idle
  <2>1. CASE RequestSave
    BY <2>1 DEF RequestSave, InTurn, OneAtATime
  <2>2. CASE VerifySave
    <3>1. verify # Idle
      BY <2>2, IdlePhase DEF VerifySave
    <3>2. QED  BY <2>2, <3>1 DEF VerifySave, InTurn, OneAtATime
  <2>3. QED  BY <2>1, <2>2
<1>3. OneAtATime' /\ UpToDate'
  BY <1>1, <1>2, IdlePhase DEF OneAtATime, UpToDate
<1>4. Purged'
  <2>1. \A u \in Targets : findings'[u].id = findings[u].id
    BY StatusSteps
  <2>2. \A u \in Targets : findings[u] \in FindingRows /\ findings'[u] \in FindingRows
    BY StatusSteps DEF Typed
  <2>3. \A u \in Targets : Exists(findings'[u]) <=> Exists(findings[u])
    BY <2>1, <2>2, RowFacts
  <2>4. QED  BY <1>1, <2>3 DEF InTurn, Purged
<1>5. \A t \in Targets : Consistent(findings'[t], history'[t])
  <2>1. CASE UNCHANGED <<findings, history>>
    BY <2>1, RestInTurn
  <2>2. CASE RequestSave
    <3>1. /\ request.target \in Targets /\ request.loaded \in Kept /\ request.to \in {Active, Ignored}
          /\ SaveStatus(request.target, request.loaded, request.to)
          /\ findings[request.target] = request.loaded
      BY <2>2, ActorFacts DEF RequestSave, InTurn, UpToDate
    <3>2. QED  BY <3>1, StatusInTurn DEF InTurn
  <2>3. CASE VerifySave /\ SaveStatus(verify.target, verify.loaded, Resolved)
    <3>1. verify.phase = "gone" /\ verify # Idle
      BY <2>3, IdlePhase DEF VerifySave
    <3>2. /\ verify.target \in Targets /\ verify.loaded \in Kept
          /\ findings[verify.target] = verify.loaded
      BY <3>1, ActorFacts DEF InTurn, UpToDate
    <3>3. QED  BY <2>3, <3>2, StatusInTurn DEF InTurn
  <2>4. QED  BY <2>1, <2>2, <2>3 DEF VerifySave
<1>6. QED  BY <1>3, <1>4, <1>5 DEF InTurn

\* When one actor works at a time, the other steps touch no row that is loaded.
LEMMA OthersInTurn ==
  ASSUME Typed, InTurn, Exclusive,
         RequestLoad \/ VerifyLoad \/ VerifyRun \/ EditRules \/ PurgeStart \/ PurgeLoad \/ WorldChange \/ Crash
  PROVE  InTurn'
<1>1. UNCHANGED <<findings, history>>
  BY OthersTyped
<1>2. CASE RequestLoad
  <2>1. /\ pass = Idle /\ request = Idle /\ verify = Idle /\ purge = Idle
        /\ UNCHANGED <<rules, pass, verify, purge, purgeRequested>>
    BY <1>2 DEF RequestLoad, MayStart
  <2>2. findings[request'.target] = request'.loaded
    BY <1>2 DEF RequestLoad
  <2>3. OneAtATime' /\ UpToDate' /\ Purged'
    BY <1>1, <2>1, <2>2, IdlePhase DEF InTurn, OneAtATime, UpToDate, Purged
  <2>4. QED  BY <1>1, <2>3, RestInTurn DEF InTurn
<1>3. CASE VerifyLoad
  <2>1. /\ pass = Idle /\ request = Idle /\ verify = Idle /\ purge = Idle
        /\ UNCHANGED <<rules, pass, request, purge, purgeRequested>>
    BY <1>3 DEF VerifyLoad, MayStart
  <2>2. findings[verify'.target] = verify'.loaded
    BY <1>3 DEF VerifyLoad
  <2>3. OneAtATime' /\ UpToDate' /\ Purged'
    BY <1>1, <2>1, <2>2, IdlePhase DEF InTurn, OneAtATime, UpToDate, Purged
  <2>4. QED  BY <1>1, <2>3, RestInTurn DEF InTurn
<1>4. CASE VerifyRun
  <2>1. verify # Idle /\ UNCHANGED <<rules, pass, request, purge, purgeRequested>>
    BY <1>4, IdlePhase DEF VerifyRun
  <2>2. verify' = Idle \/ (verify'.target = verify.target /\ verify'.loaded = verify.loaded)
    BY <1>4 DEF VerifyRun
  <2>3. OneAtATime' /\ UpToDate' /\ Purged'
    BY <1>1, <2>1, <2>2 DEF InTurn, OneAtATime, UpToDate, Purged
  <2>4. QED  BY <1>1, <2>3, RestInTurn DEF InTurn
<1>5. CASE EditRules
  <2>1. /\ pass = Idle /\ request = Idle /\ verify = Idle /\ purge = Idle
        /\ UNCHANGED <<pass, request, verify, purge>> /\ purgeRequested' = TRUE
    BY <1>5 DEF EditRules, MayStart
  <2>2. OneAtATime' /\ UpToDate' /\ Purged'
    BY <2>1, IdlePhase DEF OneAtATime, UpToDate, Purged
  <2>3. QED  BY <1>1, <2>2, RestInTurn DEF InTurn
<1>6. CASE PurgeStart
  <2>1. /\ pass = Idle /\ request = Idle /\ verify = Idle
        /\ UNCHANGED <<rules, pass, request, verify>>
        /\ \/ rules = {} /\ purge' = Idle
           \/ purge'.known = rules /\ purge' # Idle
    <3>1. [phase |-> "started", known |-> rules] # Idle
      BY DEF Idle
    <3>2. QED  BY <1>6, <3>1 DEF PurgeStart, MayStart
  <2>2. purge'.phase # "loaded"
    BY <1>6, IdlePhase DEF PurgeStart
  <2>3. OneAtATime' /\ UpToDate' /\ Purged'
    BY <1>1, <2>1, <2>2, IdlePhase DEF OneAtATime, UpToDate, Purged
  <2>4. QED  BY <1>1, <2>3, RestInTurn DEF InTurn
<1>7. CASE PurgeLoad
  <2>1. purge # Idle /\ UNCHANGED <<rules, pass, request, verify, purgeRequested>>
    BY <1>7, ActorFacts DEF PurgeLoad
  <2>2. pass = Idle /\ request = Idle /\ verify = Idle /\ purge.known = rules
    BY <2>1 DEF InTurn, OneAtATime, UpToDate
  <2>3. \/ purge' = Idle /\ Orphans = {}
        \/ /\ purge' = [phase |-> "loaded", known |-> purge.known, orphans |-> Orphans]
           /\ purge' # Idle
    BY <1>7 DEF PurgeLoad, Idle
  <2>4. OneAtATime' /\ UpToDate' /\ Purged'
    BY <1>1, <2>1, <2>2, <2>3, IdlePhase DEF OneAtATime, UpToDate, Purged, Orphans
  <2>5. QED  BY <1>1, <2>4, RestInTurn DEF InTurn
<1>8. CASE WorldChange
  <2>1. UNCHANGED <<rules, pass, request, verify, purge, purgeRequested>>
    BY <1>8 DEF WorldChange
  <2>2. OneAtATime' /\ UpToDate' /\ Purged'
    BY <1>1, <2>1 DEF InTurn, OneAtATime, UpToDate, Purged
  <2>3. QED  BY <1>1, <2>2, RestInTurn DEF InTurn
<1>9. CASE Crash
  <2>1. /\ pass' = Idle /\ request' = Idle /\ verify' = Idle /\ purge' = Idle
        /\ purgeRequested' = TRUE
    BY <1>9 DEF Crash
  <2>2. OneAtATime' /\ UpToDate' /\ Purged'
    BY <2>1, IdlePhase DEF OneAtATime, UpToDate, Purged
  <2>3. QED  BY <1>1, <2>2, RestInTurn DEF InTurn
<1>10. QED  BY <1>2, <1>3, <1>4, <1>5, <1>6, <1>7, <1>8, <1>9

\* When one actor works at a time, the purge leaves no orphan.
LEMMA PurgeInTurn == ASSUME Typed, InTurn, PurgeCommit PROVE InTurn'
<1>1. /\ purge # Idle /\ purge.phase = "loaded" /\ purge' = Idle
      /\ UNCHANGED <<rules, pass, request, verify, purgeRequested>>
      /\ findings' = [t \in Targets |-> IF t \in purge.orphans THEN NoFinding ELSE findings[t]]
      /\ history' = [t \in Targets |-> IF t \in purge.orphans THEN << >> ELSE history[t]]
  BY ActorFacts DEF PurgeCommit
<1>2. pass = Idle /\ request = Idle /\ verify = Idle /\ purge.known = rules
  BY <1>1 DEF InTurn, OneAtATime, UpToDate
<1>3. OneAtATime' /\ UpToDate'
  BY <1>1, <1>2, IdlePhase DEF OneAtATime, UpToDate
<1>4. ~Exists(NoFinding)
  BY RowFacts DEF Exists
<1>5. Purged'
  BY <1>1, <1>2, <1>4 DEF InTurn, UpToDate, Purged
<1>6. \A t \in Targets : Consistent(findings'[t], history'[t])
  <2>1. Consistent(NoFinding, << >>)
    BY <1>4 DEF Consistent
  <2>2. QED  BY <1>1, <2>1 DEF InTurn
<1>7. QED  BY <1>3, <1>5, <1>6 DEF InTurn

\* The invariant of the exclusive setups holds in every state.
LEMMA InTurnInvariant == Spec => [](Exclusive => InTurn)
<1>1. Init => InTurn
  <2> SUFFICES ASSUME Init
               PROVE  InTurn
    OBVIOUS
  <2>1. OneAtATime /\ UpToDate
    BY IdlePhase DEF Init, OneAtATime, UpToDate
  <2>2. ~Exists(NoFinding)
    BY RowFacts DEF Exists
  <2>3. Consistent(NoFinding, << >>)
    BY <2>2 DEF Consistent
  <2>4. QED  BY <2>1, <2>2, <2>3 DEF Init, InTurn, Purged
<1>2. ASSUME Typed, HistoryTellsStatus, SpentTyped, Exclusive => InTurn, [Next]_vars, Exclusive'
      PROVE  InTurn'
  <2>0. Exclusive /\ InTurn
    BY <1>2, SpentSteps DEF Exclusive
  <2>1. CASE PassStart \/ PassLoad \/ PassAbort \/ PassPublish \/ \E executed \in SUBSET Rules : PassRun(executed)
    BY <1>2, <2>0, <2>1, PassInTurn
  <2>2. CASE PassSave
    BY <1>2, <2>0, <2>2, PassSaveInTurn
  <2>3. CASE RequestSave \/ VerifySave
    BY <1>2, <2>0, <2>3, StatusStepsInTurn
  <2>4. CASE RequestLoad \/ VerifyLoad \/ VerifyRun \/ EditRules \/ PurgeStart \/ PurgeLoad \/ WorldChange \/ Crash
    BY <1>2, <2>0, <2>4, OthersInTurn
  <2>5. CASE PurgeCommit
    BY <1>2, <2>0, <2>5, PurgeInTurn
  <2>6. CASE UNCHANGED vars
    BY <2>0, <2>6 DEF vars, InTurn, OneAtATime, UpToDate, Purged
  <2>7. QED  BY <1>2, <2>1, <2>2, <2>3, <2>4, <2>5, <2>6 DEF Next
<1>3. Init => SpentTyped
  BY DEF Init, SpentTyped
<1>4. (Typed /\ HistoryTellsStatus) /\ (SpentTyped /\ (Exclusive => InTurn)) /\ [Next]_vars
        => (SpentTyped /\ (Exclusive => InTurn))'
  BY <1>2, SpentSteps
<1>5. QED  BY <1>1, <1>3, <1>4, TypedInvariant, PTL DEF Spec

\* Actors served one at a time leave each finding dated exactly when it is resolved, and
\* its history a chain.
THEOREM HistoryIsAChain == Spec => []HistoryIsConsistent
<1>1. (Exclusive => InTurn) => HistoryIsConsistent
  BY DEF InTurn, Consistent, HistoryIsConsistent
<1>2. QED  BY <1>1, InTurnInvariant, PTL

\* The findings of a rule that no longer exists are on their way out.
THEOREM OrphansGo == Spec => []NoLastingOrphan
<1>1. (Exclusive => InTurn) => NoLastingOrphan
  BY DEF InTurn, Purged, NoLastingOrphan
<1>2. QED  BY <1>1, InTurnInvariant, PTL
\* No step of a pass moves an ignored finding when it is alone: the row it loaded is the
\* row it saves over, and an ignored one neither vanishes nor comes back.
LEMMA IgnoredInTurn ==
  ASSUME Typed, HistoryTellsStatus, InTurn, Exclusive, [Next]_vars, NEW t \in Targets
  PROVE  ~PassMovesIgnored(t)
<1> SUFFICES ASSUME findings[t].status = Ignored, findings'[t].status \in {Active, Resolved},
                    request' = request, verify' = verify
             PROVE  FALSE
  BY DEF PassMovesIgnored
<1>1. Ignored # Active /\ Ignored # Resolved /\ Ignored # Absent /\ Absent \notin {Active, Resolved}
  BY DEF Ignored, Active, Resolved, Absent
<1>2. findings # findings'
  BY <1>1
<1>3. CASE PassSave
  <2>1. pass.phase = "loaded" /\ ~SaveRefused /\ findings' = [u \in Targets |-> Reconciled(u)]
    BY <1>2, <1>3 DEF PassSave
  <2>2. findings[t] \in FindingRows /\ pass.loaded[t] \in {findings[t], NoFinding}
    BY <2>1 DEF Typed, InTurn, UpToDate
  <2>3. findings[t].id # 0 /\ findings[t] # NoFinding /\ NoFinding.id = 0 /\ NoFinding.status = Absent
    BY <1>1, <2>2, RowFacts
  <2>4. pass.loaded[t].status \notin {Active, Resolved}
    BY <1>1, <2>2, <2>3
  <2>5. t \notin Created
    BY <2>1, <2>2, <2>3, RowFacts DEF SaveRefused
  <2>6. t \notin Reappeared /\ t \notin Vanished
    BY <2>4 DEF Reappeared, Vanished
  <2>7. findings'[t] = findings[t]
    BY <2>1, <2>5, <2>6, ReconciledRow
  <2>8. QED  BY <1>1, <2>7
<1>4. CASE PurgeCommit
  <2>1. findings'[t] \in {findings[t], NoFinding}
    BY <1>4 DEF PurgeCommit
  <2>2. QED  BY <1>1, <2>1, RowFacts
<1>5. CASE RequestSave
  BY <1>5 DEF RequestSave
<1>6. CASE VerifySave
  <2>1. verify # Idle
    BY <1>6, IdlePhase DEF VerifySave
  <2>2. QED  BY <1>6, <2>1 DEF VerifySave
<1>7. CASE RequestLoad \/ VerifyLoad \/ VerifyRun \/ EditRules \/ PurgeStart \/ PurgeLoad \/ WorldChange \/ Crash
  BY <1>2, <1>7, OthersTyped
<1>8. CASE PassStart \/ PassLoad \/ PassAbort \/ PassPublish \/ \E executed \in SUBSET Rules : PassRun(executed)
  BY <1>2, <1>8 DEF PassStart, PassLoad, PassAbort, PassPublish, PassRun
<1>9. CASE UNCHANGED vars
  BY <1>2, <1>9 DEF vars
<1>10. QED  BY <1>3, <1>4, <1>5, <1>6, <1>7, <1>8, <1>9 DEF Next

\* "Un finding ignore reste ignore", of actors served one at a time: a pass never moves a
\* finding that the operator ignored.
THEOREM IgnoredStays == Spec => IgnoredStaysIgnoredInTurn
<1>1. /\ Typed /\ HistoryTellsStatus /\ (Exclusive => InTurn) /\ [Next]_vars
        => [Exclusive => \A t \in Targets : ~PassMovesIgnored(t)]_vars
  BY IgnoredInTurn
<1>2. QED  BY <1>1, TypedInvariant, InTurnInvariant, PTL DEF Spec, IgnoredStaysIgnoredInTurn

-----------------------------------------------------------------------------
(* What a pass resolves. *)

\* What a pass holds agrees with the database it observed, as far as its rules went: it
\* reports all that was there unless the limit cut it, and has read no finding of another rule.
Observed ==
  /\ pass.phase \in {"ran", "loaded"} =>
       \A t \in Targets :
         RuleOf[t] \in pass.executed /\ ~Cut(RuleOf[t], pass.world) => pass.reported[t] = pass.world[t]
  /\ pass.phase = "loaded" =>
       \A t \in Targets : RuleOf[t] \notin pass.executed => pass.loaded[t] = NoFinding

\* The pass alone changes what it holds, and forgets it when it ends.
LEMMA ObservedKept == Typed /\ Observed /\ [Next]_vars => Observed'
<1> SUFFICES ASSUME Typed, Observed, [Next]_vars PROVE Observed'
  OBVIOUS
<1>1. CASE pass' = pass
  BY <1>1 DEF Observed
<1>2. CASE pass' = Idle
  BY <1>2, IdlePhase DEF Observed
<1>3. CASE PassStart
  <2>1. pass' = [phase |-> "started"]
    BY <1>3 DEF PassStart
  <2>2. pass'.phase = "started"
    BY <2>1
  <2>3. QED  BY <2>2 DEF Observed
<1>4. CASE \E executed \in SUBSET Rules : PassRun(executed)
  <2>1. PICK executed \in SUBSET Rules : PassRun(executed)
    BY <1>4
  <2>2. CASE executed = {}
    BY <1>2, <2>1, <2>2 DEF PassRun
  <2>3. CASE executed # {}
    <3>1. PICK reported \in Reports(executed) :
            pass' = [phase |-> "ran", executed |-> executed, reported |-> reported, world |-> world]
      BY <2>1, <2>3 DEF PassRun
    <3>2. /\ pass'.phase = "ran" /\ pass'.executed = executed
          /\ pass'.reported = reported /\ pass'.world = world
      BY <3>1
    <3>3. \A t \in Targets : RuleOf[t] \in executed /\ ~Cut(RuleOf[t], world) => reported[t] = world[t]
      BY DEF Reports
    <3>4. QED  BY <3>2, <3>3 DEF Observed
  <2>4. QED  BY <2>2, <2>3
<1>5. CASE PassLoad
  <2>1. /\ pass'.phase = "loaded" /\ pass'.executed = pass.executed
        /\ pass'.reported = pass.reported /\ pass'.world = pass.world
        /\ pass'.loaded = [t \in Targets |-> IF RuleOf[t] \in pass.executed THEN findings[t] ELSE NoFinding]
    BY <1>5 DEF PassLoad
  <2>2. pass.phase = "ran"
    BY <1>5 DEF PassLoad
  <2>3. QED  BY <2>1, <2>2 DEF Observed
<1>6. CASE PassSave
  <2>1. CASE SaveRefused
    BY <1>2, <1>6, <2>1 DEF PassSave
  <2>2. CASE ~SaveRefused
    <3>1. pass'.phase = "saved"
      BY <1>6, <2>2 DEF PassSave
    <3>2. QED  BY <3>1 DEF Observed
  <2>3. QED  BY <2>1, <2>2
<1>7. CASE PassPublish \/ PassAbort \/ Crash
  BY <1>2, <1>7 DEF PassPublish, PassAbort, Crash
<1>8. CASE \/ RequestLoad \/ RequestSave \/ VerifyLoad \/ VerifyRun \/ VerifySave
           \/ EditRules \/ PurgeStart \/ PurgeLoad \/ PurgeCommit \/ WorldChange
  BY <1>1, <1>8 DEF RequestLoad, RequestSave, VerifyLoad, VerifyRun, VerifySave, EditRules, PurgeStart,
                    PurgeLoad, PurgeCommit, WorldChange
<1>9. CASE UNCHANGED vars
  BY <1>1, <1>9 DEF vars
<1>10. QED  BY <1>3, <1>4, <1>5, <1>6, <1>7, <1>8, <1>9 DEF Next

\* What the save of a pass resolves was active in what it read, and not reported.
LEMMA GoneInPass ==
  ASSUME Typed, Observed, [Next]_vars, pass.phase = "loaded", pass' # pass,
         NEW t \in Targets, BecomesResolved(t)
  PROVE  RuleOf[t] \in pass.executed /\ (Cut(RuleOf[t], pass.world) \/ pass.world[t] = 0)
<1>1. findings' # findings
  BY DEF BecomesResolved
<1>2. PassSave
  <2>1. ~(PassStart \/ PassLoad \/ PassAbort \/ PassPublish \/ \E executed \in SUBSET Rules : PassRun(executed))
    BY <1>1 DEF PassStart, PassLoad, PassAbort, PassPublish, PassRun
  <2>2. ~(RequestLoad \/ VerifyLoad \/ VerifyRun \/ EditRules \/ PurgeStart \/ PurgeLoad \/ WorldChange \/ Crash)
    BY <1>1, OthersTyped
  <2>3. ~(RequestSave \/ VerifySave \/ PurgeCommit)
    BY DEF RequestSave, VerifySave, PurgeCommit
  <2>4. QED  BY <1>1, <2>1, <2>2, <2>3 DEF Next, vars
<1>3. ~SaveRefused /\ findings' = [u \in Targets |-> Reconciled(u)]
  BY <1>1, <1>2 DEF PassSave
<1>4. t \in Vanished
  <2>1. findings'[t] = Reconciled(t) /\ Active # Resolved
    BY <1>3 DEF Active, Resolved
  <2>2. QED  BY <1>3, <2>1, ReconciledRow DEF BecomesResolved
<1>5. pass.loaded[t].status = Active /\ ~(pass.reported[t] > 0)
  BY <1>4 DEF Vanished, Seen
<1>6. RuleOf[t] \in pass.executed
  BY <1>5, RowFacts DEF Observed, Active, Absent
<1>7. pass.reported[t] = 0
  <2>1. pass.reported \in [Targets -> 0..MaxRows]
    BY DEF Typed, PassRecords, Idle
  <2>2. QED  BY <1>5, <2>1, BoundsAssumption
<1>8. QED  BY <1>6, <1>7 DEF Observed

\* A pass resolves only what was gone when its own rule ran, whatever rules failed beside it
\* and whatever the others did meanwhile; but for what the limit of the rule cut off.
THEOREM OnlyGoneGoes == Spec => OnlyGoneIsResolved
<1>1. Init => Observed
  BY IdlePhase DEF Init, Observed
<1>2. Typed /\ Observed /\ [Next]_vars => Observed'
  BY ObservedKept
<1>3. Typed /\ Observed /\ [Next]_vars
        => [\A t \in Targets :
              (BecomesResolved(t) /\ pass.phase = "loaded" /\ pass' # pass) =>
                 RuleOf[t] \in pass.executed /\ (Cut(RuleOf[t], pass.world) \/ pass.world[t] = 0)]_vars
  BY GoneInPass
<1>4. QED  BY <1>1, <1>2, <1>3, TypedInvariant, PTL DEF Spec, OnlyGoneIsResolved
=============================================================================
