--------------------------- MODULE ServicesTypeProofs --------------------------
(***************************************************************************)
(* The services hold what the code declares them to hold, for any number   *)
(* of processes, rows and calls: what the invariants of the parts leave of *)
(* their types, and the types of all of them.                              *)
(***************************************************************************)
EXTENDS OperatorProofs, ServicesProofs

-----------------------------------------------------------------------------
(* The coding phase and the migrations                                     *)

\* What was tested and what was pushed are trees of files.
TreesAreTyped ==
    /\ tested = <<>> \/ tested \in [Files -> Version]
    /\ branch = <<>> \/ branch \in [Files -> Version]

LEMMA TreesStep ==
    ASSUME TreesAreTyped, PhaseIsSound, [CodingNext]_codingVars
    PROVE  TreesAreTyped'
<1>1. workspace \in [Files -> Version]
  BY DEF PhaseIsSound
<1>2. {0, Old} \subseteq Version
  BY CodingAssumption DEF Version
<1>3. CASE UNCHANGED <<tested, branch>>
  BY <1>3 DEF TreesAreTyped
<1>4. ASSUME NEW m \in Minutes, Test(m) PROVE TreesAreTyped'
  BY <1>1, <1>4 DEF Test, TreesAreTyped
<1>5. CASE CommitAndPush
  <2>1. ASSUME NEW differs \in SUBSET Files,
               branch' = Committed([f \in Files |-> IF f \in differs THEN Old ELSE Checkout[f]])
        PROVE  branch' \in [Files -> Version]
    <3> DEFINE base == [f \in Files |-> IF f \in differs THEN Old ELSE Checkout[f]]
    <3>1. base \in [Files -> Version]
      BY <1>2 DEF Checkout
    <3> HIDE DEF base
    <3>2. Committed(base) \in [Files -> Version]
      BY <1>1, <3>1 DEF Committed
    <3> QED
      BY <2>1, <3>2 DEF base
  <2> QED
    BY <1>5, <2>1 DEF CommitAndPush, TreesAreTyped
<1>6. CASE UNCHANGED codingVars
  BY <1>3, <1>6 DEF codingVars
<1>7. ASSUME NEW authored \in SUBSET Files \ {{}}, NEW m \in Minutes, Author(authored, m)
      PROVE  UNCHANGED <<tested, branch>>
  BY <1>7 DEF Author
<1>8. CASE NextIteration \/ Finish
  BY <1>3, <1>8 DEF NextIteration, Finish
<1> QED
  BY <1>3, <1>4, <1>5, <1>6, <1>7, <1>8 DEF CodingNext

\* The latest file came from a checkout, and processes hold the lock.
LockIsTyped == lastFrom \in FileSet /\ holders \subseteq Migrators

LEMMA LockStep ==
    ASSUME LockIsTyped, MigrateInv, [MigrateNext]_migrateVars
    PROVE  LockIsTyped'
<1>1. \A m \in Migrators : migrator[m].files \in FileSet
  BY DEF MigrateInv, Migrator
<1>2. CASE UNCHANGED <<lastFrom, holders>>
  BY <1>2 DEF LockIsTyped
<1>3. ASSUME NEW m \in Migrators,
             StartMigrate(m) \/ PlanMigrate(m) \/ EnsureTable(m) \/ Replan(m) \/ ApplyEnds(m)
      PROVE  UNCHANGED <<lastFrom, holders>>
  BY <1>3 DEF StartMigrate, PlanMigrate, EnsureTable, Replan, ApplyEnds
<1>4. ASSUME NEW m \in Migrators, TakeLock(m) \/ Unlock(m) \/ LoseSession(m)
      PROVE  LockIsTyped'
  BY <1>4 DEF TakeLock, Unlock, LoseSession, LockIsTyped
<1>5. ASSUME NEW m \in Migrators, ApplyFile(m)
      PROVE  LockIsTyped'
  BY <1>1, <1>5 DEF ApplyFile, LockIsTyped
<1>6. CASE UNCHANGED migrateVars
  BY <1>2, <1>6 DEF migrateVars
<1> QED
  BY <1>2, <1>3, <1>4, <1>5, <1>6 DEF MigrateNext

-----------------------------------------------------------------------------
(* Bounds                                                                  *)

\* Stores are opened, and runs moved, no more often than the model lets them.
TurnsAreBounded == openings \in 0..MaxOpenings /\ moves \in 0..MaxMoves

LEMMA OpeningsStep ==
    ASSUME openings \in 0..MaxOpenings, [StartNext]_startVars
    PROVE  openings' \in 0..MaxOpenings
<1>1. MaxOpenings \in Nat
  BY StartAssumption
<1>2. ASSUME NEW p \in Openers, OpenStore(p) PROVE openings' \in 0..MaxOpenings
  BY <1>1, <1>2 DEF OpenStore
<1>3. ASSUME NEW p \in Openers,
             \/ SelectLosers(p) \/ UpdateLosers(p) \/ RecordLoser(p) \/ CreateClaim(p)
             \/ CheckColumns(p) \/ AddColumn(p) \/ Opened(p) \/ FailToOpen(p) \/ Restart(p)
      PROVE  openings' = openings
  BY <1>3 DEF SelectLosers, UpdateLosers, RecordLoser, CreateClaim, CheckColumns, AddColumn,
     Opened, FailToOpen, Restart
<1>4. ASSUME NEW n \in OldRuns, AcceptWhileOpening(n) \/ EndWhileOpening(n)
      PROVE  openings' = openings
  BY <1>4 DEF AcceptWhileOpening, EndWhileOpening
<1>5. CASE UNCHANGED startVars
  BY <1>5 DEF startVars
<1> QED
  BY <1>2, <1>3, <1>4, <1>5 DEF StartNext

\* A move of the board is counted while somebody reads.
LEMMA BoardMovesIs ==
    ASSUME moves \in 0..MaxMoves, BoardMoves
    PROVE  moves' \in 0..MaxMoves
BY ReadsAssumption DEF BoardMoves

LEMMA MovesStep ==
    ASSUME moves \in 0..MaxMoves, [ListNext]_listVars
    PROVE  moves' \in 0..MaxMoves
<1>1. ASSUME NEW r \in Rows, AcceptRow(r) \/ EndRow(r) PROVE moves' \in 0..MaxMoves
  BY <1>1, BoardMovesIs DEF AcceptRow, EndRow
<1>2. ASSUME NEW v \in Viewers, AskFirst(v) \/ AskNext(v) \/ ReadPage(v) \/ ReadFails(v)
      PROVE  moves' = moves
  BY <1>2 DEF AskFirst, AskNext, ReadPage, ReadFails
<1>3. CASE UNCHANGED listVars
  BY <1>3 DEF listVars
<1> QED
  BY <1>1, <1>2, <1>3 DEF ListNext

LEMMA TurnsStep ==
    ASSUME TurnsAreBounded, [StartNext]_startVars, [ListNext]_listVars
    PROVE  TurnsAreBounded'
BY OpeningsStep, MovesStep DEF TurnsAreBounded

-----------------------------------------------------------------------------
(* The versions of the tuned surface                                       *)

\* The places of a cycle that has staged nothing yet.
Unstaged == {"idle", "propose", "gate", "measure", "stage"}
HasStaged == {c \in Cycles : cycle[c].at \notin Unstaged}

\* A version for each cycle that has staged, and the first; a restart forgets
\* some, a cycle never stages twice.
VersionsAreCounted == version \in Nat \ {0} /\ version <= 1 + Cardinality(HasStaged)

LEMMA StagedIsFinite ==
    /\ IsFiniteSet(HasStaged) /\ Cardinality(HasStaged) \in Nat
    /\ IsFiniteSet(HasStaged') /\ Cardinality(HasStaged') \in Nat
<1>1. HasStaged \subseteq Cycles /\ HasStaged' \subseteq Cycles
  BY DEF HasStaged
<1> QED
  BY <1>1, CyclesAssumption, FS_Subset, FS_CardinalityType

\* Who has staged has staged for good.
LEMMA StagedStays ==
    ASSUME VersionsAreCounted, version' = version, HasStaged \subseteq HasStaged'
    PROVE  VersionsAreCounted'
<1>1. /\ IsFiniteSet(HasStaged) /\ Cardinality(HasStaged) \in Nat
      /\ IsFiniteSet(HasStaged') /\ Cardinality(HasStaged') \in Nat
  BY StagedIsFinite
<1>2. Cardinality(HasStaged) <= Cardinality(HasStaged')
  BY <1>1, FS_Subset
<1> QED
  BY <1>1, <1>2 DEF VersionsAreCounted

LEMMA OneCycleMoves ==
    ASSUME VersionsAreCounted, version' = version, NEW c \in Cycles,
           \A d \in Cycles : d # c => cycle'[d] = cycle[d],
           cycle[c].at \in Unstaged \/ cycle'[c].at \notin Unstaged
    PROVE  VersionsAreCounted'
<1>1. HasStaged \subseteq HasStaged'
  BY DEF HasStaged
<1> QED
  BY <1>1, StagedStays

LEMMA VersionsCountStep ==
    ASSUME VersionsAreCounted, LoopTypes, [ImproveNext]_improveVars
    PROVE  VersionsAreCounted'
<1>0. \A c \in Cycles : cycle[c] \in CycleRecord
  BY DEF LoopTypes
<1>1. CASE UNCHANGED improveVars \/ IntervalPasses
  <2>1. version' = version /\ cycle' = cycle
    BY <1>1 DEF improveVars, IntervalPasses
  <2> QED
    BY <2>1, StagedStays DEF HasStaged
<1>2. ASSUME NEW c \in Cycles, NEW yes \in BOOLEAN, Fire(c, yes) \/ Gate(c, yes)
      PROVE  VersionsAreCounted'
  <2>1. cycle[c].at \in Unstaged /\ version' = version
    BY <1>2 DEF Fire, Gate, Unstaged
  <2>2. \A d \in Cycles : d # c => cycle'[d] = cycle[d]
    BY <1>2 DEF LoopTypes, Fire, Gate, MoveCycle
  <2> QED
    BY <2>1, <2>2, OneCycleMoves
<1>3. ASSUME NEW c \in Cycles, NEW h \in TaskHistories, NEW tripped \in BOOLEAN,
             Propose(c, h, tripped)
      PROVE  VersionsAreCounted'
  <2>1. cycle[c].at \in Unstaged /\ version' = version
    BY <1>3 DEF Propose, Unstaged
  <2>2. \A d \in Cycles : d # c => cycle'[d] = cycle[d]
    BY <1>3 DEF LoopTypes, Propose, MoveCycle
  <2> QED
    BY <2>1, <2>2, OneCycleMoves
<1>4. ASSUME NEW c \in Cycles, NEW reading \in Measures, MeasureBefore(c, reading)
      PROVE  VersionsAreCounted'
  <2>1. cycle[c].at \in Unstaged /\ version' = version
    BY <1>4 DEF MeasureBefore, Unstaged
  <2>2. \A d \in Cycles : d # c => cycle'[d] = cycle[d]
    BY <1>4 DEF LoopTypes, MeasureBefore, Abandon
  <2> QED
    BY <2>1, <2>2, OneCycleMoves
<1>5. ASSUME NEW c \in Cycles, NEW reading \in Measures, Decide(c, reading)
      PROVE  VersionsAreCounted'
  <2>1. PICK m \in {Garbled, MeasureOf(live)}, v \in {"accept", "reject"} :
             Becomes(c, [cycle[c] EXCEPT !.verdict = v, !.after = m,
                              !.at = IF v = "accept" THEN "record" ELSE "restore"])
    BY <1>5, DecideIs
  <2>2. cycle'[c].at \in {"record", "restore"} /\ version' = version
    BY <1>0, <1>5, <2>1 DEF Becomes, CycleRecord, Decide
  <2> QED
    BY <2>1, <2>2, OneCycleMoves DEF Becomes, Unstaged
<1>6. ASSUME NEW c \in Cycles, Apply(c) \/ Revert(c) \/ RecordVerdict(c) \/ Mark(c)
      PROVE  VersionsAreCounted'
  <2>1. version' = version
    BY <1>6 DEF Apply, Revert, RecordVerdict, Mark
  <2>2. /\ \A d \in Cycles : d # c => cycle'[d] = cycle[d]
        /\ cycle'[c].at \in {"trial", "persist", "record", "mark", "done"}
    <3>1. ASSUME Abandon(c)
          PROVE  /\ \A d \in Cycles : d # c => cycle'[d] = cycle[d]
                 /\ cycle'[c].at = "done"
      BY <3>1 DEF Abandon, LoopTypes, IdleCycle
    <3>2. ASSUME NEW to, MoveCycle(c, to)
          PROVE  /\ \A d \in Cycles : d # c => cycle'[d] = cycle[d]
                 /\ cycle'[c].at = to
      BY <1>0, <3>2 DEF MoveCycle, LoopTypes, CycleRecord
    <3>3. CASE Apply(c)
      BY <3>1, <3>2, <3>3 DEF Apply, Persist
    <3>4. CASE Revert(c)
      BY <3>1, <3>2, <3>4 DEF Revert, Persist
    <3>5. CASE RecordVerdict(c)
      BY <3>1, <3>2, <3>5 DEF RecordVerdict
    <3>6. CASE Mark(c)
      BY <3>1, <3>6 DEF Mark, LoopTypes, IdleCycle
    <3> QED
      BY <1>6, <3>3, <3>4, <3>5, <3>6
  <2> QED
    BY <2>1, <2>2, OneCycleMoves DEF Unstaged
<1>7. ASSUME NEW c \in Cycles, Stage(c) PROVE VersionsAreCounted'
  <2>1. /\ \A d \in Cycles : d # c => cycle'[d] = cycle[d]
        /\ cycle'[c].at = "apply"
    BY <1>7, StageIs DEF Becomes
  <2>2. c \notin HasStaged /\ HasStaged' = HasStaged \cup {c}
    BY <1>7, <2>1 DEF Stage, HasStaged, Unstaged
  <2>3. Cardinality(HasStaged') = Cardinality(HasStaged) + 1
    BY <2>2, StagedIsFinite, FS_AddElement
  <2>4. version' = version + 1
    BY <1>7 DEF Stage
  <2> QED
    BY <2>3, <2>4, StagedIsFinite DEF VersionsAreCounted
<1>8. CASE ImproveRestart
  <2>1. version' = 1
    BY <1>8 DEF ImproveRestart
  <2>2. Cardinality(HasStaged') \in Nat
    BY StagedIsFinite
  <2> QED
    BY <2>1, <2>2 DEF VersionsAreCounted
<1> QED
  BY <1>1, <1>2, <1>3, <1>4, <1>5, <1>6, <1>7, <1>8 DEF ImproveNext

LEMMA ImproveIsTyped ==
    ASSUME VersionsAreCounted, LoopTypes
    PROVE  ImproveTypeOK
<1>1. version \in 1..Cardinality(Cycles) + 1
  <2>1. HasStaged \subseteq Cycles
    BY DEF HasStaged
  <2>2. /\ Cardinality(HasStaged) <= Cardinality(Cycles)
        /\ Cardinality(Cycles) \in Nat /\ Cardinality(HasStaged) \in Nat
    BY <2>1, CyclesAssumption, FS_Subset, FS_CardinalityType, StagedIsFinite
  <2> QED
    BY <2>2 DEF VersionsAreCounted
<1> QED
  BY <1>1, ImproveAssumption DEF LoopTypes, ImproveTypeOK, CycleRecord, Places, ImproveEntry

-----------------------------------------------------------------------------
(* Prices                                                                  *)

\* The days and turns of the market, and where the check of the prices is.
DaysAreBounded ==
    /\ priceFloor.verifiedAt \in 0..LastDay /\ today \in 0..LastDay
    /\ marketTurns \in 0..MaxTurnsOfMarket
    /\ check.at \in {"idle", "fetch", "compare"} /\ check.exit \in {0, 1}
    /\ check.at = "idle" => check.observed = <<>>

LEMMA EndedCheckIs ==
    ASSUME NEW code \in {0, 1}
    PROVE  /\ Ended(code).at = "idle" /\ Ended(code).exit = code
           /\ Ended(code).observed = <<>>
BY DEF Ended

LEMMA DaysStep ==
    ASSUME DaysAreBounded, CheckIsFormed(check), [PricingNext]_pricingVars
    PROVE  DaysAreBounded'
<1>0. LastDay \in Nat /\ MaxTurnsOfMarket \in Nat
  BY PricingAssumption
<1>1. CASE UNCHANGED pricingVars
  BY <1>1 DEF pricingVars, DaysAreBounded
<1>2. ASSUME NEW m \in PricedModels, Reprice(m) \/ Ship(m) \/ Pin(m)
      PROVE  DaysAreBounded'
  BY <1>0, <1>2 DEF Reprice, Ship, Pin, Turn, DaysAreBounded
<1>3. CASE NextDay
  BY <1>0, <1>3 DEF NextDay, DaysAreBounded
<1>4. ASSUME check'.at \in {"idle", "fetch", "compare"}, check'.exit \in {0, 1},
             check'.at = "idle" => check'.observed = <<>>,
             UNCHANGED <<priceFloor, today, marketTurns>>
      PROVE  DaysAreBounded'
  BY <1>4 DEF DaysAreBounded
<1>5. CASE StartCheck
  <2>1. check'.at = "fetch" /\ check'.exit = 0
    BY <1>5 DEF StartCheck, Ended
  <2> QED
    BY <1>4, <1>5, <2>1 DEF StartCheck
<1>6. ASSUME NEW m \in PricedModels, Fetch(m) PROVE DaysAreBounded'
  <2>1. CASE check' = Ended(1)
    BY <1>4, <1>6, <2>1, EndedCheckIs DEF Fetch
  <2>2. CASE check' # Ended(1)
    <3>1. check'.at \in {"fetch", "compare"} /\ check'.exit = check.exit
      BY <1>6, <2>2 DEF Fetch, CheckIsFormed
    <3> QED
      BY <1>4, <1>6, <3>1 DEF Fetch, DaysAreBounded
  <2> QED
    BY <2>1, <2>2
<1>7. CASE FetchFails
  BY <1>4, <1>7, EndedCheckIs DEF FetchFails
<1>8. CASE Conclude
  <2>1. /\ check'.at = "idle" /\ check'.exit \in {0, 1} /\ check'.observed = <<>>
    BY <1>8, EndedCheckIs DEF Conclude
  <2>2. /\ priceFloor'.verifiedAt \in {today, priceFloor.verifiedAt}
        /\ UNCHANGED <<today, marketTurns>>
    BY <1>8 DEF Conclude
  <2> QED
    BY <2>1, <2>2 DEF DaysAreBounded
<1> QED
  BY <1>1, <1>2, <1>3, <1>5, <1>6, <1>7, <1>8 DEF PricingNext

\* What is adopted of a reading is an observation.
LEMMA CapRateIs ==
    ASSUME NEW r, IsReading(r)
    PROVE  CapRate(r) \in DearestObservation
<1>1. /\ Dearest(r) \in Nat /\ 3 * P90(r) \in Nat /\ Len(r) \in Nat
  BY RatesOf, ReadingRanks
<1> QED
  BY <1>1 DEF CapRate, DearestObservation, Rates, PRICE_OUTLIER_MULTIPLE

LEMMA PricesAreTyped ==
    ASSUME PricingInv, DaysAreBounded
    PROVE  PricingTypeOK
<1>1. \A m \in DOMAIN priceFloor.observed :
         m \in PricedModels /\ priceFloor.observed[m] \in DearestObservation
  BY CapRateIs DEF PricingInv
<1>2. DOMAIN check.observed \subseteq PricedModels
  BY DEF PricingInv, DaysAreBounded
<1> QED
  BY <1>1, <1>2 DEF PricingInv, DaysAreBounded, PricingTypeOK

-----------------------------------------------------------------------------
(* All of the types                                                        *)

\* What the invariants of the parts leave of the types.
TypesInv ==
    /\ part \in Parts
    /\ TreesAreTyped /\ LockIsTyped /\ TurnsAreBounded /\ VersionsAreCounted
    /\ DaysAreBounded

LEMMA TypesBegin ==
    ASSUME ServicesInit
    PROVE  TypesInv
<1>1. /\ part \in Parts /\ CodingInit /\ MigrateInit /\ StartInit /\ ListInit
      /\ ImproveInit /\ PricingInit
  BY DEF ServicesInit
<1>2. TreesAreTyped
  BY <1>1 DEF CodingInit, TreesAreTyped
<1>3. LockIsTyped
  BY <1>1, NoFilesIs DEF MigrateInit, LockIsTyped
<1>4. TurnsAreBounded
  BY <1>1, StartAssumption, ReadsAssumption DEF StartInit, ListInit, TurnsAreBounded
<1>5. VersionsAreCounted
  BY <1>1, StagedIsFinite DEF ImproveInit, VersionsAreCounted
<1>6. DaysAreBounded
  BY <1>1, PricingAssumption, EndedCheckIs DEF PricingInit, DaysAreBounded
<1> QED
  BY <1>1, <1>2, <1>3, <1>4, <1>5, <1>6 DEF TypesInv

LEMMA TypesStep ==
    ASSUME TypesInv, PartsInv, FiguresInv, [ServicesNext]_servicesVars
    PROVE  TypesInv'
<1>1. part' = part
  BY DEF ServicesNext, servicesVars
<1>2. TreesAreTyped'
  <2>1. CASE part = "coding" /\ CodingNext
    <3>1. PhaseIsSound
      BY <2>1 DEF PartsInv, BreakerPartInv, CodingInv
    <3> QED
      BY <2>1, <3>1, TreesStep DEF TypesInv
  <2>2. CASE UNCHANGED codingOnly
    BY <2>2 DEF codingOnly, TypesInv, TreesAreTyped
  <2> QED
    BY <2>1, <2>2, PartsMove
<1>3. LockIsTyped'
  BY LockStep, PartsMove DEF TypesInv, PartsInv
<1>4. TurnsAreBounded'
  BY TurnsStep, PartsMove, HistoryMoves DEF TypesInv
<1>5. VersionsAreCounted'
  BY VersionsCountStep, PartsMove DEF TypesInv, PartsInv, ImproveInv
<1>6. DaysAreBounded'
  BY DaysStep, FiguresMove DEF TypesInv, FiguresInv, PricingInv
<1> QED
  BY <1>1, <1>2, <1>3, <1>4, <1>5, <1>6 DEF TypesInv

\* Trees are made of files, the lock is held by processes, a version is staged
\* once per cycle and days pass within their bounds, whichever part moves.
THEOREM TypesAreKept == ServicesSpec => []TypesInv
BY TypesBegin, TypesStep, PartsKeepTheirInvariants, FiguresKeepTheirInvariants, PTL
   DEF ServicesSpec

LEMMA BreakerIsTyped == ASSUME BreakerInv PROVE BreakerTypeOK
BY DEF BreakerInv, BreakerTypeOK, EntryIsSound, TripsAreSound

LEMMA CodingIsTyped ==
    ASSUME BreakerInv, PhaseIsSound, TreesAreTyped
    PROVE  CodingTypeOK
BY BreakerIsTyped DEF PhaseIsSound, TreesAreTyped, CodingTypeOK

LEMMA MigrateIsTyped ==
    ASSUME MigrateInv, LockIsTyped
    PROVE  MigrateTypeOK
<1>1. \A i \in DOMAIN ran : ran[i] \in RanFile
  BY ElementOfSeq DEF MigrateInv
<1> QED
  BY <1>1 DEF MigrateInv, LockIsTyped, MigrateTypeOK, RanFile

LEMMA StartIsTyped ==
    ASSUME StartInv, openings \in 0..MaxOpenings
    PROVE  StartTypeOK
<1>1. Len(Upgrades) = 2
  BY DEF Upgrades
<1>2. ASSUME NEW p \in Openers
      PROVE  /\ opener[p].at \in {"closed", "select", "repair", "index", "upgrade",
                                  "open", "stuck"}
             /\ opener[p].todo \subseteq OldRuns /\ opener[p].left \in Seq(Columns)
             /\ opener[p].half \in BOOLEAN /\ opener[p].group \in 1..(Len(Upgrades) + 1)
  <2>1. opener[p] \in Opener
    BY <1>2 DEF StartInv
  <2>2. opener[p].left \in {<<>>, <<"tenant_id", "git_diff">>, <<"git_diff">>, <<"trace">>}
    BY <2>1 DEF Opener
  <2>3. /\ <<>> \in Seq(Columns) /\ <<"tenant_id", "git_diff">> \in Seq(Columns)
        /\ <<"git_diff">> \in Seq(Columns) /\ <<"trace">> \in Seq(Columns)
    BY DEF Columns
  <2>4. opener[p].left \in Seq(Columns)
    BY <2>2, <2>3
  <2> QED
    BY <1>1, <2>1, <2>4 DEF Opener
<1> QED
  BY <1>2 DEF StartInv, StartTypeOK

LEMMA ReadsAreTyped ==
    ASSUME HistoryInv, moves \in 0..MaxMoves
    PROVE  ReadsTypeOK
BY DEF HistoryInv, ListInv, BoardIsSound, FollowInv, ReadsTypeOK

LEMMA PlanningIsTyped == ASSUME PlanningInv PROVE PlanningTypeOK
<1>1. reader.chars \in Nat
  BY PlanningAssumption DEF PlanningInv, ReaderIsSound
<1>2. \A f \in DOMAIN reader.kept : f \in 1 .. Len(Contents)
  BY DEF PlanningInv, ReaderIsSound
<1> QED
  BY <1>1, <1>2 DEF PlanningInv, LoopIsSound, CallsAreSound, PlanningTypeOK

LEMMA CalibrationIsTyped == ASSUME CalibrationInv PROVE CalibrationTypeOK
BY DEF CalibrationInv, ForecastIsSound, SurveyIsSound, Events, CalibrationTypeOK

\* For any number of processes, rows, calls and cycles: the rows of every store and
\* the locals of every process are what the code declares them to be,
\* whichever service runs.
THEOREM ServicesTypeCorrect == ServicesSpec => []ServicesTypeOK
<1>1. /\ PartsInv /\ TypesInv /\ BreakerInv =>
            /\ part \in Parts
            /\ part = "breaker" => BreakerTypeOK
            /\ part = "coding" => CodingTypeOK
            /\ LeaseTypeOK /\ SandboxTypeOK /\ ProvisionTypeOK /\ ControlTypeOK
            /\ TenantsTypeOK /\ ImproveTypeOK /\ MigrateTypeOK /\ WebhookTypeOK
            /\ StartTypeOK /\ GateTypeOK
      /\ FiguresInv /\ TypesInv =>
            StoresTypeOK /\ UsageTypeOK /\ MetricsTypeOK /\ PricingTypeOK
      /\ HistoryInv /\ TypesInv => ReadsTypeOK
      /\ PlanningInv => PlanningTypeOK
      /\ PlanLedgerInv /\ CalibrationInv => PlanLedgerTypeOK /\ CalibrationTypeOK
  <2>1. ASSUME PartsInv, TypesInv, BreakerInv
        PROVE  /\ part \in Parts
               /\ part = "breaker" => BreakerTypeOK
               /\ part = "coding" => CodingTypeOK
               /\ LeaseTypeOK /\ SandboxTypeOK /\ ProvisionTypeOK /\ ControlTypeOK
               /\ TenantsTypeOK /\ ImproveTypeOK /\ MigrateTypeOK /\ WebhookTypeOK
               /\ StartTypeOK /\ GateTypeOK
    <3>1. part \in Parts /\ BreakerTypeOK
      BY <2>1, BreakerIsTyped DEF TypesInv
    <3>2. part = "coding" => CodingTypeOK
      BY <2>1, CodingIsTyped DEF PartsInv, TypesInv, BreakerPartInv, CodingInv
    <3>3. LeaseTypeOK /\ SandboxTypeOK /\ ProvisionTypeOK /\ ControlTypeOK /\ TenantsTypeOK
      BY <2>1 DEF PartsInv, LeaseInv, SandboxInv, ProvisionInv, ControlInv, TenantInv
    <3>4. ImproveTypeOK
      BY <2>1, ImproveIsTyped DEF PartsInv, TypesInv, ImproveInv
    <3>5. MigrateTypeOK /\ WebhookTypeOK /\ GateTypeOK
      BY <2>1, MigrateIsTyped DEF PartsInv, TypesInv, WebhookInv, GateInv
    <3>6. StartTypeOK
      BY <2>1, StartIsTyped DEF PartsInv, TypesInv, TurnsAreBounded
    <3> QED
      BY <3>1, <3>2, <3>3, <3>4, <3>5, <3>6
  <2>2. ASSUME FiguresInv, TypesInv
        PROVE  StoresTypeOK /\ UsageTypeOK /\ MetricsTypeOK /\ PricingTypeOK
    BY <2>2, PricesAreTyped DEF FiguresInv, TypesInv, StoresInv, UsageInv, MetricsInv
  <2>3. ASSUME HistoryInv, TypesInv PROVE ReadsTypeOK
    BY <2>3, ReadsAreTyped DEF TypesInv, TurnsAreBounded
  <2>4. ASSUME PlanLedgerInv, CalibrationInv PROVE PlanLedgerTypeOK /\ CalibrationTypeOK
    BY <2>4, CalibrationIsTyped DEF PlanLedgerInv
  <2> QED
    BY <2>1, <2>2, <2>3, <2>4, PlanningIsTyped
<1>2. PartsInv /\ FiguresInv /\ HistoryInv /\ PlanningInv /\ (PlanLedgerInv /\ CalibrationInv)
         /\ BreakerInv /\ TypesInv => ServicesTypeOK
  BY <1>1 DEF ServicesTypeOK
<1> QED
  BY <1>2, PartsKeepTheirInvariants, FiguresKeepTheirInvariants, HistoryKeepsItsInvariants,
     PlanningKeepsItsInvariant, ForecastsKeepTheirInvariants, BreakerKeepsItsInvariant,
     TypesAreKept, PTL
=============================================================================
