----------------------- MODULE ProjectionWavesProofs -----------------------
(* Theorems about ProjectionWaves, for every set of rules, dependencies,    *)
(* jobs and waves, and any number of retries, crashes and failures.         *)
EXTENDS ProjectionWaves, ProjectionStoreProofs

-----------------------------------------------------------------------------
(* Levels.                                                                  *)

Before(S, r) == {q \in S : <<q, r>> \in Edges}

LevelsOf(level, S) ==
    \A r \in S :
        /\ Before(S, r) = {} => level[r] = 0
        /\ \A q \in Before(S, r) : level[r] > level[q]
        /\ Before(S, r) # {} => \E q \in Before(S, r) : level[r] = level[q] + 1

\* A part of S that holds, with a rule, those of S it depends on, and has levels.
Layered(S, T) ==
    /\ \A r \in T : Before(S, r) \subseteq T
    /\ \E level \in [T -> 0..Cardinality(T)] : LevelsOf(level, T)

\* Above a layered part that is not all of S there is a larger one.
LEMMA LayerAdded ==
    ASSUME NEW S \in SUBSET Rules, NEW T \in SUBSET S, T # S, Layered(S, T)
    PROVE  \E r \in S \ T : Layered(S, T \cup {r})
<1>1. PICK level \in [T -> 0..Cardinality(T)] : LevelsOf(level, T)
  BY DEF Layered
<1>2. IsFiniteSet(T)
  BY WaveConstants, FS_Subset
<1>3. Cardinality(T) \in Nat
  BY <1>2, FS_CardinalityType
<1>4. PICK r \in S \ T : \A e \in Edges : e[2] = r => e[1] \notin S \ T
  <2>1. S \ T \in SUBSET Rules /\ S \ T # {}
    OBVIOUS
  <2> QED
    BY <2>1, WaveConstants
<1>5. Before(S, r) \subseteq T
  BY <1>4 DEF Before
<1> DEFINE U == T \cup {r}
<1>6. Cardinality(U) = Cardinality(T) + 1
  BY <1>2, <1>4, FS_AddElement
<1>7. \E n \in 0..Cardinality(U) :
         /\ Before(S, r) = {} => n = 0
         /\ \A q \in Before(S, r) : n > level[q]
         /\ Before(S, r) # {} => \E q \in Before(S, r) : n = level[q] + 1
  <2>1. CASE Before(S, r) = {}
    BY <1>3, <1>6, <2>1
  <2>2. CASE Before(S, r) # {}
    <3> DEFINE N == {level[q] : q \in Before(S, r)}
    <3>1. N \in SUBSET Nat /\ N # {} /\ \A x \in N : x <= Cardinality(T)
      BY <1>3, <1>5, <2>2
    <3>2. PICK m \in N : \A x \in N : x <= m
      <4> HIDE DEF N
      <4> QED
        BY <1>3, <3>1, GreatestExists
    <3>3. PICK q \in Before(S, r) : m = level[q]
      BY <3>2
    <3>4. m + 1 \in 0..Cardinality(U)
      BY <1>3, <1>6, <3>1, <3>2
    <3>5. ASSUME NEW p \in Before(S, r)
          PROVE  m + 1 > level[p]
      <4>1. level[p] \in N
        OBVIOUS
      <4> HIDE DEF N
      <4>2. level[p] \in Nat /\ m \in Nat /\ level[p] <= m
        BY <3>1, <3>2, <4>1
      <4> QED
        BY <4>2
    <3> HIDE DEF N, U
    <3>6. Before(S, r) # {} => \E p \in Before(S, r) : m + 1 = level[p] + 1
      BY <3>3
    <3> QED
      BY <2>2, <3>4, <3>5, <3>6
  <2> QED
    BY <2>1, <2>2
<1>8. PICK n \in 0..Cardinality(U) :
         /\ Before(S, r) = {} => n = 0
         /\ \A q \in Before(S, r) : n > level[q]
         /\ Before(S, r) # {} => \E q \in Before(S, r) : n = level[q] + 1
  BY <1>7
<1> DEFINE new == [q \in U |-> IF q = r THEN n ELSE level[q]]
<1>9. new \in [U -> 0..Cardinality(U)] /\ new[r] = n /\ \A q \in T : new[q] = level[q]
  BY <1>3, <1>4, <1>6
<1>10. \A q \in U : Before(S, q) \subseteq T /\ Before(U, q) = Before(S, q)
  BY <1>5 DEF Layered, Before
<1>11. \A q \in T : Before(T, q) = Before(U, q)
  BY <1>10 DEF Before
<1> HIDE DEF new
<1>12. LevelsOf(new, U)
  <2> SUFFICES ASSUME NEW q \in U
               PROVE  /\ Before(U, q) = {} => new[q] = 0
                      /\ \A p \in Before(U, q) : new[q] > new[p]
                      /\ Before(U, q) # {} => \E p \in Before(U, q) : new[q] = new[p] + 1
    BY DEF LevelsOf
  <2>1. CASE q = r
    BY <1>8, <1>9, <1>10, <2>1
  <2>2. CASE q \in T
    <3>1. \A p \in Before(U, q) : p \in T
      BY <1>10
    <3> QED
      BY <1>1, <1>9, <1>11, <2>2, <3>1 DEF LevelsOf
  <2> QED
    BY <2>1, <2>2
<1> QED
  BY <1>9, <1>10, <1>12 DEF Layered

\* Rules without a cycle have levels, and a rule is above those it depends on.
LEMMA LevelsRise ==
    ASSUME NEW S \in SUBSET Rules
    PROVE  /\ \A r \in S : Levels(S)[r] \in Int
           /\ \A q, r \in S : <<q, r>> \in Edges => Levels(S)[q] < Levels(S)[r]
<1>1. IsFiniteSet(S)
  BY WaveConstants, FS_Subset
<1> DEFINE Layers == {T \in SUBSET S : Layered(S, T)}
           Sizes == {Cardinality(T) : T \in Layers}
<1>2. \A T \in SUBSET S : IsFiniteSet(T) /\ Cardinality(T) \in Nat
                          /\ Cardinality(T) <= Cardinality(S)
  BY <1>1, FS_Subset, FS_CardinalityType
<1>3. {} \in Layers
  <2>1. [r \in {} |-> 0] \in [{} -> 0..Cardinality({})]
    OBVIOUS
  <2> QED
    BY <2>1 DEF Layered, LevelsOf
<1>4. Sizes \in SUBSET Nat /\ Sizes # {} /\ \A n \in Sizes : n <= Cardinality(S)
  BY <1>2, <1>3
<1>5. PICK m \in Sizes : \A n \in Sizes : n <= m
  <2> HIDE DEF Sizes
  <2> QED
    BY <1>2, <1>4, GreatestExists
<1>6. PICK T \in Layers : m = Cardinality(T)
  BY <1>5
<1>7. T = S
  <2> SUFFICES ASSUME T # S PROVE FALSE
    OBVIOUS
  <2>1. PICK r \in S \ T : Layered(S, T \cup {r})
    BY <1>6, LayerAdded
  <2>2. Cardinality(T \cup {r}) \in Sizes
    BY <1>6, <2>1
  <2>3. Cardinality(T \cup {r}) = Cardinality(T) + 1
    BY <1>2, <1>6, <2>1, FS_AddElement
  <2> QED
    BY <1>2, <1>5, <1>6, <2>2, <2>3
<1>8. \E level \in [S -> 0..Cardinality(S)] : LevelsOf(level, S)
  BY <1>6, <1>7 DEF Layered
<1>9. Levels(S) = CHOOSE level \in [S -> 0..Cardinality(S)] : LevelsOf(level, S)
  BY DEF Levels, LevelsOf, Before
<1>10. Levels(S) \in [S -> 0..Cardinality(S)] /\ LevelsOf(Levels(S), S)
  BY <1>8, <1>9
<1>11. \A r \in S : Levels(S)[r] \in Int
  BY <1>10
<1>12. \A q, r \in S : <<q, r>> \in Edges => Levels(S)[q] < Levels(S)[r]
  BY <1>10, <1>11 DEF LevelsOf, Before
<1> QED
  BY <1>11, <1>12

-----------------------------------------------------------------------------
(* What a rule waits for.                                                   *)

RowsOf(rows) == {r \in Rules : rows[r].status # "absent"}

\* The rules r depends on have their results, or failed, or are not of the wave.
Ready(rows, r) ==
    \A e \in Edges : e[2] = r => rows[e[1]].status \in {"absent", "completed", "failed"}

Chosen(rows, r) == r \in RowsOf(rows) /\ Ready(rows, r)

\* What time does to the rows of a wave: they are put once, and a result stays, unless a
\* failure replaces it.
Later(old, new) ==
    /\ RowsOf(old) # {} => RowsOf(new) = RowsOf(old)
    /\ \A r \in Rules : old[r].status \in {"completed", "failed"}
                        => new[r].status \in {"completed", "failed"}

LEMMA ChosenStays ==
    ASSUME NEW old, NEW new, Later(old, new), NEW r, Chosen(old, r)
    PROVE  Chosen(new, r)
<1>1. \A e \in Edges : e[1] \in Rules
  BY WaveConstants
<1> QED
  BY <1>1 DEF Chosen, Ready, Later, RowsOf

LEMMA LaterIsTransitive ==
    ASSUME NEW old, NEW mid, NEW new, Later(old, mid), Later(mid, new)
    PROVE  Later(old, new)
BY DEF Later

LEMMA LaterIsReflexive == \A rows : Later(rows, rows)
BY DEF Later

\* The first level that is not complete depends on complete levels only.
LEMMA DueIsChosen ==
    ASSUME NEW rows \in [Rules -> RuleRow], NEW r \in Due(rows)
    PROVE  Chosen(rows, r)
<1> DEFINE planned == RowsOf(rows)
<1>1. planned \in SUBSET Rules
  BY DEF RowsOf
<1>2. /\ r \in planned
      /\ \A q \in planned \ With(rows, "completed") : Levels(planned)[r] <= Levels(planned)[q]
  BY DEF Due, With, RowsOf
<1>3. ASSUME NEW e \in Edges, e[2] = r
      PROVE  rows[e[1]].status \in {"absent", "completed", "failed"}
  <2>1. e[1] \in Rules /\ e = <<e[1], r>>
    BY <1>3, WaveConstants
  <2>2. CASE e[1] \in planned
    <3>1. /\ Levels(planned)[e[1]] < Levels(planned)[r]
          /\ Levels(planned)[e[1]] \in Int /\ Levels(planned)[r] \in Int
      BY <1>1, <1>2, <2>1, <2>2, LevelsRise
    <3>2. e[1] \in With(rows, "completed")
      BY <1>2, <2>2, <3>1
    <3> QED
      BY <3>2 DEF With
  <2>3. CASE e[1] \notin planned
    BY <2>1, <2>3 DEF RowsOf
  <2> QED
    BY <2>2, <2>3
<1> QED
  BY <1>2, <1>3 DEF Chosen, Ready

-----------------------------------------------------------------------------
(* The invariant.                                                           *)

AtStep == {"idle", "find", "claim", "list", "put", "inspect", "enqueue", "complete", "fail"}

OpRow == [step : AtStep, wave : Waves \cup {NoWave}, rules : [Rules -> RuleRow] \cup {<<>>},
          todo : SUBSET Rules, queue : SUBSET (Rules \X RuleJobs), bad : BOOLEAN,
          next : BOOLEAN, by : RuleJobs \cup {NoJob}]

JobRow == [status : {"absent", "pending", "processing", "completed", "failed"},
           wave : Waves \cup {NoWave}, rule : Rules \cup {NoWave}, runs : Nat]

AttemptStep == {"none", "started", "read", "deriving", "applied", "superseded", "waiting",
                "returned", "thrown", "reporting", "reported"}

\* An operation knows what the rows of its wave were, and goes on with what still holds.
OpFine(o, waves, rows) ==
    /\ o.step \notin {"idle", "find", "claim"} =>
          o.wave \in Waves /\ waves[o.wave].status # "absent"
    /\ o.step = "put" => Plan(waves[o.wave].inputs) # {}
    /\ o.step # "enqueue" => o.queue = {}
    /\ o.step \in {"inspect", "enqueue"} =>
          /\ o.rules \in [Rules -> RuleRow]
          /\ RowsOf(o.rules) # {}
          /\ Later(o.rules, rows[o.wave])
    /\ o.step = "enqueue" =>
          /\ \A r \in o.todo : Chosen(rows[o.wave], r)
          /\ \A x \in o.queue : Chosen(rows[o.wave], x[1])
    /\ o.step = "complete" => Plan(waves[o.wave].inputs) = {} \/ RowsOf(rows[o.wave]) # {}

\* A job is for a rule of a wave that waits for no other.
JobFine(x, waves, rows) ==
    x.status # "absent" =>
        /\ x.wave \in Waves /\ x.rule \in Rules
        /\ waves[x.wave].status # "absent"
        /\ Chosen(rows[x.wave], x.rule)

RuntimeFine(ops, jobs, attempts, waves, rows) ==
    /\ ops \in [Procs -> OpRow]
    /\ jobs \in [RuleJobs -> JobRow]
    /\ attempts \in [RuleJobs -> AttemptStep]
    /\ \A p \in Procs : /\ OpFine(ops[p], waves, rows)
                        /\ ops[p].by # NoJob => jobs[ops[p].by].status # "absent"
    /\ \A j \in RuleJobs : /\ JobFine(jobs[j], waves, rows)
                           /\ attempts[j] # "none" => jobs[j].status # "absent"

\* A wave has no rules, or those its inputs reach; results are in order, and complete
\* when the wave is.
WaveFine(row, rows) ==
    /\ row.status = "absent" => RowsOf(rows) = {}
    /\ RowsOf(rows) \in {{}, Plan(row.inputs)}
    /\ \A r \in Rules : rows[r].status = "completed" => Ready(rows, r)
    /\ row.status = "completed" => \A r \in Plan(row.inputs) : rows[r].status = "completed"

DriveInv ==
    /\ TypeInv
    /\ RuntimeFine(op, job, attempt, wave, rule)
    /\ \A w \in Waves : WaveFine(wave[w], rule[w])

\* What a step may do to the waves while operations and jobs go on.
Advanced(waves, rows, waves2, rows2) ==
    \A w \in Waves :
        /\ Later(rows[w], rows2[w])
        /\ waves[w].status # "absent" =>
              waves2[w].status # "absent" /\ waves2[w].inputs = waves[w].inputs

\* Operations and jobs stay fine while the store advances.
LEMMA RuntimeStays ==
    ASSUME NEW ops, NEW jobs, NEW attempts, NEW waves, NEW rows, NEW waves2, NEW rows2,
           RuntimeFine(ops, jobs, attempts, waves, rows), Advanced(waves, rows, waves2, rows2)
    PROVE  RuntimeFine(ops, jobs, attempts, waves2, rows2)
<1>1. \A w \in Waves, r \in Rules : Chosen(rows[w], r) => Chosen(rows2[w], r)
  BY ChosenStays DEF Advanced
<1>2. \A w \in Waves : \A old : Later(old, rows[w]) => Later(old, rows2[w])
  BY LaterIsTransitive DEF Advanced
<1>3. \A w \in Waves : RowsOf(rows[w]) # {} => RowsOf(rows2[w]) # {}
  BY DEF Advanced, Later
<1>4. ASSUME NEW o \in OpRow, OpFine(o, waves, rows)
      PROVE  OpFine(o, waves2, rows2)
  <2>1. o.step \notin {"idle", "find", "claim"} =>
          /\ o.wave \in Waves /\ waves[o.wave].status # "absent"
          /\ waves2[o.wave].status # "absent" /\ waves2[o.wave].inputs = waves[o.wave].inputs
    BY <1>4 DEF OpFine, Advanced
  <2>2. \A r \in o.todo : r \in Rules
    BY DEF OpRow
  <2>3. \A x \in o.queue : x[1] \in Rules
    BY DEF OpRow
  <2>4. o.step = "enqueue" => /\ \A r \in o.todo : Chosen(rows2[o.wave], r)
                             /\ \A x \in o.queue : Chosen(rows2[o.wave], x[1])
    BY <1>1, <1>4, <2>1, <2>2, <2>3 DEF OpFine
  <2> QED
    BY <1>2, <1>3, <1>4, <2>1, <2>4 DEF OpFine
<1>5. ASSUME NEW x, JobFine(x, waves, rows)
      PROVE  JobFine(x, waves2, rows2)
  BY <1>1, <1>5 DEF JobFine, Advanced
<1> QED
  BY <1>4, <1>5 DEF RuntimeFine

-----------------------------------------------------------------------------
(* The steps of the store, as the schedulers and the handlers take them.    *)

WavesFine == \A w \in Waves : WaveFine(wave[w], rule[w])

Progress ==
    /\ Advanced(wave, rule, wave', rule')
    /\ \A w \in Waves : WaveFine(wave'[w], rule'[w])

LEMMA SameProgress ==
    ASSUME WavesFine, UNCHANGED <<wave, rule>>
    PROVE  Progress
BY LaterIsReflexive DEF WavesFine, Progress, Advanced

\* One row of a wave gets another status, and the wave may end with it.
LEMMA RowSet ==
    ASSUME NEW rows \in [Rules -> RuleRow], NEW r \in RowsOf(rows), NEW x, x.status # "absent",
           rows[r].status \in {"completed", "failed"} => x.status \in {"completed", "failed"},
           x.status = "completed" => Ready(rows, r),
           NEW row, NEW row2, WaveFine(row, rows),
           row2.inputs = row.inputs, row2.status # "absent",
           row2.status = "completed" =>
              row.status = "completed" /\ (rows[r].status = "completed" => x.status = "completed")
    PROVE  /\ Later(rows, [rows EXCEPT ![r] = x])
           /\ WaveFine(row2, [rows EXCEPT ![r] = x])
<1> DEFINE new == [rows EXCEPT ![r] = x]
<1>1. r \in Rules /\ new[r] = x /\ \A q \in Rules : q # r => new[q] = rows[q]
  BY DEF RowsOf
<1> HIDE DEF new
<1>2. RowsOf(new) = RowsOf(rows)
  BY <1>1 DEF RowsOf
<1>3. Later(rows, new)
  BY <1>1, <1>2 DEF Later
<1>4. \A q \in Rules : q \in RowsOf(rows) /\ Ready(rows, q) => Ready(new, q)
  BY <1>3, ChosenStays DEF Chosen
<1>5. ASSUME NEW q \in Rules, new[q].status = "completed"
      PROVE  Ready(new, q)
  <2>1. q \in RowsOf(rows)
    BY <1>2, <1>5 DEF RowsOf
  <2>2. Ready(rows, q)
    BY <1>1, <1>5 DEF WaveFine
  <2> QED
    BY <1>4, <2>1, <2>2
<1>6. \A q \in Plan(row.inputs) : q \in Rules
  BY DEF Plan
<1>7. row2.status = "completed" => \A q \in Plan(row2.inputs) : new[q].status = "completed"
  BY <1>1, <1>6 DEF WaveFine
<1>8. WaveFine(row2, new)
  BY <1>2, <1>5, <1>7 DEF WaveFine
<1> QED
  BY <1>3, <1>8 DEF new

LEMMA OneRowProgress ==
    ASSUME TypeInv, WavesFine, NEW w \in Waves, NEW r \in RowsOf(rule[w]), NEW x \in RuleRow,
           rule' = [rule EXCEPT ![w] = [rule[w] EXCEPT ![r] = x]], x.status # "absent",
           rule[w][r].status \in {"completed", "failed"} => x.status \in {"completed", "failed"},
           x.status = "completed" => Ready(rule[w], r),
           wave[w].status # "absent",
           \/ wave' = wave /\ (wave[w].status = "completed" =>
                                 (rule[w][r].status = "completed" => x.status = "completed"))
           \/ WaveEnds(w, "failed")
    PROVE  Progress
<1>1. rule \in [Waves -> [Rules -> RuleRow]] /\ wave \in [Waves -> WaveRow]
  BY DEF TypeInv, StoreTypeOK
<1>2. /\ \A v \in Waves : wave'[v].inputs = wave[v].inputs /\ (v # w => wave'[v] = wave[v])
      /\ wave'[w].status # "absent"
      /\ wave'[w].status = "completed" =>
            wave[w].status = "completed" /\ (rule[w][r].status = "completed" => x.status = "completed")
  <2>1. CASE wave' = wave
    BY <2>1, <1>1 DEF WaveEnds, Running
  <2>2. CASE WaveEnds(w, "failed")
    <3>1. wave'[w].status = "failed"
      BY <1>1, <2>2 DEF WaveEnds, WaveRow
    <3> QED
      BY <2>2, <3>1, EndsEffect
  <2> QED
    BY <2>1, <2>2
<1>3. /\ Later(rule[w], [rule[w] EXCEPT ![r] = x])
      /\ WaveFine(wave'[w], [rule[w] EXCEPT ![r] = x])
  BY <1>1, <1>2, RowSet DEF WavesFine
<1>4. rule'[w] = [rule[w] EXCEPT ![r] = x] /\ \A v \in Waves : v # w => rule'[v] = rule[v]
  BY <1>1
<1>5. \A v \in Waves : Later(rule[v], rule'[v]) /\ WaveFine(wave'[v], rule'[v])
  BY <1>2, <1>3, <1>4, LaterIsReflexive DEF WavesFine
<1> QED
  BY <1>2, <1>5 DEF Progress, Advanced

LEMMA ClaimWaveProgress ==
    ASSUME TypeInv, WavesFine, NEW w \in Waves, ClaimWave(w)
    PROVE  /\ Progress
           /\ wave'[w].status # "absent"
<1> DEFINE row == [status |-> "running", cutoff |-> RecoveryGeneration(dirty, Never),
                   epoch |-> epoch, inputs |-> Latest(dirty)]
<1>1. wave \in [Waves -> WaveRow] /\ rule' = rule /\ wave[w].status = "absent"
  BY DEF TypeInv, StoreTypeOK, ClaimWave
<1>2. wave' = [wave EXCEPT ![w] = row]
  BY DEF ClaimWave
<1>3. row.status = "running"
  OBVIOUS
<1> HIDE DEF row
<1>4. wave'[w] = row /\ \A v \in Waves : v # w => wave'[v] = wave[v]
  BY <1>1, <1>2
<1>5. RowsOf(rule[w]) = {}
  BY <1>1 DEF WavesFine, WaveFine
<1>6. WaveFine(row, rule[w])
  BY <1>3, <1>5 DEF WaveFine, RowsOf
<1> QED
  BY <1>1, <1>3, <1>4, <1>6, LaterIsReflexive DEF WavesFine, Progress, Advanced

LEMMA PutProgress ==
    ASSUME TypeInv, WavesFine, NEW w \in Waves, Plan(wave[w].inputs) # {},
           PutRules(w, Plan(wave[w].inputs))
    PROVE  Progress
<1> DEFINE R == Plan(wave[w].inputs)
           new == [r \in Rules |-> IF r \in R THEN [status |-> "pending", job |-> NoJob]
                                   ELSE rule[w][r]]
<1>1. /\ rule \in [Waves -> [Rules -> RuleRow]] /\ wave' = wave /\ rule' = [rule EXCEPT ![w] = new]
      /\ R # {} /\ \A r \in R : rule[w][r].status = "absent"
  BY DEF TypeInv, StoreTypeOK, PutRules
<1>2. R \subseteq Rules
  BY DEF Plan
<1>3. RowsOf(rule[w]) = {}
  BY <1>1, <1>2 DEF WavesFine, WaveFine, RowsOf
<1>4. \A r \in Rules : new[r].status # "completed" /\ (new[r].status # "absent" <=> r \in R)
  BY <1>3 DEF RowsOf
<1>5. RowsOf(new) = R
  BY <1>2, <1>4 DEF RowsOf
<1>6. \A r \in Rules : rule[w][r].status = "absent"
  BY <1>3 DEF RowsOf
<1>7. wave[w].status # "absent" /\ wave[w].status # "completed"
  <2>1. wave[w].status # "absent"
    BY DEF PutRules
  <2>2. wave[w].status # "completed"
    BY <1>1, <1>2, <1>6 DEF WavesFine, WaveFine
  <2> QED
    BY <2>1, <2>2
<1> HIDE DEF new
<1>8. Later(rule[w], new)
  BY <1>3, <1>6 DEF Later
<1>9. WaveFine(wave[w], new)
  BY <1>4, <1>5, <1>7 DEF WaveFine
<1>10. rule'[w] = new /\ \A v \in Waves : v # w => rule'[v] = rule[v]
  BY <1>1
<1> QED
  BY <1>1, <1>8, <1>9, <1>10, LaterIsReflexive DEF WavesFine, Progress, Advanced

LEMMA QueueRuleProgress ==
    ASSUME TypeInv, WavesFine, NEW w \in Waves, NEW r \in Rules, NEW j \in RuleJobs,
           QueueRule(w, r, j)
    PROVE  Progress
<1> DEFINE x == [status |-> "queued", job |-> j]
<1>1. rule \in [Waves -> [Rules -> RuleRow]] /\ rule[w][r].status = "pending" /\ wave' = wave
  BY DEF TypeInv, StoreTypeOK, QueueRule
<1>2. rule' = [rule EXCEPT ![w] = [rule[w] EXCEPT ![r] = x]]
  BY <1>1 DEF QueueRule
<1>3. r \in RowsOf(rule[w]) /\ wave[w].status # "absent"
  BY <1>1 DEF RowsOf, WavesFine, WaveFine
<1>4. x \in RuleRow /\ x.status = "queued"
  BY DEF RuleRow
<1> HIDE DEF x
<1> QED
  BY <1>1, <1>2, <1>3, <1>4, OneRowProgress

LEMMA ApplyResultProgress ==
    ASSUME TypeInv, WavesFine, NEW w \in Waves, NEW r \in Rules, Chosen(rule[w], r),
           ApplyResult(w, r)
    PROVE  Progress
<1> DEFINE x == [rule[w][r] EXCEPT !.status = "completed"]
<1>1. /\ rule \in [Waves -> [Rules -> RuleRow]] /\ wave' = wave /\ wave[w].status = "running"
      /\ rule[w][r].status \in {"pending", "queued"}
  BY DEF TypeInv, StoreTypeOK, ApplyResult, Running
<1>2. rule' = [rule EXCEPT ![w] = [rule[w] EXCEPT ![r] = x]]
  BY <1>1 DEF ApplyResult, RuleRow
<1>3. r \in RowsOf(rule[w]) /\ Ready(rule[w], r)
  BY DEF Chosen
<1>4. x \in RuleRow /\ x.status = "completed"
  BY <1>1 DEF RuleRow
<1> HIDE DEF x
<1> QED
  BY <1>1, <1>2, <1>3, <1>4, OneRowProgress

LEMMA FailWaveProgress ==
    ASSUME TypeInv, WavesFine, NEW w \in Waves, NEW r \in Rules, FailWave(w, r)
    PROVE  Progress
<1> DEFINE x == [rule[w][r] EXCEPT !.status = "failed"]
<1>1. /\ rule \in [Waves -> [Rules -> RuleRow]]
      /\ wave[w].status \in {"running", "failed", "superseded"}
      /\ rule[w][r].status # "absent"
  BY DEF TypeInv, StoreTypeOK, FailWave
<1>2. rule' = [rule EXCEPT ![w] = [rule[w] EXCEPT ![r] = x]]
  BY <1>1 DEF FailWave, RuleRow
<1>3. r \in RowsOf(rule[w])
  BY <1>1 DEF RowsOf
<1>4. x \in RuleRow /\ x.status = "failed"
  BY <1>1 DEF RuleRow
<1>5. wave' = wave \/ WaveEnds(w, "failed")
  BY DEF FailWave, WaveEnds
<1> HIDE DEF x
<1> QED
  BY <1>1, <1>2, <1>3, <1>4, <1>5, OneRowProgress

LEMMA SupersedeProgress ==
    ASSUME TypeInv, WavesFine, NEW w \in Waves, Supersede(w)
    PROVE  Progress
<1>1. WaveEnds(w, "superseded") /\ rule' = rule
  BY DEF Supersede, WaveEnds
<1>2. \A v \in Waves : wave'[v].inputs = wave[v].inputs /\ (v # w => wave'[v] = wave[v])
  BY <1>1, EndsEffect
<1>3. wave'[w].status = "superseded"
  BY <1>1 DEF WaveEnds, TypeInv, StoreTypeOK, WaveRow
<1>4. \A v \in Waves : WaveFine(wave'[v], rule[v])
  BY <1>2, <1>3 DEF WavesFine, WaveFine
<1>5. \A v \in Waves : wave[v].status # "absent" => wave'[v].status # "absent"
  BY <1>2, <1>3
<1> QED
  BY <1>1, <1>2, <1>4, <1>5, LaterIsReflexive DEF Progress, Advanced

LEMMA CompleteWaveProgress ==
    ASSUME TypeInv, WavesFine, NEW w \in Waves, CompleteWave(w),
           Plan(wave[w].inputs) = {} \/ RowsOf(rule[w]) # {}
    PROVE  Progress
<1>1. WaveEnds(w, "completed") /\ rule' = rule
  BY DEF CompleteWave, WaveEnds
<1>2. \A v \in Waves : wave'[v].inputs = wave[v].inputs /\ (v # w => wave'[v] = wave[v])
  BY <1>1, EndsEffect
<1>3. wave'[w].status = "completed"
  BY <1>1 DEF WaveEnds, TypeInv, StoreTypeOK, WaveRow
<1>4. \A r \in Plan(wave[w].inputs) : rule[w][r].status = "completed"
  <2>1. \A r \in Plan(wave[w].inputs) : r \in RowsOf(rule[w])
    BY DEF WavesFine, WaveFine
  <2> QED
    BY <2>1 DEF CompleteWave, RowsOf
<1>5. \A v \in Waves : WaveFine(wave'[v], rule[v])
  BY <1>2, <1>3, <1>4 DEF WavesFine, WaveFine
<1>6. \A v \in Waves : wave[v].status # "absent" => wave'[v].status # "absent"
  BY <1>2, <1>3
<1> QED
  BY <1>1, <1>2, <1>5, <1>6, LaterIsReflexive DEF Progress, Advanced

-----------------------------------------------------------------------------
(* The steps of the operations and of the jobs.                             *)

RuntimeInv == RuntimeFine(op, job, attempt, wave, rule)

\* What the operations and jobs are after a step, of the store as it was before.
RuntimeGoesOn == RuntimeFine(op', job', attempt', wave, rule)

StepFine ==
    /\ [StoreNext]_svars
    /\ Progress
    /\ RuntimeFine(op', job', attempt', wave', rule')

LEMMA StepIsFine ==
    ASSUME [StoreNext]_svars, Progress, RuntimeGoesOn
    PROVE  StepFine
BY RuntimeStays DEF StepFine, Progress, RuntimeGoesOn

LEMMA LocalStepIsFine ==
    ASSUME DriveInv, UNCHANGED svars, RuntimeGoesOn
    PROVE  StepFine
<1>1. Progress
  BY SameProgress DEF DriveInv, WavesFine, svars
<1> QED
  BY <1>1, StepIsFine

LEMMA RuntimeSet ==
    ASSUME RuntimeInv,
           op' \in [Procs -> OpRow], job' \in [RuleJobs -> JobRow],
           attempt' \in [RuleJobs -> AttemptStep],
           \A p \in Procs : \/ op'[p] = op[p]
                            \/ /\ OpFine(op'[p], wave, rule)
                               /\ op'[p].by # NoJob => job'[op'[p].by].status # "absent",
           \A j \in RuleJobs : \/ job'[j] = job[j]
                               \/ JobFine(job'[j], wave, rule) /\ job'[j].status # "absent",
           \A j \in RuleJobs : \/ attempt'[j] = attempt[j] \/ attempt'[j] = "none"
                               \/ job'[j].status # "absent"
    PROVE  RuntimeGoesOn
<1>1. \A j \in RuleJobs : job[j].status # "absent" => job'[j].status # "absent"
  OBVIOUS
<1>2. \A p \in Procs : op[p].by # NoJob => op[p].by \in RuleJobs
  BY DEF RuntimeInv, RuntimeFine, OpRow
<1>3. \A p \in Procs : /\ OpFine(op'[p], wave, rule)
                       /\ op'[p].by # NoJob => job'[op'[p].by].status # "absent"
  BY <1>1, <1>2 DEF RuntimeInv, RuntimeFine
<1>4. \A j \in RuleJobs : /\ JobFine(job'[j], wave, rule)
                          /\ attempt'[j] # "none" => job'[j].status # "absent"
  BY <1>1 DEF RuntimeInv, RuntimeFine
<1> QED
  BY <1>3, <1>4 DEF RuntimeGoesOn, RuntimeFine

\* One operation moves.
LEMMA OpSet ==
    ASSUME RuntimeInv, NEW p \in Procs, NEW o \in OpRow, OpFine(o, wave, rule),
           o.by = NoJob \/ o.by = op[p].by, op' = [op EXCEPT ![p] = o],
           job' = job, attempt' = attempt
    PROVE  RuntimeGoesOn
<1>1. op \in [Procs -> OpRow] /\ job \in [RuleJobs -> JobRow]
      /\ attempt \in [RuleJobs -> AttemptStep]
  BY DEF RuntimeInv, RuntimeFine
<1>2. op[p].by # NoJob => job[op[p].by].status # "absent"
  BY DEF RuntimeInv, RuntimeFine
<1>3. op' \in [Procs -> OpRow] /\ op'[p] = o /\ \A q \in Procs : q # p => op'[q] = op[q]
  BY <1>1
<1> QED
  BY <1>1, <1>2, <1>3, RuntimeSet

\* An attempt moves.
LEMMA AttemptSet ==
    ASSUME RuntimeInv, NEW j \in RuleJobs, attempt[j] # "none", NEW a \in AttemptStep,
           attempt' = [attempt EXCEPT ![j] = a], job' = job, op' = op
    PROVE  RuntimeGoesOn
<1>1. op \in [Procs -> OpRow] /\ job \in [RuleJobs -> JobRow]
      /\ attempt \in [RuleJobs -> AttemptStep] /\ job[j].status # "absent"
  BY DEF RuntimeInv, RuntimeFine
<1>2. /\ attempt' \in [RuleJobs -> AttemptStep]
      /\ \A k \in RuleJobs : k # j => attempt'[k] = attempt[k]
  BY <1>1
<1> QED
  BY <1>1, <1>2, RuntimeSet

\* A job gets another status, and its attempt moves.
LEMMA JobSet ==
    ASSUME RuntimeInv, NEW j \in RuleJobs, job[j].status # "absent", NEW x \in JobRow,
           x.status # "absent", x.wave = job[j].wave, x.rule = job[j].rule,
           job' = [job EXCEPT ![j] = x], NEW a \in AttemptStep,
           attempt' = attempt \/ attempt' = [attempt EXCEPT ![j] = a], op' = op
    PROVE  RuntimeGoesOn
<1>1. op \in [Procs -> OpRow] /\ job \in [RuleJobs -> JobRow]
      /\ attempt \in [RuleJobs -> AttemptStep] /\ JobFine(job[j], wave, rule)
  BY DEF RuntimeInv, RuntimeFine
<1>2. /\ attempt' \in [RuleJobs -> AttemptStep]
      /\ \A k \in RuleJobs : k # j => attempt'[k] = attempt[k]
  BY <1>1
<1>3. job' \in [RuleJobs -> JobRow] /\ job'[j] = x /\ \A k \in RuleJobs : k # j => job'[k] = job[k]
  BY <1>1
<1>4. JobFine(x, wave, rule)
  BY <1>1 DEF JobFine
<1> QED
  BY <1>1, <1>2, <1>3, <1>4, RuntimeSet

LEMMA IdleIsFine == Idle \in OpRow /\ OpFine(Idle, wave, rule) /\ Idle.by = NoJob
BY DEF Idle, OpRow, AtStep, OpFine

\* An operation ends, and the handler that waits for it moves.
LEMMA IdleSet ==
    ASSUME RuntimeInv, NEW p \in Procs, op' = [op EXCEPT ![p] = Idle], job' = job,
           NEW a \in AttemptStep,
           attempt' = IF op[p].by = NoJob THEN attempt
                      ELSE [attempt EXCEPT ![op[p].by] = a]
    PROVE  RuntimeGoesOn
<1>1. op \in [Procs -> OpRow] /\ job \in [RuleJobs -> JobRow]
      /\ attempt \in [RuleJobs -> AttemptStep]
  BY DEF RuntimeInv, RuntimeFine
<1>2. op' \in [Procs -> OpRow] /\ op'[p] = Idle /\ \A q \in Procs : q # p => op'[q] = op[q]
  BY <1>1, IdleIsFine
<1>3. attempt' \in [RuleJobs -> AttemptStep]
      /\ \A j \in RuleJobs : attempt'[j] = attempt[j] \/ job[j].status # "absent"
  <2>1. op[p].by # NoJob => job[op[p].by].status # "absent" /\ op[p].by \in RuleJobs
    BY <1>1 DEF RuntimeInv, RuntimeFine, OpRow
  <2> QED
    BY <1>1, <2>1
<1> QED
  BY <1>1, <1>2, <1>3, RuntimeSet, IdleIsFine

LEMMA EndsIsFine ==
    ASSUME RuntimeInv, NEW p \in Procs, NEW ok, Ends(p, ok)
    PROVE  RuntimeGoesOn
<1> DEFINE a == IF attempt[op[p].by] = "reported" THEN "none"
                ELSE IF ok THEN "returned" ELSE "thrown"
<1>1. a \in AttemptStep
  BY DEF AttemptStep
<1>2. op[p].by # NoJob => op[p].by \in RuleJobs
  BY DEF RuntimeInv, RuntimeFine, OpRow
<1>3. attempt \in [RuleJobs -> AttemptStep]
  BY DEF RuntimeInv, RuntimeFine
<1>4. attempt' = IF op[p].by = NoJob THEN attempt ELSE [attempt EXCEPT ![op[p].by] = a]
  BY <1>2, <1>3 DEF Ends
<1> HIDE DEF a
<1> QED
  BY <1>1, <1>4, IdleSet DEF Ends

\* The row of an operation, and what holds of it.
LEMMA OpNow ==
    ASSUME RuntimeInv, NEW p \in Procs
    PROVE  /\ op[p] \in OpRow /\ OpFine(op[p], wave, rule)
           /\ op \in [Procs -> OpRow] /\ job \in [RuleJobs -> JobRow]
           /\ attempt \in [RuleJobs -> AttemptStep]
BY DEF RuntimeInv, RuntimeFine

-----------------------------------------------------------------------------
(* One operation of a scheduler.                                            *)

LEMMA SweepIsFine == DriveInv /\ Sweep => StepFine
<1> SUFFICES ASSUME DriveInv, Sweep PROVE StepFine
  OBVIOUS
<1> DEFINE o == [Idle EXCEPT !.step = "find", !.next = TRUE]
<1>1. o \in OpRow /\ OpFine(o, wave, rule) /\ o.by = NoJob
  BY DEF Idle, OpRow, AtStep, OpFine
<1>2. op' = [op EXCEPT ![Web] = o] /\ Web \in Procs
  BY DEF Sweep, Procs
<1> HIDE DEF o
<1>3. RuntimeGoesOn
  BY <1>1, <1>2, OpSet DEF Sweep, DriveInv, RuntimeInv
<1> QED
  BY <1>3, LocalStepIsFine DEF Sweep

LEMMA FindIsFine ==
    ASSUME DriveInv, NEW p \in Procs, Find(p)
    PROVE  StepFine
<1>1. RuntimeInv /\ UNCHANGED svars /\ op[p].step = "find"
  BY DEF Find, DriveInv, RuntimeInv
<1>2. op[p] \in OpRow /\ OpFine(op[p], wave, rule) /\ op \in [Procs -> OpRow]
  BY <1>1, OpNow
<1>3. CASE \E w \in RunningWave : /\ op' = [op EXCEPT ![p].step = "list", ![p].wave = w]
                                  /\ UNCHANGED <<job, attempt, faults>>
  <2>1. PICK w \in Waves : /\ Running(w) /\ op' = [op EXCEPT ![p].step = "list", ![p].wave = w]
                           /\ UNCHANGED <<job, attempt>>
    BY <1>3 DEF RunningWave
  <2> DEFINE o == [op[p] EXCEPT !.step = "list", !.wave = w]
  <2>2. o \in OpRow /\ o.by = op[p].by /\ o.step = "list" /\ o.wave = w /\ o.queue = {}
    BY <1>1, <1>2 DEF OpRow, AtStep, OpFine
  <2>3. op' = [op EXCEPT ![p] = o]
    BY <1>2, <2>1
  <2> HIDE DEF o
  <2>4. OpFine(o, wave, rule)
    BY <2>1, <2>2 DEF OpFine, Running
  <2>5. RuntimeGoesOn
    BY <1>1, <2>1, <2>2, <2>3, <2>4, OpSet
  <2> QED
    BY <1>1, <2>5, LocalStepIsFine
<1>4. CASE Goes(p, "claim")
  <2> DEFINE o == [op[p] EXCEPT !.step = "claim"]
  <2>1. o \in OpRow /\ o.by = op[p].by /\ o.step = "claim" /\ o.queue = {}
    BY <1>1, <1>2 DEF OpRow, AtStep, OpFine
  <2>2. op' = [op EXCEPT ![p] = o] /\ job' = job /\ attempt' = attempt
    BY <1>2, <1>4 DEF Goes
  <2> HIDE DEF o
  <2>3. OpFine(o, wave, rule)
    BY <2>1 DEF OpFine
  <2>4. RuntimeGoesOn
    BY <1>1, <2>1, <2>2, <2>3, OpSet
  <2> QED
    BY <1>1, <2>4, LocalStepIsFine
<1>5. CASE Ends(p, TRUE)
  BY <1>1, <1>5, EndsIsFine, LocalStepIsFine
<1> QED
  BY <1>3, <1>4, <1>5 DEF Find

LEMMA ClaimIsFine ==
    ASSUME DriveInv, NEW p \in Procs, Claim(p)
    PROVE  StepFine
<1>1. RuntimeInv /\ WavesFine /\ TypeInv /\ op[p].step = "claim"
  BY DEF Claim, DriveInv, RuntimeInv, WavesFine
<1>2. op[p] \in OpRow /\ OpFine(op[p], wave, rule) /\ op \in [Procs -> OpRow]
  BY <1>1, OpNow
<1>3. CASE \E w \in NextId({v \in Waves : wave[v].status = "absent"}) :
             /\ ClaimWave(w)
             /\ op' = [op EXCEPT ![p].step = "list", ![p].wave = w]
             /\ UNCHANGED <<job, attempt, faults>>
  <2>1. PICK w \in Waves : /\ ClaimWave(w)
                           /\ op' = [op EXCEPT ![p].step = "list", ![p].wave = w]
                           /\ UNCHANGED <<job, attempt>>
    BY <1>3 DEF NextId
  <2>2. Progress /\ wave'[w].status # "absent"
    BY <1>1, <2>1, ClaimWaveProgress
  <2>3. RuntimeFine(op, job, attempt, wave', rule')
    BY <1>1, <2>2, RuntimeStays DEF RuntimeInv, Progress
  <2> DEFINE o == [op[p] EXCEPT !.step = "list", !.wave = w]
  <2>4. o \in OpRow /\ o.by = op[p].by /\ o.step = "list" /\ o.wave = w /\ o.queue = {}
    BY <1>1, <1>2 DEF OpRow, AtStep, OpFine
  <2>5. op' = [op EXCEPT ![p] = o]
    BY <1>2, <2>1
  <2> HIDE DEF o
  <2>6. OpFine(o, wave', rule')
    BY <2>2, <2>4 DEF OpFine
  <2>7. op' \in [Procs -> OpRow] /\ op'[p] = o /\ \A q \in Procs : q # p => op'[q] = op[q]
    BY <1>2, <2>4, <2>5
  <2>8. RuntimeFine(op', job', attempt', wave', rule')
    BY <2>1, <2>3, <2>4, <2>6, <2>7 DEF RuntimeFine
  <2>9. StoreNext
    BY <2>1 DEF StoreNext, WaveStep
  <2> QED
    BY <2>2, <2>8, <2>9 DEF StepFine
<1>4. CASE UNCHANGED svars /\ (Ends(p, TRUE) \/ Ends(p, FALSE))
  BY <1>1, <1>4, EndsIsFine, LocalStepIsFine
<1> QED
  BY <1>3, <1>4 DEF Claim

LEMMA ListIsFine ==
    ASSUME DriveInv, NEW p \in Procs, List(p)
    PROVE  StepFine
<1>1. RuntimeInv /\ TypeInv /\ UNCHANGED <<svars, job, attempt>> /\ op[p].step = "list"
  BY DEF List, DriveInv, RuntimeInv
<1>2. op[p] \in OpRow /\ OpFine(op[p], wave, rule) /\ op \in [Procs -> OpRow]
  BY <1>1, OpNow
<1> DEFINE w == op[p].wave
           step == Decided(rule[w], w)
           todo == IF step = "fail" THEN With(rule[w], "failed") ELSE With(rule[w], "queued")
           o == [op[p] EXCEPT !.step = step, !.rules = rule[w], !.todo = todo]
<1>3. w \in Waves /\ wave[w].status # "absent" /\ op[p].queue = {}
  BY <1>1, <1>2 DEF OpFine
<1>4. rule[w] \in [Rules -> RuleRow]
  BY <1>1, <1>3 DEF TypeInv, StoreTypeOK
<1>5. todo \in SUBSET Rules
  BY DEF With
<1>6. step \in {"complete", "put", "fail", "inspect"}
  BY DEF Decided
<1>7. /\ step = "put" => Plan(wave[w].inputs) # {}
      /\ step = "inspect" => RowsOf(rule[w]) # {}
      /\ step = "complete" => Plan(wave[w].inputs) = {} \/ RowsOf(rule[w]) # {}
  BY DEF Decided, RowsOf
<1>8. op' = [op EXCEPT ![p] = o]
  BY <1>2 DEF List
<1> HIDE DEF step, todo
<1>9. /\ o \in OpRow /\ o.by = op[p].by /\ o.step = step /\ o.wave = w /\ o.queue = {}
      /\ o.rules = rule[w]
  BY <1>2, <1>3, <1>4, <1>5, <1>6 DEF OpRow, AtStep
<1> HIDE DEF o, w
<1>10. OpFine(o, wave, rule)
  BY <1>3, <1>4, <1>6, <1>7, <1>9, LaterIsReflexive DEF OpFine
<1>11. RuntimeGoesOn
  BY <1>1, <1>8, <1>9, <1>10, OpSet
<1> QED
  BY <1>1, <1>11, LocalStepIsFine

LEMMA PutIsFine ==
    ASSUME DriveInv, NEW p \in Procs, Put(p)
    PROVE  StepFine
<1>1. RuntimeInv /\ WavesFine /\ TypeInv /\ op[p].step = "put"
  BY DEF Put, DriveInv, RuntimeInv, WavesFine
<1>2. op[p] \in OpRow /\ OpFine(op[p], wave, rule) /\ op \in [Procs -> OpRow]
  BY <1>1, OpNow
<1> DEFINE w == op[p].wave
           planned == Plan(wave[w].inputs)
<1>3. w \in Waves /\ wave[w].status # "absent" /\ op[p].queue = {} /\ planned # {}
  BY <1>1, <1>2 DEF OpFine
<1>4. CASE PutRules(w, planned) /\ Goes(p, "list")
  <2> DEFINE o == [op[p] EXCEPT !.step = "list"]
  <2>1. o \in OpRow /\ o.by = op[p].by /\ o.step = "list" /\ o.queue = {} /\ o.wave = op[p].wave
    BY <1>2, <1>3 DEF OpRow, AtStep
  <2>2. op' = [op EXCEPT ![p] = o] /\ job' = job /\ attempt' = attempt
    BY <1>2, <1>4 DEF Goes
  <2> HIDE DEF o
  <2>3. OpFine(o, wave, rule)
    BY <1>3, <2>1 DEF OpFine
  <2>4. RuntimeGoesOn
    BY <1>1, <2>1, <2>2, <2>3, OpSet
  <2>5. Progress
    BY <1>1, <1>3, <1>4, PutProgress
  <2>6. planned \in SUBSET Rules
    BY DEF Plan
  <2>7. StoreNext
    BY <1>3, <1>4, <2>6 DEF StoreNext, WaveStep
  <2> QED
    BY <2>4, <2>5, <2>7, StepIsFine
<1>5. CASE Ends(p, FALSE) /\ UNCHANGED svars
  BY <1>1, <1>5, EndsIsFine, LocalStepIsFine
<1> QED
  BY <1>4, <1>5 DEF Put

LEMMA InspectIsFine ==
    ASSUME DriveInv, NEW p \in Procs, Inspect(p)
    PROVE  StepFine
<1>1. RuntimeInv /\ UNCHANGED <<svars, job, attempt>> /\ op[p].step = "inspect"
  BY DEF Inspect, DriveInv, RuntimeInv
<1>2. op[p] \in OpRow /\ OpFine(op[p], wave, rule) /\ op \in [Procs -> OpRow]
  BY <1>1, OpNow
<1>3. /\ op[p].wave \in Waves /\ wave[op[p].wave].status # "absent" /\ op[p].queue = {}
      /\ op[p].rules \in [Rules -> RuleRow] /\ Later(op[p].rules, rule[op[p].wave])
      /\ op[p].todo \in SUBSET Rules
  BY <1>1, <1>2 DEF OpFine, OpRow
<1>4. SUFFICES \E o \in OpRow : op' = [op EXCEPT ![p] = o] /\ OpFine(o, wave, rule) /\ o.by = op[p].by
  BY <1>1, OpSet, LocalStepIsFine
<1>5. ASSUME NEW r \in op[p].todo, op' = [op EXCEPT ![p].step = "fail", ![p].todo = {r}]
      PROVE  \E o \in OpRow : op' = [op EXCEPT ![p] = o] /\ OpFine(o, wave, rule) /\ o.by = op[p].by
  <2> DEFINE o == [op[p] EXCEPT !.step = "fail", !.todo = {r}]
  <2>1. /\ o \in OpRow /\ o.by = op[p].by /\ o.step = "fail" /\ o.queue = {}
        /\ o.wave = op[p].wave
    BY <1>2, <1>3, ZenonT(60) DEF OpRow, AtStep
  <2>2. op' = [op EXCEPT ![p] = o]
    BY <1>2, <1>5
  <2> HIDE DEF o
  <2> QED
    BY <1>3, <2>1, <2>2 DEF OpFine
<1>6. ASSUME NEW r \in op[p].todo, op' = [op EXCEPT ![p].todo = @ \ {r}]
      PROVE  \E o \in OpRow : op' = [op EXCEPT ![p] = o] /\ OpFine(o, wave, rule) /\ o.by = op[p].by
  <2> DEFINE o == [op[p] EXCEPT !.todo = @ \ {r}]
  <2>1. /\ o \in OpRow /\ o.by = op[p].by /\ o.step = "inspect" /\ o.queue = {}
        /\ o.wave = op[p].wave /\ o.rules = op[p].rules
    BY <1>1, <1>2, <1>3 DEF OpRow
  <2>2. op' = [op EXCEPT ![p] = o]
    BY <1>2, <1>6
  <2> HIDE DEF o
  <2> QED
    BY <1>1, <1>2, <2>1, <2>2 DEF OpFine
<1>7. ASSUME op' = [op EXCEPT ![p].step = "enqueue", ![p].todo = Due(op[p].rules)]
      PROVE  \E o \in OpRow : op' = [op EXCEPT ![p] = o] /\ OpFine(o, wave, rule) /\ o.by = op[p].by
  <2> DEFINE o == [op[p] EXCEPT !.step = "enqueue", !.todo = Due(op[p].rules)]
  <2>1. Due(op[p].rules) \in SUBSET Rules
    BY DEF Due, With
  <2>2. /\ o \in OpRow /\ o.by = op[p].by /\ o.step = "enqueue" /\ o.queue = {}
        /\ o.wave = op[p].wave /\ o.rules = op[p].rules /\ o.todo = Due(op[p].rules)
    BY <1>2, <1>3, <2>1 DEF OpRow, AtStep
  <2>3. op' = [op EXCEPT ![p] = o]
    BY <1>2, <1>7
  <2> HIDE DEF o
  <2>4. \A r \in o.todo : Chosen(rule[o.wave], r)
    BY <1>3, <2>2, DueIsChosen, ChosenStays
  <2> QED
    BY <1>1, <1>2, <2>2, <2>3, <2>4 DEF OpFine
<1> QED
  BY <1>5, <1>6, <1>7 DEF Inspect

LEMMA EnqueueRuleIsFine ==
    ASSUME DriveInv, NEW p \in Procs, NEW r \in Rules, EnqueueRule(p, r)
    PROVE  StepFine
<1>1. RuntimeInv /\ UNCHANGED <<svars, attempt>> /\ op[p].step = "enqueue" /\ r \in op[p].todo
  BY DEF EnqueueRule, DriveInv, RuntimeInv
<1>2. /\ op[p] \in OpRow /\ OpFine(op[p], wave, rule) /\ op \in [Procs -> OpRow]
      /\ job \in [RuleJobs -> JobRow] /\ attempt \in [RuleJobs -> AttemptStep]
  BY <1>1, OpNow
<1> DEFINE w == op[p].wave
<1>3. w \in Waves /\ wave[w].status # "absent" /\ Chosen(rule[w], r)
  BY <1>1, <1>2 DEF OpFine
<1>4. PICK j \in RuleJobs :
         /\ \/ job' = job
            \/ job' = [job EXCEPT ![j] = [status |-> "pending", wave |-> w, rule |-> r, runs |-> 0]]
         /\ op' = [op EXCEPT ![p].todo = @ \ {r}, ![p].queue = @ \cup {<<r, j>>}]
  BY DEF EnqueueRule, NextId
<1> DEFINE todo == op[p].todo \ {r}
           queue == op[p].queue \cup {<<r, j>>}
           o == [op[p] EXCEPT !.todo = todo, !.queue = queue]
           x == [status |-> "pending", wave |-> w, rule |-> r, runs |-> 0]
<1>5. op' = [op EXCEPT ![p] = o]
  BY <1>2, <1>4
<1>6. todo \in SUBSET Rules /\ queue \in SUBSET (Rules \X RuleJobs)
  BY <1>2 DEF OpRow
<1> HIDE DEF todo, queue
<1>7. /\ o \in OpRow /\ o.by = op[p].by /\ o.step = "enqueue" /\ o.wave = w
       /\ o.rules = op[p].rules /\ o.todo = todo /\ o.queue = queue
  BY <1>1, <1>2, <1>6 DEF OpRow
<1>8. /\ o \in OpRow /\ o.by = op[p].by /\ o.step = "enqueue" /\ o.wave = w
      /\ o.rules = op[p].rules /\ o.todo = op[p].todo \ {r}
      /\ o.queue = op[p].queue \cup {<<r, j>>}
  BY <1>7 DEF todo, queue
<1>9. x \in JobRow /\ x.status # "absent" /\ x.wave = w /\ x.rule = r
  BY <1>3 DEF JobRow
<1> HIDE DEF o
<1>10. OpFine(o, wave, rule)
  <2>1. \A k \in o.todo : Chosen(rule[w], k)
    BY <1>1, <1>2, <1>8 DEF OpFine
  <2>2. \A y \in o.queue : Chosen(rule[w], y[1])
    BY <1>1, <1>2, <1>3, <1>8 DEF OpFine
  <2> QED
    BY <1>1, <1>2, <1>8, <2>1, <2>2 DEF OpFine
<1>11. JobFine(x, wave, rule)
  BY <1>3, <1>9 DEF JobFine
<1> HIDE DEF x, w
<1>12. op' \in [Procs -> OpRow] /\ op'[p] = o /\ \A q \in Procs : q # p => op'[q] = op[q]
  BY <1>2, <1>8, <1>5
<1>13. job' \in [RuleJobs -> JobRow] /\ \A k \in RuleJobs : job'[k] = job[k] \/ job'[k] = x
  BY <1>2, <1>4, <1>9 DEF x
<1>14. \A k \in RuleJobs : job[k].status # "absent" => job'[k].status # "absent"
  BY <1>9, <1>13
<1>15. op[p].by # NoJob => op[p].by \in RuleJobs /\ job[op[p].by].status # "absent"
  BY <1>1, <1>2 DEF RuntimeInv, RuntimeFine, OpRow
<1>16. o.by # NoJob => job'[o.by].status # "absent"
  BY <1>8, <1>14, <1>15
<1>17. RuntimeGoesOn
  <2>1. \A q \in Procs : \/ op'[q] = op[q]
                         \/ /\ OpFine(op'[q], wave, rule)
                            /\ op'[q].by # NoJob => job'[op'[q].by].status # "absent"
    BY <1>10, <1>12, <1>16
  <2>2. \A k \in RuleJobs : \/ job'[k] = job[k]
                            \/ JobFine(job'[k], wave, rule) /\ job'[k].status # "absent"
    BY <1>9, <1>11, <1>13
  <2> QED
    BY <1>1, <1>2, <1>12, <1>13, <2>1, <2>2, RuntimeSet
<1> QED
  BY <1>1, <1>17, LocalStepIsFine

LEMMA RecordQueuedIsFine ==
    ASSUME DriveInv, NEW p \in Procs, NEW j \in RuleJobs, NEW r \in Rules, RecordQueued(p, r, j)
    PROVE  StepFine
<1>1. /\ RuntimeInv /\ TypeInv /\ WavesFine /\ UNCHANGED <<job, attempt>>
      /\ op[p].step = "enqueue" /\ <<r, j>> \in op[p].queue
  BY DEF RecordQueued, DriveInv, RuntimeInv, WavesFine
<1>2. op[p] \in OpRow /\ OpFine(op[p], wave, rule) /\ op \in [Procs -> OpRow]
  BY <1>1, OpNow
<1> DEFINE w == op[p].wave
<1>3. w \in Waves
  BY <1>1, <1>2 DEF OpFine
<1>4. ASSUME NEW o \in OpRow, o.step = "enqueue", o.by = op[p].by, o.wave = w,
             o.rules = op[p].rules, o.todo = op[p].todo, o.queue \subseteq op[p].queue,
             op' = [op EXCEPT ![p] = o]
      PROVE  RuntimeGoesOn
  <2>1. OpFine(o, wave, rule)
    BY <1>1, <1>2, <1>4 DEF OpFine
  <2> QED
    BY <1>1, <1>4, <2>1, OpSet
<1>5. CASE /\ QueueRule(w, r, j)
           /\ op' = [op EXCEPT ![p].queue = @ \ {<<r, j>>}]
  <2> DEFINE o == [op[p] EXCEPT !.queue = @ \ {<<r, j>>}]
  <2>1. /\ o \in OpRow /\ o.step = "enqueue" /\ o.by = op[p].by /\ o.wave = w
        /\ o.rules = op[p].rules /\ o.todo = op[p].todo /\ o.queue \subseteq op[p].queue
    BY <1>1, <1>2 DEF OpRow
  <2>2. op' = [op EXCEPT ![p] = o]
    BY <1>2, <1>5
  <2> HIDE DEF o
  <2>3. RuntimeGoesOn
    BY <1>4, <2>1, <2>2
  <2>4. Progress
    BY <1>1, <1>3, <1>5, QueueRuleProgress
  <2>5. StoreNext
    BY <1>3, <1>5 DEF StoreNext, WaveStep
  <2> QED
    BY <2>3, <2>4, <2>5, StepIsFine
<1>6. ASSUME NEW settled \in BOOLEAN, UNCHANGED svars,
             op' = [op EXCEPT ![p].queue = @ \ {<<r, j>>}, ![p].bad = @ \/ ~settled]
      PROVE  StepFine
  <2> DEFINE bad == op[p].bad \/ ~settled
             o == [op[p] EXCEPT !.queue = @ \ {<<r, j>>}, !.bad = bad]
  <2>1. bad \in BOOLEAN
    OBVIOUS
  <2>2. op' = [op EXCEPT ![p] = o]
    BY <1>2, <1>6
  <2> HIDE DEF bad
  <2>3. /\ o \in OpRow /\ o.step = "enqueue" /\ o.by = op[p].by /\ o.wave = w
        /\ o.rules = op[p].rules /\ o.todo = op[p].todo /\ o.queue \subseteq op[p].queue
    BY <1>1, <1>2, <2>1 DEF OpRow
  <2> HIDE DEF o
  <2>4. RuntimeGoesOn
    BY <1>4, <2>2, <2>3
  <2> QED
    BY <1>6, <2>4, LocalStepIsFine
<1>7. (rule[w][r].status = "completed" \/ rule[w][r] = [status |-> "queued", job |-> j]) \in BOOLEAN
  OBVIOUS
<1> QED
  BY <1>5, <1>6, <1>7 DEF RecordQueued

LEMMA CompleteIsFine ==
    ASSUME DriveInv, NEW p \in Procs, Complete(p)
    PROVE  StepFine
<1>1. RuntimeInv /\ TypeInv /\ WavesFine /\ op[p].step = "complete"
  BY DEF Complete, DriveInv, RuntimeInv, WavesFine
<1>2. op[p] \in OpRow /\ OpFine(op[p], wave, rule) /\ op \in [Procs -> OpRow]
  BY <1>1, OpNow
<1> DEFINE w == op[p].wave
           then == IF op[p].next
                   THEN op' = [op EXCEPT ![p] = [@ EXCEPT !.step = "find", !.wave = NoWave]]
                        /\ UNCHANGED <<job, attempt, faults>>
                   ELSE Ends(p, TRUE)
<1>3. /\ w \in Waves /\ op[p].queue = {}
      /\ Plan(wave[w].inputs) = {} \/ RowsOf(rule[w]) # {}
  BY <1>1, <1>2 DEF OpFine
<1>4. ASSUME then PROVE RuntimeGoesOn
  <2>1. CASE op[p].next
    <3> DEFINE o == [op[p] EXCEPT !.step = "find", !.wave = NoWave]
    <3>1. o \in OpRow /\ o.step = "find" /\ o.by = op[p].by /\ o.queue = {}
      BY <1>2, <1>3 DEF OpRow, AtStep
    <3>2. op' = [op EXCEPT ![p] = o] /\ job' = job /\ attempt' = attempt
      BY <1>4, <2>1
    <3> HIDE DEF o
    <3>3. OpFine(o, wave, rule)
      BY <3>1 DEF OpFine
    <3> QED
      BY <1>1, <3>1, <3>2, <3>3, OpSet
  <2>2. CASE ~op[p].next
    BY <1>1, <1>4, <2>2, EndsIsFine
  <2> QED
    BY <2>1, <2>2
<1>5. CASE CompleteWave(w) /\ then
  <2>1. Progress
    BY <1>1, <1>3, <1>5, CompleteWaveProgress
  <2>2. StoreNext
    BY <1>3, <1>5 DEF StoreNext, WaveStep
  <2> QED
    BY <1>4, <1>5, <2>1, <2>2, StepIsFine
<1>6. CASE then /\ UNCHANGED svars
  BY <1>4, <1>6, LocalStepIsFine
<1>7. CASE Ends(p, FALSE) /\ UNCHANGED svars
  BY <1>1, <1>7, EndsIsFine, LocalStepIsFine
<1> QED
  BY <1>5, <1>6, <1>7 DEF Complete

LEMMA FailIsFine ==
    ASSUME DriveInv, NEW p \in Procs, Fail(p)
    PROVE  StepFine
<1>1. RuntimeInv /\ TypeInv /\ WavesFine /\ op[p].step = "fail"
  BY DEF Fail, DriveInv, RuntimeInv, WavesFine
<1>2. op[p] \in OpRow /\ OpFine(op[p], wave, rule)
  BY <1>1, OpNow
<1>3. op[p].wave \in Waves /\ op[p].todo \in SUBSET Rules
  BY <1>1, <1>2 DEF OpFine, OpRow
<1>4. ASSUME NEW r \in op[p].todo, FailWave(op[p].wave, r), Ends(p, TRUE)
      PROVE  StepFine
  <2>1. Progress
    BY <1>1, <1>3, <1>4, FailWaveProgress
  <2>2. StoreNext
    BY <1>3, <1>4 DEF StoreNext, WaveStep
  <2> QED
    BY <1>1, <1>4, <2>1, <2>2, EndsIsFine, StepIsFine
<1>5. CASE Ends(p, FALSE) /\ UNCHANGED svars
  BY <1>1, <1>5, EndsIsFine, LocalStepIsFine
<1> QED
  BY <1>4, <1>5 DEF Fail

LEMMA ScheduleIsFine ==
    ASSUME DriveInv, NEW p \in Procs, Schedule(p)
    PROVE  StepFine
<1>1. CASE EnqueueEnds(p)
  BY <1>1, EndsIsFine, LocalStepIsFine DEF EnqueueEnds, DriveInv, RuntimeInv
<1>2. ASSUME NEW r \in Rules, EnqueueRule(p, r) PROVE StepFine
  BY <1>2, EnqueueRuleIsFine
<1>3. ASSUME NEW r \in Rules, NEW j \in RuleJobs, RecordQueued(p, r, j) PROVE StepFine
  BY <1>3, RecordQueuedIsFine
<1>4. CASE Find(p) \/ Claim(p) \/ List(p) \/ Put(p) \/ Inspect(p) \/ Complete(p) \/ Fail(p)
  BY <1>4, FindIsFine, ClaimIsFine, ListIsFine, PutIsFine, InspectIsFine, CompleteIsFine,
     FailIsFine
<1> QED
  BY <1>1, <1>2, <1>3, <1>4 DEF Schedule

-----------------------------------------------------------------------------
(* A rule job.                                                              *)

\* The row of a job whose handler runs, and what holds of it.
LEMMA JobNow ==
    ASSUME RuntimeInv, NEW j \in RuleJobs
    PROVE  /\ job[j] \in JobRow /\ JobFine(job[j], wave, rule)
           /\ attempt[j] # "none" => job[j].status # "absent"
           /\ op \in [Procs -> OpRow] /\ job \in [RuleJobs -> JobRow]
           /\ attempt \in [RuleJobs -> AttemptStep]
BY DEF RuntimeInv, RuntimeFine

LEMMA AtIsFine ==
    ASSUME RuntimeInv, NEW j \in RuleJobs, attempt[j] # "none", NEW pc \in AttemptStep,
           At(j, pc), job' = job
    PROVE  RuntimeGoesOn
BY AttemptSet DEF At

\* Steps of a job that read the store, or nothing.
LEMMA JobStepIsFine ==
    ASSUME DriveInv, NEW j \in RuleJobs,
           \/ RunJob(j) \/ LoseJob(j) \/ ReadWave(j) \/ Throw(j) \/ CompleteJob(j) \/ FailJob(j)
    PROVE  StepFine
<1>1. RuntimeInv
  BY DEF DriveInv, RuntimeInv
<1>2. /\ job[j] \in JobRow /\ JobFine(job[j], wave, rule)
      /\ attempt[j] # "none" => job[j].status # "absent"
      /\ op \in [Procs -> OpRow] /\ job \in [RuleJobs -> JobRow]
      /\ attempt \in [RuleJobs -> AttemptStep]
  BY <1>1, JobNow
<1>3. SUFFICES RuntimeGoesOn
  <2>1. UNCHANGED svars
    BY DEF RunJob, LoseJob, ReadWave, Throw, CompleteJob, FailJob
  <2> QED
    BY <2>1, LocalStepIsFine
<1>4. ASSUME NEW x \in JobRow, x.status # "absent", x.wave = job[j].wave, x.rule = job[j].rule,
             job' = [job EXCEPT ![j] = x], op' = op, job[j].status # "absent",
             NEW a \in AttemptStep, attempt' = attempt \/ attempt' = [attempt EXCEPT ![j] = a]
      PROVE  RuntimeGoesOn
  BY <1>1, <1>4, JobSet
<1>5. ASSUME NEW s \in {"processing", "pending", "completed", "failed"},
             job' = [job EXCEPT ![j].status = s], op' = op, job[j].status # "absent",
             NEW a \in AttemptStep, attempt' = attempt \/ attempt' = [attempt EXCEPT ![j] = a]
      PROVE  RuntimeGoesOn
  <2> DEFINE x == [job[j] EXCEPT !.status = s]
  <2>1. x \in JobRow /\ x.status # "absent" /\ x.wave = job[j].wave /\ x.rule = job[j].rule
    BY <1>2 DEF JobRow
  <2>2. job' = [job EXCEPT ![j] = x]
    BY <1>2, <1>5
  <2> HIDE DEF x
  <2> QED
    BY <1>4, <1>5, <2>1, <2>2
<1>6. CASE RunJob(j)
  <2> DEFINE runs == job[j].runs + 1
             x == [job[j] EXCEPT !.status = "processing", !.runs = runs]
  <2>1. job[j].status # "absent" /\ runs \in Nat
    BY <1>2, <1>6 DEF RunJob, JobRow
  <2>2. job' = [job EXCEPT ![j] = x]
    BY <1>2, <1>6 DEF RunJob, Claimed
  <2> HIDE DEF runs
  <2>3. x \in JobRow /\ x.status # "absent" /\ x.wave = job[j].wave /\ x.rule = job[j].rule
    BY <1>2, <2>1 DEF JobRow
  <2>4. attempt' = [attempt EXCEPT ![j] = "started"] /\ op' = op /\ "started" \in AttemptStep
    BY <1>6 DEF RunJob, At, AttemptStep
  <2> HIDE DEF x
  <2> QED
    BY <1>4, <2>1, <2>3, <2>2, <2>4
<1>7. CASE LoseJob(j)
  <2>1. "none" \in AttemptStep
    BY DEF AttemptStep
  <2> QED
    BY <1>5, <1>7, <2>1 DEF LoseJob
<1>8. CASE ReadWave(j)
  <2> DEFINE status == wave[job[j].wave].status
             pc == IF status = "running" THEN "read"
                   ELSE IF status = "superseded" THEN "returned" ELSE "thrown"
  <2>1. pc \in AttemptStep
    BY DEF AttemptStep
  <2>2. attempt[j] # "none" /\ At(j, pc) /\ job' = job
    BY <1>8 DEF ReadWave
  <2> HIDE DEF pc
  <2> QED
    BY <1>1, <2>1, <2>2, AtIsFine
<1>9. CASE Throw(j)
  <2>1. attempt[j] # "none" /\ "thrown" \in AttemptStep
    BY <1>9 DEF Throw, AttemptStep
  <2> QED
    BY <1>1, <1>9, <2>1, AttemptSet DEF Throw
<1>10. CASE CompleteJob(j)
  <2>1. job[j].status # "absent" /\ "none" \in AttemptStep
    BY <1>2, <1>10 DEF CompleteJob, AttemptStep
  <2> QED
    BY <1>5, <1>10, <2>1 DEF CompleteJob, At
<1>11. CASE FailJob(j)
  <2>1. job[j].status # "absent" /\ "none" \in AttemptStep /\ "reporting" \in AttemptStep
    BY <1>2, <1>11 DEF FailJob, AttemptStep
  <2>2. CASE job' = [job EXCEPT ![j].status = "pending"] /\ At(j, "none")
    BY <1>5, <2>1, <2>2 DEF At
  <2>3. CASE job' = [job EXCEPT ![j].status = "failed"] /\ At(j, "reporting")
    BY <1>5, <2>1, <2>3 DEF At
  <2> QED
    BY <1>11, <2>2, <2>3 DEF FailJob
<1> QED
  BY <1>6, <1>7, <1>8, <1>9, <1>10, <1>11

LEMMA CheckStaleIsFine ==
    ASSUME DriveInv, NEW j \in RuleJobs, CheckStale(j)
    PROVE  StepFine
<1>1. RuntimeInv /\ TypeInv /\ WavesFine /\ attempt[j] = "read" /\ job' = job
  BY DEF CheckStale, DriveInv, RuntimeInv, WavesFine
<1>2. job[j].wave \in Waves
  BY <1>1, JobNow DEF JobFine
<1>3. \E pc \in AttemptStep : At(j, pc)
  BY DEF CheckStale, AttemptStep
<1>4. RuntimeGoesOn
  BY <1>1, <1>3, AtIsFine
<1>5. CASE Supersede(job[j].wave)
  <2>1. Progress
    BY <1>1, <1>2, <1>5, SupersedeProgress
  <2>2. StoreNext
    BY <1>2, <1>5 DEF StoreNext, WaveStep
  <2> QED
    BY <1>4, <2>1, <2>2, StepIsFine
<1>6. CASE UNCHANGED svars
  BY <1>4, <1>6, LocalStepIsFine
<1> QED
  BY <1>5, <1>6 DEF CheckStale

LEMMA ApplyIsFine ==
    ASSUME DriveInv, NEW j \in RuleJobs, Apply(j)
    PROVE  StepFine
<1>1. RuntimeInv /\ TypeInv /\ WavesFine /\ attempt[j] = "deriving" /\ job' = job
  BY DEF Apply, DriveInv, RuntimeInv, WavesFine
<1> DEFINE w == job[j].wave
           r == job[j].rule
<1>2. w \in Waves /\ r \in Rules /\ Chosen(rule[w], r)
  BY <1>1, JobNow DEF JobFine
<1>3. \E pc \in AttemptStep : At(j, pc)
  BY DEF Apply, AttemptStep
<1>4. RuntimeGoesOn
  BY <1>1, <1>3, AtIsFine
<1>5. CASE ApplyResult(w, r)
  <2>1. Progress
    BY <1>1, <1>2, <1>5, ApplyResultProgress
  <2>2. StoreNext
    BY <1>2, <1>5 DEF StoreNext, WaveStep
  <2> QED
    BY <1>4, <2>1, <2>2, StepIsFine
<1>6. CASE Supersede(w)
  <2>1. Progress
    BY <1>1, <1>2, <1>6, SupersedeProgress
  <2>2. StoreNext
    BY <1>2, <1>6 DEF StoreNext, WaveStep
  <2> QED
    BY <1>4, <2>1, <2>2, StepIsFine
<1>7. CASE UNCHANGED svars
  BY <1>4, <1>7, LocalStepIsFine
<1> QED
  BY <1>5, <1>6, <1>7 DEF Apply

\* A handler calls the scheduler of its process and waits.
LEMMA CallIsFine ==
    ASSUME RuntimeInv, NEW j \in RuleJobs, attempt[j] # "none", NEW a \in AttemptStep,
           NEW o \in OpRow, o.by = j, o.queue = {}, o.step \in {"find", "list", "fail"},
           o.step # "find" => o.wave \in Waves /\ wave[o.wave].status # "absent",
           op' = [op EXCEPT ![Executor] = o],
           attempt' = [attempt EXCEPT ![j] = a], job' = job
    PROVE  RuntimeGoesOn
<1>1. OpFine(o, wave, rule)
  BY DEF OpFine
<1>2. /\ job[j].status # "absent" /\ op \in [Procs -> OpRow] /\ job \in [RuleJobs -> JobRow]
      /\ attempt \in [RuleJobs -> AttemptStep]
  BY JobNow
<1>3. Executor \in Procs
  BY DEF Procs
<1>4. /\ op' \in [Procs -> OpRow] /\ op'[Executor] = o
      /\ \A q \in Procs : q # Executor => op'[q] = op[q]
  BY <1>2, <1>3
<1>5. attempt' \in [RuleJobs -> AttemptStep] /\ \A k \in RuleJobs : k # j => attempt'[k] = attempt[k]
  BY <1>2
<1> QED
  BY <1>1, <1>2, <1>4, <1>5, RuntimeSet

LEMMA CallerIsFine ==
    ASSUME DriveInv, NEW j \in RuleJobs, Advance(j) \/ Continue(j) \/ ReportError(j)
    PROVE  StepFine
<1>1. RuntimeInv /\ TypeInv /\ job' = job /\ attempt[j] # "none"
  BY DEF Advance, Continue, ReportError, DriveInv, RuntimeInv
<1>2. SUFFICES RuntimeGoesOn
  <2>1. UNCHANGED svars
    BY DEF Advance, Continue, ReportError
  <2> QED
    BY <2>1, LocalStepIsFine
<1>3. job[j].wave \in Waves /\ job[j].rule \in Rules /\ wave[job[j].wave].status # "absent"
  BY <1>1, JobNow DEF JobFine
<1>4. "waiting" \in AttemptStep /\ "reported" \in AttemptStep /\ "thrown" \in AttemptStep
      /\ "none" \in AttemptStep
  BY DEF AttemptStep
<1>5. ASSUME NEW pc \in {"thrown", "none"}, At(j, pc)
      PROVE  RuntimeGoesOn
  BY <1>1, <1>4, <1>5, AtIsFine
<1>6. CASE /\ Calls(j, "list", job[j].wave, TRUE, {})
           /\ attempt' = [attempt EXCEPT ![j] = "waiting"]
  <2> DEFINE o == [Idle EXCEPT !.step = "list", !.wave = job[j].wave, !.next = TRUE,
                           !.todo = {}, !.by = j]
  <2>1. o \in OpRow /\ o.by = j /\ o.queue = {} /\ o.step = "list" /\ o.wave = job[j].wave
    BY <1>3 DEF Idle, OpRow, AtStep
  <2>2. op' = [op EXCEPT ![Executor] = o] /\ attempt' = [attempt EXCEPT ![j] = "waiting"]
    BY <1>6 DEF Calls
  <2> HIDE DEF o
  <2> QED
    BY <1>1, <1>3, <1>4, <2>1, <2>2, CallIsFine
<1>7. ASSUME NEW w \in RunningWave, Calls(j, "list", w, FALSE, {}),
             attempt' = [attempt EXCEPT ![j] = "waiting"]
      PROVE  RuntimeGoesOn
  <2>1. w \in Waves /\ wave[w].status # "absent"
    BY DEF RunningWave, Running
  <2> DEFINE o == [Idle EXCEPT !.step = "list", !.wave = w, !.next = FALSE,
                           !.todo = {}, !.by = j]
  <2>2. o \in OpRow /\ o.by = j /\ o.queue = {} /\ o.step = "list" /\ o.wave = w
    BY <2>1 DEF Idle, OpRow, AtStep
  <2>3. op' = [op EXCEPT ![Executor] = o] /\ attempt' = [attempt EXCEPT ![j] = "waiting"]
    BY <1>7 DEF Calls
  <2> HIDE DEF o
  <2> QED
    BY <1>1, <1>4, <2>1, <2>2, <2>3, CallIsFine
<1>8. CASE /\ Calls(j, "find", NoWave, TRUE, {})
           /\ attempt' = [attempt EXCEPT ![j] = "waiting"]
  <2> DEFINE o == [Idle EXCEPT !.step = "find", !.wave = NoWave, !.next = TRUE,
                           !.todo = {}, !.by = j]
  <2>1. o \in OpRow /\ o.by = j /\ o.queue = {} /\ o.step = "find" /\ o.wave = NoWave
    BY DEF Idle, OpRow, AtStep
  <2>2. op' = [op EXCEPT ![Executor] = o] /\ attempt' = [attempt EXCEPT ![j] = "waiting"]
    BY <1>8 DEF Calls
  <2> HIDE DEF o
  <2> QED
    BY <1>1, <1>4, <2>1, <2>2, CallIsFine
<1>9. CASE /\ Calls(j, "fail", job[j].wave, FALSE, {job[j].rule})
           /\ attempt' = [attempt EXCEPT ![j] = "reported"]
  <2> DEFINE o == [Idle EXCEPT !.step = "fail", !.wave = job[j].wave, !.next = FALSE,
                           !.todo = {job[j].rule}, !.by = j]
  <2>1. o \in OpRow /\ o.by = j /\ o.queue = {} /\ o.step = "fail" /\ o.wave = job[j].wave
    BY <1>3 DEF Idle, OpRow, AtStep
  <2>2. op' = [op EXCEPT ![Executor] = o] /\ attempt' = [attempt EXCEPT ![j] = "reported"]
    BY <1>9 DEF Calls
  <2> HIDE DEF o
  <2> QED
    BY <1>1, <1>3, <1>4, <2>1, <2>2, CallIsFine
<1> QED
  BY <1>5, <1>6, <1>7, <1>8, <1>9 DEF Advance, Continue, ReportError

LEMMA HandleIsFine ==
    ASSUME DriveInv, NEW j \in RuleJobs, Handle(j) \/ Throw(j)
    PROVE  StepFine
BY JobStepIsFine, CheckStaleIsFine, ApplyIsFine, CallerIsFine DEF Handle

LEMMA CrashIsFine ==
    ASSUME DriveInv, NEW p \in Procs, Crash(p) \/ EffectFails(p)
    PROVE  StepFine
<1>1. RuntimeInv /\ UNCHANGED svars /\ job' = job /\ op' = [op EXCEPT ![p] = Idle]
  BY DEF Crash, EffectFails, DriveInv, RuntimeInv
<1>2. /\ op \in [Procs -> OpRow] /\ job \in [RuleJobs -> JobRow]
      /\ attempt \in [RuleJobs -> AttemptStep]
  BY <1>1, OpNow
<1>3. CASE Crash(p)
  <2>1. op' \in [Procs -> OpRow] /\ op'[p] = Idle /\ \A q \in Procs : q # p => op'[q] = op[q]
    BY <1>1, <1>2, IdleIsFine
  <2>2. /\ attempt' \in [RuleJobs -> AttemptStep]
        /\ \A j \in RuleJobs : attempt'[j] = attempt[j] \/ attempt'[j] = "none"
    BY <1>2, <1>3 DEF Crash, AttemptStep
  <2>3. RuntimeGoesOn
    BY <1>1, <1>2, <2>1, <2>2, RuntimeSet, IdleIsFine
  <2> QED
    BY <1>1, <2>3, LocalStepIsFine
<1>4. CASE EffectFails(p)
  <2>1. "thrown" \in AttemptStep
    BY DEF AttemptStep
  <2>2. RuntimeGoesOn
    BY <1>1, <1>4, <2>1, IdleSet DEF EffectFails
  <2> QED
    BY <1>1, <2>2, LocalStepIsFine
<1> QED
  BY <1>3, <1>4

LEMMA IngressIsFine ==
    ASSUME DriveInv, Ingress
    PROVE  StepFine
<1>1. StoreNext
  BY DEF Ingress, StoreNext, Batches
<1>2. UNCHANGED <<wave, rule>>
  BY DEF Ingress, Mutate, CallbackStep, FenceCallbacks, OpenCallbackBatch, LeaseExpires,
         RenewCallbackBatch, CloseCallbackBatch
<1>3. Progress
  BY <1>2, SameProgress DEF DriveInv, WavesFine
<1>4. RuntimeGoesOn
  BY DEF Ingress, DriveInv, RuntimeGoesOn, runtime
<1> QED
  BY <1>1, <1>3, <1>4, StepIsFine

-----------------------------------------------------------------------------
(* The theorems.                                                            *)

LEMMA DriveInit == WavesInit => DriveInv
<1> SUFFICES ASSUME WavesInit PROVE DriveInv
  OBVIOUS
<1>1. TypeInv
  BY InitTyped DEF WavesInit
<1>2. \A w \in Waves : wave[w].status = "absent" /\ RowsOf(rule[w]) = {}
  BY DEF WavesInit, StoreInit, RowsOf
<1>3. \A w \in Waves : WaveFine(wave[w], rule[w])
  BY <1>2 DEF WaveFine, RowsOf
<1>4. NewJob \in JobRow /\ NewJob.status = "absent" /\ "none" \in AttemptStep
  BY DEF NewJob, JobRow, AttemptStep
<1>5. RuntimeFine(op, job, attempt, wave, rule)
  BY <1>4, IdleIsFine DEF WavesInit, RuntimeFine, JobFine
<1> QED
  BY <1>1, <1>3, <1>5 DEF DriveInv

LEMMA WavesStepIsFine == DriveInv /\ [WavesNext]_pvars => [StoreNext]_svars /\ DriveInv'
<1> SUFFICES ASSUME DriveInv, [WavesNext]_pvars PROVE [StoreNext]_svars /\ DriveInv'
  OBVIOUS
<1>1. StepFine
  <2>1. CASE UNCHANGED pvars
    <3>1. RuntimeGoesOn /\ UNCHANGED svars
      BY <2>1 DEF DriveInv, RuntimeGoesOn, pvars, runtime
    <3> QED
      BY <3>1, LocalStepIsFine
  <2>2. CASE WavesNext
    BY <2>2, SweepIsFine, IngressIsFine, ScheduleIsFine, CrashIsFine, HandleIsFine DEF WavesNext
  <2> QED
    BY <2>1, <2>2
<1>2. TypeInv'
  BY <1>1, TypeStep DEF StepFine, DriveInv
<1> QED
  BY <1>1, <1>2 DEF StepFine, Progress, DriveInv

LEMMA DriveIsInvariant == WavesSpec => []DriveInv
BY DriveInit, WavesStepIsFine, PTL DEF WavesSpec

\* The schedulers of both processes and the rule jobs call the store only as it allows:
\* with a wave and a rule it has, and rules for the wave whose inputs reach them.
THEOREM SchedulersDriveStore == WavesSpec => DrivesStore
<1>1. WavesInit => StoreInit
  BY DEF WavesInit
<1>2. DriveInv /\ [WavesNext]_pvars => [StoreNext]_svars
  BY WavesStepIsFine
<1> QED
  BY <1>1, <1>2, DriveIsInvariant, PTL DEF WavesSpec, DrivesStore, StoreSpec

\* A rule gets its result after the rules it depends on: whoever enqueued it read their
\* results, and neither a late read nor a second scheduler takes them back.
THEOREM RulesRunInOrder == WavesSpec => []RulesInOrder
<1>1. DriveInv => RulesInOrder
  <2>1. \A e \in Edges : e[1] \in Rules /\ e[2] \in Rules
    BY WaveConstants
  <2> QED
    BY <2>1 DEF DriveInv, WaveFine, RulesInOrder, Ready
<1> QED
  BY <1>1, DriveIsInvariant, PTL

\* A wave completes with the result of every rule its inputs reach.
THEOREM CompletedWavesAreDerived == WavesSpec => []CompleteMeansDerived
<1>1. DriveInv => CompleteMeansDerived
  BY DEF DriveInv, WaveFine, CompleteMeansDerived
<1> QED
  BY <1>1, DriveIsInvariant, PTL

-----------------------------------------------------------------------------
(* What an incident waits for.                                              *)

\* A wave that reaches generation g runs, or can be claimed.
Expected(rows, g, waves) ==
    \/ \E d \in rows : d.generation >= g
    \/ \E v \in Waves : waves[v].status = "running" /\ waves[v].cutoff >= g

\* An incident comes with the end of its wave, and waits for what the journal or the
\* running wave holds.
Awaited ==
    /\ \A w \in Waves : wave[w].status # "absent" => wave[w].inputs # {}
    /\ \A w \in Waves : incident[w].status # "none" => wave[w].status \in {"failed", "superseded"}
    /\ \A w \in Waves : wave[w].status = "failed" => incident[w].status # "none"
    /\ \A w \in Waves : wave[w].status = "failed" /\ incident[w].status = "unresolved" =>
          Expected(dirty, incident[w].recovery, wave)

LEMMA SameAwaited ==
    ASSUME Awaited, UNCHANGED <<wave, incident>>, dirty \subseteq dirty'
    PROVE  Awaited'
<1>1. \A g : Expected(dirty, g, wave) => Expected(dirty', g, wave')
  BY DEF Expected
<1> QED
  BY <1>1 DEF Awaited

LEMMA ClaimWaveAwaited ==
    ASSUME RecoveryInv, Awaited, NEW w \in Waves, ClaimWave(w)
    PROVE  Awaited'
<1> DEFINE row == [status |-> "running", cutoff |-> RecoveryGeneration(dirty, Never),
                   epoch |-> epoch, inputs |-> Latest(dirty)]
<1>1. /\ dirty \in SUBSET Entry /\ generation \in Nat /\ Below(dirty, generation)
      /\ wave \in [Waves -> WaveRow]
      /\ incident \in [Waves -> [status : {"none", "unresolved", "resolved"}, recovery : Nat]]
  BY DEF RecoveryInv, KeptInv, TypeInv, StoreTypeOK, Below
<1>2. /\ wave[w].status = "absent" /\ dirty # {} /\ incident' = incident
      /\ \A v \in Waves : ~Running(v)
      /\ wave' = [wave EXCEPT ![w] = row]
  BY DEF ClaimWave
<1>3. /\ row.status = "running" /\ row.cutoff = RecoveryGeneration(dirty, Never)
      /\ row.inputs = Latest(dirty)
  OBVIOUS
<1> HIDE DEF row
<1>4. wave'[w] = row /\ \A v \in Waves : v # w => wave'[v] = wave[v]
  BY <1>1, <1>2
<1>5. row.cutoff \in Nat /\ Below(dirty, row.cutoff)
  BY <1>1, <1>3, RecoveryType DEF Never
<1>6. row.inputs # {}
  BY <1>1, <1>2, <1>3, LatestExists
<1>7. ASSUME NEW v \in Waves, wave'[v].status = "failed", incident[v].status = "unresolved"
      PROVE  Expected(dirty', incident[v].recovery, wave')
  <2>1. v # w
    BY <1>3, <1>4, <1>7
  <2>2. Expected(dirty, incident[v].recovery, wave)
    BY <1>4, <1>7, <2>1 DEF Awaited
  <2>3. PICK d \in dirty : d.generation >= incident[v].recovery
    BY <1>2, <2>2 DEF Expected, Running
  <2>4. d.generation \in Nat /\ d.generation <= row.cutoff /\ incident[v].recovery \in Nat
    BY <1>1, <1>5 DEF Below, Entry
  <2>5. row.cutoff >= incident[v].recovery
    BY <1>5, <2>3, <2>4
  <2> QED
    BY <1>3, <1>4, <2>5 DEF Expected
<1>8. incident[w].status = "none"
  BY <1>2 DEF Awaited
<1> QED
  BY <1>2, <1>3, <1>4, <1>6, <1>7, <1>8 DEF Awaited

\* What the wave had taken is in the journal again, above its cutoff.
LEMMA RequeueExpected ==
    ASSUME RecoveryInv, Awaited, NEW w \in Waves, Running(w), Requeue(w)
    PROVE  /\ \E d \in dirty' : d.generation > wave[w].cutoff
           /\ dirty \subseteq dirty' /\ dirty' \in SUBSET Entry
           /\ generation' \in Nat /\ Below(dirty', generation')
<1>1. TypeInv /\ wave[w].cutoff \in Nat /\ wave[w].cutoff <= generation /\ generation \in Nat
      /\ \A d \in dirty : d.generation > wave[w].cutoff
  BY DEF RecoveryInv, KeptInv, TypeInv, StoreTypeOK, WaveRow, Recovery, RunningAhead
<1>2. /\ dirty \subseteq dirty' /\ dirty' \subseteq Entry
      /\ generation' \in Nat /\ Below(dirty', generation')
      /\ \A d \in dirty' \ dirty : d.generation > generation
      /\ \A i \in Missing(w) : \E d \in dirty' : d.source = i.source /\ d.revision = i.revision
  BY <1>1, RequeueEffect
<1>3. PICK i \in wave[w].inputs : TRUE
  BY DEF Awaited, Running
<1>4. CASE Pending(i.source)
  BY <1>1, <1>2, <1>4 DEF Pending
<1>5. CASE ~Pending(i.source)
  <2>1. PICK d \in dirty' : d.source = i.source
    BY <1>2, <1>3, <1>5 DEF Missing
  <2>2. d \notin dirty
    BY <1>5, <2>1 DEF Pending
  <2>3. d.generation > generation /\ d.generation \in Nat
    BY <1>2, <2>1, <2>2 DEF Entry
  <2>4. d.generation > wave[w].cutoff
    BY <1>1, <2>3
  <2> QED
    BY <1>2, <2>1, <2>4
<1> QED
  BY <1>2, <1>4, <1>5

\* A wave that ends without a result leaves every older incident what it waits for.
LEMMA RequeueAwaited ==
    ASSUME RecoveryInv, Awaited, NEW w \in Waves, NEW status \in {"failed", "superseded"},
           WaveEnds(w, status), Requeue(w),
           \A v \in Waves : v # w => incident'[v] = incident[v],
           IF status = "superseded" THEN incident'[w] = incident[w]
           ELSE /\ incident'[w].status = "unresolved"
                /\ incident'[w].recovery = RecoveryGeneration(dirty', wave[w].cutoff)
    PROVE  Awaited'
<1>1. TypeInv /\ Running(w)
  BY DEF RecoveryInv, KeptInv, WaveEnds
<1>2. /\ wave[w].cutoff \in Nat /\ wave \in [Waves -> WaveRow]
      /\ incident \in [Waves -> [status : {"none", "unresolved", "resolved"}, recovery : Nat]]
      /\ \A v \in Waves : Running(v) => v = w
  BY <1>1 DEF TypeInv, StoreTypeOK, WaveRow
<1>3. /\ \A v \in Waves : wave'[v].inputs = wave[v].inputs /\ (v # w => wave'[v] = wave[v])
      /\ wave'[w].status = status
  <2>1. wave'[w].status = status
    BY <1>2 DEF WaveEnds, WaveRow
  <2> QED
    BY <1>1, <2>1, EndsEffect
<1>4. /\ dirty \subseteq dirty' /\ dirty' \in SUBSET Entry
      /\ generation' \in Nat /\ Below(dirty', generation')
  BY <1>1, RequeueExpected
<1>5. PICK d \in dirty' : d.generation > wave[w].cutoff
  BY <1>1, RequeueExpected
<1>6. incident[w].status = "none"
  BY <1>1 DEF Awaited, Running
<1>7. ASSUME NEW v \in Waves, v # w, wave[v].status = "failed", incident[v].status = "unresolved"
      PROVE  Expected(dirty', incident[v].recovery, wave')
  <2>1. Expected(dirty, incident[v].recovery, wave)
    BY <1>7 DEF Awaited
  <2>2. CASE \E e \in dirty : e.generation >= incident[v].recovery
    BY <1>4, <2>2 DEF Expected
  <2>3. CASE wave[w].cutoff >= incident[v].recovery
    <3>1. d.generation \in Nat /\ incident[v].recovery \in Nat
      BY <1>2, <1>4, <1>5 DEF Entry
    <3>2. d.generation >= incident[v].recovery
      BY <1>2, <1>5, <2>3, <3>1
    <3> QED
      BY <1>5, <3>2 DEF Expected
  <2> QED
    BY <1>2, <2>1, <2>2, <2>3 DEF Expected, Running
<1>8. status = "failed" => Expected(dirty', incident'[w].recovery, wave')
  <2>1. \E e \in dirty' : e.generation = RecoveryGeneration(dirty', wave[w].cutoff)
    BY <1>2, <1>4, <1>5, RecoveryType
  <2>2. \A e \in dirty' : e.generation \in Nat
    BY <1>4 DEF Entry
  <2> QED
    BY <2>1, <2>2 DEF Expected
<1>9. \A v \in Waves : v # w => /\ wave'[v] = wave[v] /\ incident'[v] = incident[v]
  BY <1>3
<1>10. ASSUME NEW v \in Waves
       PROVE  /\ wave'[v].status # "absent" => wave'[v].inputs # {}
              /\ incident'[v].status # "none" => wave'[v].status \in {"failed", "superseded"}
              /\ wave'[v].status = "failed" => incident'[v].status # "none"
              /\ wave'[v].status = "failed" /\ incident'[v].status = "unresolved" =>
                    Expected(dirty', incident'[v].recovery, wave')
  <2>1. CASE v = w
    BY <1>1, <1>3, <1>6, <1>8, <2>1 DEF Awaited, Running
  <2>2. CASE v # w
    BY <1>7, <1>9, <2>2 DEF Awaited
  <2> QED
    BY <2>1, <2>2
<1> QED
  BY <1>10 DEF Awaited

LEMMA FailWaveAwaited ==
    ASSUME RecoveryInv, Awaited, NEW w \in Waves, NEW r \in Rules, FailWave(w, r)
    PROVE  Awaited'
<1> DEFINE new == [status |-> "unresolved",
                   recovery |-> RecoveryGeneration(dirty', wave[w].cutoff)]
<1>1. incident \in [Waves -> [status : {"none", "unresolved", "resolved"}, recovery : Nat]]
  BY DEF RecoveryInv, KeptInv, TypeInv, StoreTypeOK
<1>2. incident' = IF incident[w].status # "none" THEN incident
                  ELSE [incident EXCEPT ![w] = new]
  BY DEF FailWave
<1>3. new.status = "unresolved" /\ new.recovery = RecoveryGeneration(dirty', wave[w].cutoff)
  OBVIOUS
<1> HIDE DEF new
<1>4. /\ \A v \in Waves : v # w => incident'[v] = incident[v]
      /\ incident[w].status # "none" => incident' = incident
      /\ incident[w].status = "none" => incident'[w] = new
  BY <1>1, <1>2
<1>5. CASE Running(w) /\ Requeue(w) /\ wave' = [wave EXCEPT ![w].status = "failed"]
  <2>1. incident[w].status = "none"
    BY <1>5 DEF Awaited, Running
  <2> QED
    BY <1>3, <1>4, <1>5, <2>1, RequeueAwaited DEF WaveEnds
<1>6. CASE ~Running(w) /\ UNCHANGED <<journal, wave>>
  <2>1. wave' = wave /\ dirty' = dirty
    BY <1>6 DEF journal
  <2>2. wave[w].status \in {"failed", "superseded"}
    BY <1>6 DEF FailWave, Running
  <2>3. CASE incident[w].status # "none"
    BY <1>4, <2>1, <2>3, SameAwaited
  <2>4. CASE incident[w].status = "none"
    <3>1. wave[w].status = "superseded"
      BY <2>2, <2>4 DEF Awaited
    <3>2. \A v \in Waves : wave[v].status = "failed" => incident'[v] = incident[v]
      BY <1>4, <3>1
    <3>3. \A v \in Waves : incident'[v].status # "none" => wave[v].status \in {"failed", "superseded"}
      BY <1>4, <3>1 DEF Awaited
    <3> QED
      BY <2>1, <3>2, <3>3 DEF Awaited
  <2> QED
    BY <2>3, <2>4
<1> QED
  BY <1>5, <1>6 DEF FailWave

LEMMA CompleteWaveAwaited ==
    ASSUME RecoveryInv, Awaited, NEW w \in Waves, CompleteWave(w)
    PROVE  Awaited'
<1>1. /\ TypeInv /\ WaveEnds(w, "completed") /\ dirty' = dirty
      /\ wave \in [Waves -> WaveRow] /\ wave[w].cutoff \in Nat
      /\ incident \in [Waves -> [status : {"none", "unresolved", "resolved"}, recovery : Nat]]
      /\ \A v \in Waves : Running(v) => v = w
  BY DEF RecoveryInv, KeptInv, TypeInv, StoreTypeOK, WaveRow, CompleteWave, WaveEnds, journal
<1>2. /\ \A v \in Waves : wave'[v].inputs = wave[v].inputs /\ (v # w => wave'[v] = wave[v])
      /\ wave'[w].status = "completed"
  <2>1. wave'[w].status = "completed"
    BY <1>1 DEF WaveEnds, WaveRow
  <2> QED
    BY <1>1, <2>1, EndsEffect
<1>3. \A v \in Waves : incident'[v] = Resolved(incident[v], wave[w].cutoff)
  BY DEF CompleteWave
<1>4. \A v \in Waves : incident'[v].status = "none" <=> incident[v].status = "none"
  BY <1>1, <1>3 DEF Resolved
<1>5. incident[w].status = "none"
  BY <1>1 DEF Awaited, WaveEnds, Running
<1>6. ASSUME NEW v \in Waves, v # w, wave[v].status = "failed", incident'[v].status = "unresolved"
      PROVE  Expected(dirty', incident'[v].recovery, wave')
  <2>1. /\ incident[v].status = "unresolved" /\ incident'[v] = incident[v]
        /\ ~(incident[v].recovery <= wave[w].cutoff)
    BY <1>1, <1>3, <1>6 DEF Resolved
  <2>2. incident[v].recovery \in Nat /\ ~(wave[w].cutoff >= incident[v].recovery)
    BY <1>1, <2>1
  <2>3. \E d \in dirty : d.generation >= incident[v].recovery
    BY <1>1, <1>6, <2>1, <2>2 DEF Awaited, Expected, Running
  <2> QED
    BY <1>1, <2>1, <2>3 DEF Expected
<1>7. \A v \in Waves : v # w => wave'[v] = wave[v]
  BY <1>2
<1> QED
  BY <1>1, <1>2, <1>4, <1>5, <1>6, <1>7, ZenonT(60) DEF Awaited, WaveEnds, Running

LEMMA AwaitedStep == RecoveryInv /\ Awaited /\ [StoreNext]_svars => Awaited'
<1> SUFFICES ASSUME RecoveryInv, Awaited, [StoreNext]_svars PROVE Awaited'
  OBVIOUS
<1>1. CASE UNCHANGED svars
  BY <1>1, SameAwaited DEF svars, journal
<1>2. CASE RuleEffect
  BY <1>2, SameAwaited DEF RuleEffect, journal
<1>3. CASE BatchEffect
  BY <1>3, SameAwaited DEF BatchEffect, journal
<1>4. ASSUME NEW s \in Sources, NEW b \in Batches \cup {Unscoped}, Mutate(s, b)
      PROVE  Awaited'
  BY <1>4, SameAwaited DEF Mutate
<1>5. ASSUME NEW w \in Waves, Supersede(w)
      PROVE  Awaited'
  BY <1>5, RequeueAwaited DEF Supersede, WaveEnds
<1> QED
  BY <1>1, <1>2, <1>3, <1>4, <1>5, StoreSteps, ClaimWaveAwaited, FailWaveAwaited,
     CompleteWaveAwaited DEF RecoveryInv, KeptInv

\* The incident of a failed wave never waits for nothing: until it is resolved, the
\* journal or the running wave holds what will resolve it.
THEOREM IncidentsWillResolve == WavesSpec => []IncidentWillResolve
<1>1. WavesInit => Awaited
  BY DEF WavesInit, StoreInit, Awaited
<1>2. RecoveryInv /\ Awaited /\ [StoreNext]_svars => Awaited'
  BY AwaitedStep
<1>3. Awaited => IncidentWillResolve
  BY DEF Awaited, Expected, IncidentWillResolve, Running
<1>4. WavesSpec => []RecoveryInv /\ [][StoreNext]_svars
  BY SchedulersDriveStore, RecoveryIsInvariant, PTL DEF DrivesStore, StoreSpec
<1>5. WavesSpec => WavesInit
  BY DEF WavesSpec
<1> QED
  BY <1>1, <1>2, <1>3, <1>4, <1>5, PTL

=============================================================================
