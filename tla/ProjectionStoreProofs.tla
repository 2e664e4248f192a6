------------------------ MODULE ProjectionStoreProofs ------------------------
(* Theorems about ProjectionStore, for every set of sources, rules, waves   *)
(* and batches, and any number of mutations.                                *)
EXTENDS ProjectionStore, FiniteSetTheorems, TLAPS

-----------------------------------------------------------------------------
(* Generations.                                                             *)

\* A bounded set of numbers has a greatest element.
LEMMA GreatestExists ==
    ASSUME NEW S \in SUBSET Nat, S # {}, NEW n \in Nat, \A x \in S : x <= n
    PROVE  \E m \in S : \A x \in S : x <= m
<1> DEFINE T == {n - x : x \in S}
<1>1. \A x \in S : n - x \in Nat /\ n - x \in T
  OBVIOUS
<1>2. T \subseteq Nat /\ T # {}
  BY <1>1
<1> DEFINE R == {p \in Nat \X Nat : p[1] < p[2]}
<1>3. IsWellFoundedOn(R, Nat)
  BY NatLessThanWellFounded DEF OpToRel
<1>4. PICK t \in T : \A u \in T : ~(<<u, t>> \in R)
  <2> HIDE DEF T, R
  <2> QED
    BY <1>2, <1>3, WFMin
<1>5. \A u \in T : ~(u < t)
  BY <1>2, <1>4
<1>6. PICK m \in S : t = n - m
  BY <1>4
<1>7. \A x \in S : x <= m
  <2> TAKE x \in S
  <2>1. ~(n - x < n - m)
    BY <1>5, <1>6
  <2> QED
    BY <2>1
<1> QED
  BY <1>7

\* No two rows have the same generation.
Numbered(rows) == \A d, e \in rows : d.generation = e.generation => d = e

Below(rows, g) == \A d \in rows : d.generation <= g

\* Numbered rows are finitely many.
LEMMA NumberedIsFinite ==
    ASSUME NEW rows \in SUBSET Entry, NEW g \in Nat, Numbered(rows), Below(rows, g)
    PROVE  IsFiniteSet(rows)
<1> DEFINE f == [d \in rows |-> d.generation]
<1>1. \A d \in rows : d.generation \in 0..g
  BY DEF Below, Entry
<1>2. f \in Injection(rows, 0..g)
  BY <1>1 DEF Injection, IsInjective, Numbered
<1>3. IsFiniteSet(0..g)
  BY FS_Interval
<1> HIDE DEF f
<1> QED
  BY <1>2, <1>3, FS_Injection

\* The recovery generation is that of a row, or the fallback, and bounds the rows.
LEMMA RecoveryType ==
    ASSUME NEW rows \in SUBSET Entry, NEW g \in Nat, Below(rows, g), NEW fallback \in Nat
    PROVE  /\ RecoveryGeneration(rows, fallback) \in Nat
           /\ Below(rows, RecoveryGeneration(rows, fallback))
           /\ rows # {} => \E d \in rows : d.generation = RecoveryGeneration(rows, fallback)
<1> DEFINE S == {d.generation : d \in rows} \cup (IF rows = {} THEN {fallback} ELSE {})
<1>1. S \in SUBSET Nat /\ S # {}
  BY DEF Entry
<1>2. \E m \in S : \A d \in rows : d.generation <= m
  <2>1. CASE rows = {}
    BY <2>1
  <2>2. CASE rows # {}
    <3>1. \A x \in S : x <= g
      BY <2>2 DEF Below
    <3>2. PICK m \in S : \A x \in S : x <= m
      <4> HIDE DEF S
      <4> QED
        BY <1>1, <3>1, GreatestExists
    <3> QED
      BY <3>2
  <2> QED
    BY <2>1, <2>2
<1>3. /\ RecoveryGeneration(rows, fallback) \in S
      /\ \A d \in rows : d.generation <= RecoveryGeneration(rows, fallback)
  BY <1>2 DEF RecoveryGeneration
<1> QED
  BY <1>1, <1>3 DEF Below

\* A source in the journal has a latest row.
LEMMA LatestExists ==
    ASSUME NEW rows \in SUBSET Entry, NEW g \in Nat, Below(rows, g), NEW d \in rows
    PROVE  \E e \in Latest(rows) : e.source = d.source
<1> DEFINE S == {e.generation : e \in {k \in rows : k.source = d.source}}
<1>1. S \in SUBSET Nat /\ S # {} /\ \A x \in S : x <= g
  BY DEF Entry, Below
<1>2. PICK m \in S : \A x \in S : x <= m
  <2> HIDE DEF S
  <2> QED
    BY <1>1, GreatestExists
<1>3. PICK e \in rows : e.source = d.source /\ e.generation = m
  OBVIOUS
<1>4. \A k \in rows : k.source = e.source => k.generation <= e.generation
  BY <1>2, <1>3
<1> QED
  BY <1>3, <1>4 DEF Latest

-----------------------------------------------------------------------------
(* Type correctness.                                                        *)

\* Type correctness is inductive together with the numbering of the rows, from
\* which their finiteness follows, that Requeue needs to count them.
NumberedRows ==
    /\ Numbered(dirty)
    /\ \A w \in Waves : Numbered(wave[w].inputs) /\ Below(wave[w].inputs, generation)

TypeInv == StoreTypeOK /\ NumberedRows

LEMMA InitTyped == StoreInit => TypeInv
<1> SUFFICES ASSUME StoreInit PROVE TypeInv
  OBVIOUS
<1>1. NoBatch \in BatchRow
  BY DEF NoBatch, BatchRow, ActiveStatus, Never
<1>2. \A w \in Waves : wave[w] \in WaveRow /\ wave[w].inputs = {} /\ wave[w].status = "absent"
                       /\ wave[w].epoch = 0
  BY DEF StoreInit, WaveRow
<1>3. rule \in [Waves -> [Rules -> RuleRow]]
  BY DEF StoreInit, RuleRow
<1>4. batch \in [Batches -> BatchRow]
  BY <1>1 DEF StoreInit
<1>5. wave \in [Waves -> WaveRow]
  BY <1>2 DEF StoreInit
<1>6. incident \in [Waves -> [status : {"none", "unresolved", "resolved"}, recovery : Nat]]
  BY DEF StoreInit, Never
<1>7. StoreTypeOK
  BY <1>2, <1>3, <1>4, <1>5, <1>6 DEF StoreInit, StoreTypeOK, Running
<1>8. NumberedRows
  BY <1>2 DEF StoreInit, NumberedRows, Numbered, Below
<1> QED
  BY <1>7, <1>8 DEF TypeInv

\* What a step of a batch, or of recovery, does to a batch: it abandons it, with what is
\* in the journal to recover, or it neither abandons nor recovers it.
SameEnd(old, new) ==
    /\ new.status = "abandoned" <=> old.status = "abandoned"
    /\ new.recovery = old.recovery /\ new.recovered = old.recovered
    /\ new.highest = old.highest

NewEnd(old, new) ==
    /\ new.status = "abandoned"
    /\ new.recovery = RecoveryGeneration(dirty, old.highest)
    /\ new.recovered = (old.highest = Never)
    /\ new.highest = old.highest

\* A batch that ends is a batch.
LEMMA EndedType ==
    ASSUME TypeInv, NEW row \in BatchRow, NEW clean \in BOOLEAN
    PROVE  /\ Abandoned(row) \in BatchRow
           /\ Ended(row, clean) \in BatchRow
           /\ Ended(row, clean).status \notin ActiveStatus
           /\ Abandoned(row).status \notin ActiveStatus
           /\ NewEnd(row, Abandoned(row))
           /\ row.status # "abandoned" =>
                 SameEnd(row, Ended(row, clean)) \/ NewEnd(row, Ended(row, clean))
<1>1. row.highest \in Nat
  BY DEF BatchRow
<1>2. dirty \subseteq Entry /\ generation \in Nat /\ Below(dirty, generation)
  BY DEF TypeInv, StoreTypeOK, Below
<1>3. RecoveryGeneration(dirty, row.highest) \in Nat
  BY <1>1, <1>2, RecoveryType
<1>4. Abandoned(row) \in BatchRow /\ Abandoned(row).status = "abandoned"
  BY <1>3 DEF Abandoned, BatchRow
<1>5. [row EXCEPT !.status = "closed"] \in BatchRow
  BY DEF BatchRow
<1>6. NewEnd(row, Abandoned(row))
  BY <1>3 DEF NewEnd, Abandoned, BatchRow
<1>7. row.status # "abandoned" => SameEnd(row, [row EXCEPT !.status = "closed"])
  BY DEF SameEnd, BatchRow
<1> QED
  BY <1>4, <1>5, <1>6, <1>7 DEF Ended, ActiveStatus, BatchRow

\* It may open a batch, and then it raises the epoch.
BatchEffect ==
    /\ UNCHANGED <<journal, wave, rule, incident, history>>
    /\ batch' \in [Batches -> BatchRow]
    /\ \A b \in Batches : SameEnd(batch[b], batch'[b]) \/ NewEnd(batch[b], batch'[b])
    /\ \/ epoch' = epoch + 1
       \/ /\ epoch' = epoch
          /\ \A b \in Batches : batch'[b].status \in ActiveStatus => Active(b)

\* A step that writes one row, and neither abandons nor recovers its batch.
LEMMA RowEffect ==
    ASSUME TypeInv, NEW b \in Batches, NEW new \in BatchRow, SameEnd(batch[b], new),
           batch' = [batch EXCEPT ![b] = new],
           UNCHANGED <<journal, wave, rule, incident, history>>,
           epoch' = epoch + 1 \/ (epoch' = epoch /\ Active(b))
    PROVE  BatchEffect
<1>1. batch \in [Batches -> BatchRow]
  BY DEF TypeInv, StoreTypeOK
<1>2. batch'[b] = new /\ \A a \in Batches : a # b => batch'[a] = batch[a]
  BY <1>1
<1>3. batch' \in [Batches -> BatchRow]
  BY <1>1
<1>4. \A a \in Batches : SameEnd(batch[a], batch'[a])
  BY <1>2 DEF SameEnd
<1> QED
  BY <1>2, <1>3, <1>4 DEF BatchEffect, Active

LEMMA OpenedEffect ==
    ASSUME TypeInv, NEW b \in Batches, NEW status \in ActiveStatus, Opened(b, status),
           UNCHANGED <<journal, wave, rule, incident, history>>
    PROVE  BatchEffect
<1> DEFINE new == [batch[b] EXCEPT !.status = status, !.leased = TRUE]
<1>1. batch \in [Batches -> BatchRow]
  BY DEF TypeInv, StoreTypeOK
<1>2. new \in BatchRow /\ SameEnd(batch[b], new)
  BY <1>1 DEF BatchRow, SameEnd, ActiveStatus, Opened
<1>3. batch' = [batch EXCEPT ![b] = new]
  BY <1>1 DEF Opened, BatchRow
<1> HIDE DEF new
<1> QED
  BY <1>2, <1>3, RowEffect DEF Opened

LEMMA CallbackStepEffect ==
    ASSUME TypeInv, NEW b \in Batches, CallbackStep(b)
    PROVE  BatchEffect
<1>1. batch \in [Batches -> BatchRow]
  BY DEF TypeInv, StoreTypeOK
<1>2. CASE OpenCallbackBatch(b)
  BY <1>2, OpenedEffect DEF OpenCallbackBatch, ActiveStatus
<1>3. ASSUME NEW lease \in BOOLEAN, batch[b].status = "open",
             batch' = [batch EXCEPT ![b].leased = lease],
             UNCHANGED <<journal, epoch, wave, rule, incident, history>>
      PROVE  BatchEffect
  <2> DEFINE new == [batch[b] EXCEPT !.leased = lease]
  <2>1. new \in BatchRow /\ SameEnd(batch[b], new) /\ Active(b)
    BY <1>1, <1>3 DEF BatchRow, SameEnd, Active, ActiveStatus
  <2>2. batch' = [batch EXCEPT ![b] = new]
    BY <1>1, <1>3 DEF BatchRow
  <2> HIDE DEF new
  <2> QED
    BY <1>3, <2>1, <2>2, RowEffect
<1>4. CASE LeaseExpires(b) \/ RenewCallbackBatch(b)
  BY <1>3, <1>4 DEF LeaseExpires, RenewCallbackBatch
<1>5. CASE CloseCallbackBatch(b)
  <2> DEFINE new == [batch[b] EXCEPT !.status = "closed"]
  <2>1. new \in BatchRow /\ SameEnd(batch[b], new) /\ Active(b)
    BY <1>1, <1>5 DEF BatchRow, SameEnd, Active, ActiveStatus, CloseCallbackBatch
  <2>2. batch' = [batch EXCEPT ![b] = new]
    BY <1>1, <1>5 DEF BatchRow, CloseCallbackBatch
  <2> HIDE DEF new
  <2> QED
    BY <1>5, <2>1, <2>2, RowEffect DEF CloseCallbackBatch
<1> QED
  BY <1>2, <1>4, <1>5 DEF CallbackStep

\* A child map written by SettleChild or ReconcileRoot is one.
ChildMap == [Children -> {"absent", "active", "completed", "failed"}]

LEMMA SettledBatch ==
    ASSUME TypeInv, NEW b \in Batches, Active(b), NEW row, NEW children \in ChildMap,
           row \in {batch[b]} \cup {Ended(batch[b], clean) : clean \in BOOLEAN},
           batch' = [batch EXCEPT ![b] = [row EXCEPT !.child = children]],
           UNCHANGED <<journal, epoch, wave, rule, incident, history>>
    PROVE  BatchEffect
<1>1. batch \in [Batches -> BatchRow]
  BY DEF TypeInv, StoreTypeOK
<1>2. row \in BatchRow
  BY <1>1, EndedType
<1> DEFINE new == [row EXCEPT !.child = children]
<1>3. /\ new \in BatchRow
      /\ new.status = row.status /\ new.recovery = row.recovery
      /\ new.recovered = row.recovered /\ new.highest = row.highest
  BY <1>2 DEF BatchRow, ChildMap
<1>4. /\ batch' = [batch EXCEPT ![b] = new]
      /\ batch'[b] = new /\ \A a \in Batches : a # b => batch'[a] = batch[a]
  BY <1>1
<1> HIDE DEF new
<1>5. SameEnd(batch[b], row) \/ NewEnd(batch[b], row)
  BY <1>1, EndedType DEF SameEnd, Active, ActiveStatus
<1>6. \A a \in Batches : SameEnd(batch[a], batch'[a]) \/ NewEnd(batch[a], batch'[a])
  BY <1>3, <1>4, <1>5 DEF SameEnd, NewEnd
<1>7. batch' \in [Batches -> BatchRow]
  BY <1>1, <1>3, <1>4
<1>8. \A a \in Batches : batch'[a].status \in ActiveStatus => Active(a)
  BY <1>3, <1>4 DEF Active
<1> QED
  BY <1>6, <1>7, <1>8 DEF BatchEffect

LEMMA RootStepEffect ==
    ASSUME TypeInv, NEW b \in Batches, RootStep(b)
    PROVE  BatchEffect
<1>1. batch \in [Batches -> BatchRow]
  BY DEF TypeInv, StoreTypeOK
<1>2. CASE PrepareRoot(b)
  BY <1>2, OpenedEffect DEF PrepareRoot, ActiveStatus
<1>3. CASE FinalizeRoot(b)
  <2> DEFINE new == [batch[b] EXCEPT !.status = "open"]
  <2>1. new \in BatchRow /\ SameEnd(batch[b], new) /\ Active(b)
    BY <1>1, <1>3 DEF BatchRow, SameEnd, Active, ActiveStatus, FinalizeRoot
  <2>2. batch' = [batch EXCEPT ![b] = new]
    BY <1>1, <1>3 DEF BatchRow, FinalizeRoot
  <2> HIDE DEF new
  <2> QED
    BY <1>3, <2>1, <2>2, RowEffect DEF FinalizeRoot
<1>4. ASSUME NEW c \in Children, OpenChild(b, c)
      PROVE  BatchEffect
  <2> DEFINE new == [batch[b] EXCEPT !.status = "open", !.child[c] = "active"]
  <2>1. new \in BatchRow /\ SameEnd(batch[b], new)
    BY <1>1, <1>4, ZenonT(60) DEF BatchRow, SameEnd, ActiveStatus, OpenChild, Active
  <2>2. batch' = [batch EXCEPT ![b] = new]
    BY <1>1, <1>4 DEF OpenChild, BatchRow
  <2> HIDE DEF new
  <2> QED
    BY <1>4, <2>1, <2>2, RowEffect DEF OpenChild
<1>5. ASSUME NEW c \in Children, NEW outcome \in Outcomes, SettleChild(b, c, outcome)
      PROVE  BatchEffect
  <2> DEFINE children == [batch[b].child EXCEPT ![c] = outcome]
             clean == \A k \in Children : children[k] = "completed"
             row == IF Terminal(children) THEN Ended(batch[b], clean) ELSE batch[b]
  <2>1. children \in ChildMap
    BY <1>1 DEF BatchRow, ChildMap, Outcomes
  <2>2. batch' = [batch EXCEPT ![b] = [row EXCEPT !.child = children]]
    BY <1>1, <1>5 DEF SettleChild
  <2>3. Active(b) /\ UNCHANGED <<journal, epoch, wave, rule, incident, history>>
    BY <1>5 DEF SettleChild
  <2>4. row \in {batch[b]} \cup {Ended(batch[b], z) : z \in BOOLEAN}
    OBVIOUS
  <2> HIDE DEF children, row
  <2> QED
    BY <2>1, <2>2, <2>3, <2>4, SettledBatch
<1>6. ASSUME NEW C \in SUBSET Children, NEW jobs \in [C -> Outcomes], ReconcileRoot(b, jobs)
      PROVE  BatchEffect
  <2> DEFINE children == [c \in Children |->
                            IF c \in DOMAIN jobs THEN jobs[c] ELSE batch[b].child[c]]
             clean == \A c \in Children : c \in DOMAIN jobs /\ jobs[c] = "completed"
             row == Ended(batch[b], clean)
  <2>1. children \in ChildMap
    BY <1>1 DEF BatchRow, ChildMap, Outcomes
  <2>2. batch' = [batch EXCEPT ![b] = [row EXCEPT !.child = children]]
    BY <1>1, <1>6 DEF ReconcileRoot
  <2>3. Active(b) /\ UNCHANGED <<journal, epoch, wave, rule, incident, history>>
    BY <1>6 DEF ReconcileRoot
  <2>4. row \in {batch[b]} \cup {Ended(batch[b], z) : z \in BOOLEAN}
    OBVIOUS
  <2> HIDE DEF children, row
  <2> QED
    BY <2>1, <2>2, <2>3, <2>4, SettledBatch
<1> QED
  BY <1>2, <1>3, <1>4, <1>5, <1>6 DEF RootStep

LEMMA FenceEffect ==
    ASSUME TypeInv, FenceCallbacks
    PROVE  BatchEffect
<1>1. batch \in [Batches -> BatchRow]
  BY DEF TypeInv, StoreTypeOK
<1>2. \A b \in Batches : batch'[b] \in {batch[b], Abandoned(batch[b])}
  BY DEF FenceCallbacks
<1>3. \A b \in Batches : /\ Abandoned(batch[b]) \in BatchRow
                         /\ Abandoned(batch[b]).status \notin ActiveStatus
                         /\ NewEnd(batch[b], Abandoned(batch[b]))
  BY <1>1, EndedType
<1>4. batch' = [b \in Batches |-> batch'[b]]
  BY DEF FenceCallbacks
<1>5. batch' \in [Batches -> BatchRow]
  BY <1>1, <1>2, <1>3, <1>4
<1>6. \A b \in Batches : SameEnd(batch[b], batch'[b]) \/ NewEnd(batch[b], batch'[b])
  BY <1>2, <1>3 DEF SameEnd
<1> QED
  BY <1>2, <1>3, <1>5, <1>6 DEF FenceCallbacks, BatchEffect, Active

\* What a step of a rule does: it writes one rule map, and only ApplyResult, on a
\* wave that runs and is not stale, gives a rule its result.
RuleEffect ==
    /\ UNCHANGED <<journal, epoch, wave, batch, incident, history>>
    /\ rule' \in [Waves -> [Rules -> RuleRow]]
    /\ \A w \in Waves, r \in Rules :
          rule'[w][r].status = "completed" =>
             rule[w][r].status = "completed" \/ (Running(w) /\ Fresh(w))

LEMMA RuleStepEffect ==
    ASSUME TypeInv, NEW w \in Waves
    PROVE  /\ \A R \in SUBSET Rules : PutRules(w, R) => RuleEffect
           /\ \A r \in Rules : ApplyResult(w, r) => RuleEffect
           /\ \A r \in Rules, j \in RuleJobs : QueueRule(w, r, j) => RuleEffect
<1>1. rule \in [Waves -> [Rules -> RuleRow]]
  BY DEF TypeInv, StoreTypeOK
<1>2. ASSUME NEW R \in SUBSET Rules, PutRules(w, R)
      PROVE  RuleEffect
  <2> DEFINE new == [r \in Rules |-> IF r \in R THEN [status |-> "pending", job |-> NoJob]
                                     ELSE rule[w][r]]
  <2>1. new \in [Rules -> RuleRow]
    BY <1>1 DEF RuleRow
  <2>2. rule' = [rule EXCEPT ![w] = new]
    BY <1>2 DEF PutRules
  <2>3. \A r \in Rules : new[r].status = "completed" => rule[w][r].status = "completed"
    OBVIOUS
  <2> HIDE DEF new
  <2> QED
    BY <1>1, <1>2, <2>1, <2>2, <2>3 DEF PutRules, RuleEffect
<1>3. ASSUME NEW r \in Rules, ApplyResult(w, r)
      PROVE  RuleEffect
  <2>1. [rule[w][r] EXCEPT !.status = "completed"] \in RuleRow
    BY <1>1 DEF RuleRow
  <2>2. rule' = [rule EXCEPT ![w] = [rule[w] EXCEPT
                   ![r] = [rule[w][r] EXCEPT !.status = "completed"]]]
    BY <1>1, <1>3 DEF ApplyResult, RuleRow
  <2> QED
    BY <1>1, <1>3, <2>1, <2>2 DEF ApplyResult, RuleEffect
<1>4. ASSUME NEW r \in Rules, NEW j \in RuleJobs, QueueRule(w, r, j)
      PROVE  RuleEffect
  <2>1. [status |-> "queued", job |-> j] \in RuleRow
    BY DEF RuleRow
  <2>2. rule' = [rule EXCEPT ![w] = [rule[w] EXCEPT ![r] = [status |-> "queued", job |-> j]]]
    BY <1>1, <1>4 DEF QueueRule
  <2> QED
    BY <1>1, <1>4, <2>1, <2>2 DEF QueueRule, RuleEffect
<1> QED
  BY <1>2, <1>3, <1>4

\* The journal after Requeue: the rows before it, and one new row with the source and
\* the revision of each input whose source was not in the journal.
Missing(w) == {i \in wave[w].inputs : ~Pending(i.source)}

LEMMA RequeueEffect ==
    ASSUME TypeInv, NEW w \in Waves, Requeue(w)
    PROVE  /\ revision' = revision
           /\ generation' \in Nat /\ generation <= generation'
           /\ dirty \subseteq dirty' /\ dirty' \subseteq Entry
           /\ Numbered(dirty') /\ Below(dirty', generation')
           /\ \A d \in dirty' \ dirty : d.generation > generation
           /\ \A d \in dirty' \ dirty : \E i \in Missing(w) :
                 /\ d.source = i.source /\ d.revision = i.revision
                 /\ \A e \in dirty' \ dirty : d.generation # e.generation =>
                       \E k \in Missing(w) : k # i /\ e.source = k.source
           /\ \A i \in Missing(w) : \E d \in dirty' :
                 d.source = i.source /\ d.revision = i.revision
<1> DEFINE rows == Missing(w)
<1>1. /\ dirty \subseteq Entry /\ generation \in Nat /\ Below(dirty, generation)
      /\ wave[w].inputs \subseteq Entry /\ Numbered(wave[w].inputs)
      /\ Below(wave[w].inputs, generation) /\ Numbered(dirty)
  BY DEF TypeInv, StoreTypeOK, NumberedRows, WaveRow, Below
<1>2. rows \subseteq Entry /\ IsFiniteSet(rows)
  <2>1. IsFiniteSet(wave[w].inputs)
    BY <1>1, NumberedIsFinite
  <2> QED
    BY <1>1, <2>1, FS_Subset DEF Missing
<1>3. Cardinality(rows) \in Nat
  BY <1>2, FS_CardinalityType
<1>4. PICK place \in Bijection(rows, 1..Cardinality(rows)) :
         dirty' = dirty \cup {[source |-> i.source, revision |-> i.revision,
                               generation |-> generation + place[i]] : i \in rows}
  BY DEF Requeue, Missing
<1>5. generation' = generation + Cardinality(rows) /\ revision' = revision
  BY DEF Requeue, Missing
<1>6. \A i \in rows : place[i] \in 1..Cardinality(rows)
  BY <1>4 DEF Bijection, Injection
<1>7. \A i, k \in rows : place[i] = place[k] => i = k
  BY <1>4 DEF Bijection, Injection, IsInjective
<1> DEFINE Row(i) == [source |-> i.source, revision |-> i.revision,
                      generation |-> generation + place[i]]
<1>8. \A i \in rows : /\ Row(i) \in Entry
                      /\ Row(i).generation > generation
                      /\ Row(i).generation <= generation'
                      /\ Row(i) \in dirty'
  BY <1>1, <1>2, <1>3, <1>4, <1>5, <1>6 DEF Entry
<1>9. \A d \in dirty' \ dirty : \E i \in rows : d = Row(i)
  BY <1>4
<1>10. \A i, k \in rows : Row(i).generation = Row(k).generation => i = k
  BY <1>1, <1>3, <1>6, <1>7
<1>11. generation' \in Nat /\ generation <= generation'
  BY <1>1, <1>3, <1>5
<1>12. dirty \subseteq dirty'
  BY <1>4
<1> HIDE DEF rows
<1>13. dirty' \subseteq Entry
  BY <1>1, <1>8, <1>9
<1>14. Numbered(dirty')
  <2> SUFFICES ASSUME NEW d \in dirty', NEW e \in dirty', d.generation = e.generation
               PROVE  d = e
    BY DEF Numbered
  <2>1. CASE d \in dirty /\ e \in dirty
    BY <1>1, <2>1 DEF Numbered
  <2>2. CASE d \notin dirty /\ e \notin dirty
    BY <1>9, <1>10, <2>2
  <2>3. CASE d \in dirty /\ e \notin dirty
    BY <1>1, <1>8, <1>9, <2>3 DEF Below, Entry
  <2>4. CASE d \notin dirty /\ e \in dirty
    BY <1>1, <1>8, <1>9, <2>4 DEF Below, Entry
  <2> QED
    BY <2>1, <2>2, <2>3, <2>4
<1>15. Below(dirty', generation')
  <2> SUFFICES ASSUME NEW d \in dirty' PROVE d.generation <= generation'
    BY DEF Below
  <2>1. CASE d \in dirty
    BY <1>1, <1>11, <2>1 DEF Below, Entry
  <2>2. CASE d \notin dirty
    BY <1>8, <1>9, <2>2
  <2> QED
    BY <2>1, <2>2
<1>16. \A d \in dirty' \ dirty : d.generation > generation
  BY <1>8, <1>9
<1>17. \A d \in dirty' \ dirty : \E i \in rows :
          /\ d.source = i.source /\ d.revision = i.revision
          /\ \A e \in dirty' \ dirty : d.generation # e.generation =>
                \E k \in rows : k # i /\ e.source = k.source
  <2> TAKE d \in dirty' \ dirty
  <2>1. PICK i \in rows : d = Row(i)
    BY <1>9
  <2>2. ASSUME NEW e \in dirty' \ dirty, d.generation # e.generation
        PROVE  \E k \in rows : k # i /\ e.source = k.source
    BY <1>9, <2>1, <2>2
  <2> QED
    BY <2>1, <2>2
<1>18. \A i \in rows : \E d \in dirty' : d.source = i.source /\ d.revision = i.revision
  BY <1>8
<1> QED
  BY <1>5, <1>11, <1>12, <1>13, <1>14, <1>15, <1>16, <1>17, <1>18 DEF rows

LEMMA MutateTyped ==
    ASSUME TypeInv, NEW s \in Sources, NEW b \in Batches \cup {Unscoped}, Mutate(s, b)
    PROVE  TypeInv' /\ (\A a \in Batches : batch'[a].status = batch[a].status)
<1> DEFINE d == [source |-> s, revision |-> revision'[s], generation |-> generation']
<1>1. /\ revision \in [Sources -> Nat] /\ generation \in Nat /\ dirty \subseteq Entry
      /\ batch \in [Batches -> BatchRow] /\ mutated \in [Batches -> SUBSET Entry]
      /\ Below(dirty, generation) /\ Numbered(dirty)
  BY DEF TypeInv, StoreTypeOK, NumberedRows, Below
<1>2. generation' = generation + 1 /\ revision' \in [Sources -> Nat]
  BY <1>1 DEF Mutate
<1>3. d \in Entry /\ d.generation = generation + 1
  BY <1>1, <1>2 DEF Entry
<1>4. dirty' = dirty \cup {d} /\ Recorded(b, d)
  BY DEF Mutate
<1> HIDE DEF d
<1>5. /\ batch' \in [Batches -> BatchRow] /\ mutated' \in [Batches -> SUBSET Entry]
      /\ \A a \in Batches : batch'[a].status = batch[a].status
  <2>1. CASE b = Unscoped
    BY <1>1, <1>4, <2>1 DEF Recorded
  <2>2. CASE b # Unscoped
    <3>1. d.generation \in Nat
      BY <1>1, <1>3
    <3>2. [batch[b] EXCEPT !.highest = d.generation, !.leased = TRUE] \in BatchRow
      BY <1>1, <2>2, <3>1 DEF BatchRow
    <3>3. batch' = [batch EXCEPT ![b] =
                      [batch[b] EXCEPT !.highest = d.generation, !.leased = TRUE]]
      BY <1>1, <1>4, <2>2 DEF Recorded, BatchRow
    <3>4. \A a \in Batches : batch'[a].status = batch[a].status
      BY <1>1, <2>2, <3>3 DEF BatchRow
    <3> QED
      BY <1>1, <1>3, <1>4, <2>2, <3>2, <3>3, <3>4 DEF Recorded
  <2> QED
    BY <2>1, <2>2
<1>6. dirty' \subseteq Entry /\ Numbered(dirty') /\ Below(dirty', generation')
  BY <1>1, <1>2, <1>3, <1>4 DEF Numbered, Below, Entry
<1>7. \A w \in Waves : Numbered(wave[w].inputs) /\ Below(wave[w].inputs, generation')
  BY <1>1, <1>2 DEF TypeInv, StoreTypeOK, NumberedRows, Below, WaveRow, Entry
<1>8. UNCHANGED <<epoch, wave, rule, incident, covered>>
  BY DEF Mutate
<1>9. StoreTypeOK'
  BY <1>1, <1>2, <1>5, <1>6, <1>8 DEF TypeInv, StoreTypeOK, Below, Running
<1>10. NumberedRows'
  BY <1>6, <1>7, <1>8 DEF NumberedRows
<1> QED
  BY <1>5, <1>9, <1>10 DEF TypeInv

LEMMA ClaimWaveTyped ==
    ASSUME TypeInv, NEW w \in Waves, ClaimWave(w)
    PROVE  TypeInv'
<1> DEFINE row == [status |-> "running", cutoff |-> RecoveryGeneration(dirty, Never),
                   epoch |-> epoch, inputs |-> Latest(dirty)]
<1>1. /\ generation \in Nat /\ dirty \subseteq Entry /\ epoch \in Nat
      /\ wave \in [Waves -> WaveRow] /\ Below(dirty, generation) /\ Numbered(dirty)
  BY DEF TypeInv, StoreTypeOK, NumberedRows, Below
<1>2. RecoveryGeneration(dirty, Never) \in Nat
  BY <1>1, RecoveryType DEF Never
<1>3. Latest(dirty) \subseteq dirty
  BY DEF Latest
<1>4. row \in WaveRow /\ row.epoch = epoch /\ row.inputs \subseteq dirty
  BY <1>1, <1>2, <1>3 DEF WaveRow
<1>5. wave' = [wave EXCEPT ![w] = row]
  BY DEF ClaimWave
<1> HIDE DEF row
<1>6. /\ dirty' = {} /\ UNCHANGED <<revision, generation, epoch, rule, batch, incident, history>>
      /\ \A v \in Waves : ~Running(v)
  BY DEF ClaimWave
<1>7. wave' \in [Waves -> WaveRow]
  BY <1>1, <1>4, <1>5
<1>8. \A v \in Waves : wave'[v] = IF v = w THEN row ELSE wave[v]
  BY <1>1, <1>5
<1>9. StoreTypeOK'
  <2>1. \A v \in Waves : wave'[v].epoch <= epoch'
    BY <1>1, <1>4, <1>6, <1>8 DEF TypeInv, StoreTypeOK
  <2>2. \A u, v \in Waves : Running(u)' /\ Running(v)' => u = v
    BY <1>6, <1>8 DEF Running
  <2> QED
    BY <1>6, <1>7, <2>1, <2>2 DEF TypeInv, StoreTypeOK, history
<1>10. NumberedRows'
  <2>1. Numbered(row.inputs) /\ Below(row.inputs, generation)
    BY <1>1, <1>4 DEF Numbered, Below
  <2> QED
    BY <1>6, <1>8, <2>1 DEF TypeInv, NumberedRows, Numbered
<1> QED
  BY <1>9, <1>10 DEF TypeInv

\* What ends a wave: it no longer runs, the other waves are untouched.
WaveEnds(w, status) ==
    /\ Running(w)
    /\ wave' = [wave EXCEPT ![w].status = status]

LEMMA EndsEffect ==
    ASSUME TypeInv, NEW w \in Waves,
           NEW status \in {"completed", "failed", "superseded"}, WaveEnds(w, status)
    PROVE  /\ wave' \in [Waves -> WaveRow]
           /\ \A v \in Waves : /\ wave'[v].inputs = wave[v].inputs
                               /\ wave'[v].epoch = wave[v].epoch
                               /\ wave'[v].cutoff = wave[v].cutoff
                               /\ v # w => wave'[v] = wave[v]
           /\ \A v \in Waves : ~(Running(v)')
<1>1. wave \in [Waves -> WaveRow] /\ \A v \in Waves : Running(v) => v = w
  BY DEF TypeInv, StoreTypeOK, WaveEnds
<1>2. wave' = [wave EXCEPT ![w] = [wave[w] EXCEPT !.status = status]]
  BY <1>1 DEF WaveEnds
<1>3. [wave[w] EXCEPT !.status = status] \in WaveRow
  BY <1>1 DEF WaveRow
<1>4. \A v \in Waves : v # w => wave'[v] = wave[v] /\ ~Running(v)
  BY <1>1, <1>2
<1>5. /\ wave'[w].inputs = wave[w].inputs /\ wave'[w].epoch = wave[w].epoch
      /\ wave'[w].cutoff = wave[w].cutoff /\ wave'[w].status = status
  BY <1>1, <1>2 DEF WaveRow
<1> QED
  BY <1>1, <1>2, <1>3, <1>4, <1>5 DEF Running

\* A wave that ends without a result and returns its inputs keeps the journal typed.
LEMMA RequeueTyped ==
    ASSUME TypeInv, NEW w \in Waves, NEW status \in {"failed", "superseded"},
           WaveEnds(w, status), Requeue(w)
    PROVE  /\ revision' = revision /\ dirty' \subseteq Entry /\ generation' \in Nat
           /\ wave' \in [Waves -> WaveRow]
           /\ \A d \in dirty' : d.generation <= generation'
           /\ \A v \in Waves : wave'[v].epoch <= epoch
           /\ \A v \in Waves : ~(Running(v)')
           /\ NumberedRows'
<1>1. /\ wave' \in [Waves -> WaveRow]
      /\ \A v \in Waves : wave'[v].inputs = wave[v].inputs /\ wave'[v].epoch = wave[v].epoch
      /\ \A v \in Waves : ~(Running(v)')
  BY EndsEffect
<1>2. /\ revision' = revision /\ generation' \in Nat /\ generation <= generation'
      /\ dirty' \subseteq Entry /\ Numbered(dirty') /\ Below(dirty', generation')
  BY RequeueEffect
<1>3. \A v \in Waves : Numbered(wave[v].inputs) /\ Below(wave[v].inputs, generation')
  BY <1>2 DEF TypeInv, StoreTypeOK, NumberedRows, Below, WaveRow, Entry
<1> QED
  BY <1>1, <1>2, <1>3 DEF TypeInv, StoreTypeOK, NumberedRows, Below

LEMMA SupersedeTyped ==
    ASSUME TypeInv, NEW w \in Waves, Supersede(w)
    PROVE  TypeInv'
<1>1. WaveEnds(w, "superseded") /\ Requeue(w)
  BY DEF Supersede, WaveEnds
<1>2. /\ revision' = revision /\ dirty' \subseteq Entry /\ generation' \in Nat
      /\ wave' \in [Waves -> WaveRow]
      /\ \A d \in dirty' : d.generation <= generation'
      /\ \A v \in Waves : wave'[v].epoch <= epoch
      /\ \A v \in Waves : ~(Running(v)')
      /\ NumberedRows'
  BY <1>1, RequeueTyped
<1>3. UNCHANGED <<epoch, rule, batch, incident, history>>
  BY DEF Supersede
<1> QED
  BY <1>2, <1>3 DEF TypeInv, StoreTypeOK, history

LEMMA FailWaveTyped ==
    ASSUME TypeInv, NEW w \in Waves, NEW r \in Rules, FailWave(w, r)
    PROVE  TypeInv'
<1>1. /\ revision' = revision /\ dirty' \subseteq Entry /\ generation' \in Nat
      /\ wave' \in [Waves -> WaveRow]
      /\ Below(dirty', generation')
      /\ \A v \in Waves : wave'[v].epoch <= epoch
      /\ \A u, v \in Waves : Running(u)' /\ Running(v)' => u = v
      /\ NumberedRows'
  <2>1. CASE Running(w) /\ Requeue(w) /\ wave' = [wave EXCEPT ![w].status = "failed"]
    <3>1. WaveEnds(w, "failed")
      BY <2>1 DEF WaveEnds
    <3> QED
      BY <2>1, <3>1, RequeueTyped DEF Below
  <2>2. CASE UNCHANGED <<journal, wave>>
    BY <2>2 DEF TypeInv, StoreTypeOK, NumberedRows, Below, journal, Running
  <2> QED
    BY <2>1, <2>2 DEF FailWave
<1>2. rule' \in [Waves -> [Rules -> RuleRow]]
  <2>1. rule \in [Waves -> [Rules -> RuleRow]]
    BY DEF TypeInv, StoreTypeOK
  <2>2. [rule[w][r] EXCEPT !.status = "failed"] \in RuleRow
    BY <2>1 DEF RuleRow
  <2>3. rule' = [rule EXCEPT ![w] = [rule[w] EXCEPT
                   ![r] = [rule[w][r] EXCEPT !.status = "failed"]]]
    BY <2>1 DEF FailWave, RuleRow
  <2> QED
    BY <2>1, <2>2, <2>3
<1>3. incident' \in [Waves -> [status : {"none", "unresolved", "resolved"}, recovery : Nat]]
  <2>1. wave[w].cutoff \in Nat
    BY DEF TypeInv, StoreTypeOK, WaveRow
  <2>2. RecoveryGeneration(dirty', wave[w].cutoff) \in Nat
    BY <1>1, <2>1, RecoveryType
  <2> QED
    BY <2>2 DEF FailWave, TypeInv, StoreTypeOK
<1>4. UNCHANGED <<epoch, batch, history>>
  BY DEF FailWave
<1> QED
  BY <1>1, <1>2, <1>3, <1>4 DEF TypeInv, StoreTypeOK, history, Below

LEMMA CompleteWaveTyped ==
    ASSUME TypeInv, NEW w \in Waves, CompleteWave(w)
    PROVE  TypeInv'
<1>1. WaveEnds(w, "completed")
  BY DEF CompleteWave, WaveEnds
<1>2. /\ wave' \in [Waves -> WaveRow]
      /\ \A v \in Waves : wave'[v].inputs = wave[v].inputs /\ wave'[v].epoch = wave[v].epoch
      /\ \A v \in Waves : ~(Running(v)')
  BY <1>1, EndsEffect
<1>3. UNCHANGED <<journal, epoch, rule, mutated>>
  BY DEF CompleteWave
<1>4. batch' \in [Batches -> BatchRow]
  <2>1. \A b \in Batches : batch[b] \in BatchRow
    BY DEF TypeInv, StoreTypeOK
  <2>2. \A b \in Batches : Recovered(batch[b], wave[w].cutoff) \in BatchRow
    BY <2>1 DEF Recovered, BatchRow
  <2> QED
    BY <2>2 DEF CompleteWave
<1>5. incident' \in [Waves -> [status : {"none", "unresolved", "resolved"}, recovery : Nat]]
  <2>1. \A v \in Waves : Resolved(incident[v], wave[w].cutoff)
                         \in [status : {"none", "unresolved", "resolved"}, recovery : Nat]
    BY DEF Resolved, TypeInv, StoreTypeOK
  <2> QED
    BY <2>1 DEF CompleteWave
<1>6. covered' \in [Sources -> Nat]
  <2>1. wave[w].inputs \subseteq Entry
    BY DEF TypeInv, StoreTypeOK, WaveRow
  <2>2. \A s \in Sources : (\E i \in wave[w].inputs : i.source = s) =>
           (CHOOSE i \in wave[w].inputs : i.source = s) \in wave[w].inputs
    OBVIOUS
  <2>3. \A s \in Sources : (\E i \in wave[w].inputs : i.source = s) =>
           (CHOOSE i \in wave[w].inputs : i.source = s).revision \in Nat
    BY <2>1, <2>2 DEF Entry
  <2> QED
    BY <2>3 DEF CompleteWave, TypeInv, StoreTypeOK
<1>7. StoreTypeOK'
  BY <1>2, <1>3, <1>4, <1>5, <1>6 DEF TypeInv, StoreTypeOK, journal
<1>8. NumberedRows'
  BY <1>2, <1>3 DEF TypeInv, NumberedRows, journal
<1> QED
  BY <1>7, <1>8 DEF TypeInv

\* The steps, by what they do.
LEMMA StoreSteps ==
    ASSUME TypeInv, StoreNext
    PROVE  \/ \E s \in Sources, b \in Batches \cup {Unscoped} : Mutate(s, b)
           \/ BatchEffect
           \/ RuleEffect
           \/ \E w \in Waves : \/ ClaimWave(w) \/ Supersede(w) \/ CompleteWave(w)
                               \/ \E r \in Rules : FailWave(w, r)
BY CallbackStepEffect, RootStepEffect, FenceEffect, RuleStepEffect DEF StoreNext, WaveStep

LEMMA TypeStep == TypeInv /\ [StoreNext]_svars => TypeInv'
<1> SUFFICES ASSUME TypeInv, [StoreNext]_svars PROVE TypeInv'
  OBVIOUS
<1>1. CASE UNCHANGED svars
  BY <1>1 DEF TypeInv, StoreTypeOK, NumberedRows, Running, svars, journal, history
<1>2. CASE BatchEffect
  <2>1. epoch \in Nat /\ epoch' \in Nat /\ epoch <= epoch'
    BY <1>2 DEF BatchEffect, TypeInv, StoreTypeOK
  <2>2. \A w \in Waves : wave[w].epoch \in Nat /\ wave[w].epoch <= epoch
    BY DEF TypeInv, StoreTypeOK, WaveRow
  <2> QED
    BY <1>2, <2>1, <2>2 DEF BatchEffect, TypeInv, StoreTypeOK, NumberedRows, Running, journal, history
<1>3. CASE RuleEffect
  BY <1>3 DEF RuleEffect, TypeInv, StoreTypeOK, NumberedRows, Running, journal, history
<1> QED
  BY <1>1, <1>2, <1>3, StoreSteps, MutateTyped, ClaimWaveTyped, SupersedeTyped,
     CompleteWaveTyped, FailWaveTyped

\* Every behaviour of the store keeps its rows typed, its generations and epochs below
\* their counters, and at most one wave running.
THEOREM StoreTypeCorrect == StoreSpec => []StoreTypeOK
<1>1. StoreInit => TypeInv
  BY InitTyped
<1>2. TypeInv /\ [StoreNext]_svars => TypeInv'
  BY TypeStep
<1>3. TypeInv => StoreTypeOK
  BY DEF TypeInv
<1> QED
  BY <1>1, <1>2, <1>3, PTL DEF StoreSpec

-----------------------------------------------------------------------------
(* The barrier.                                                             *)

\* A running wave with the current epoch was claimed when no batch was active, and
\* no batch has opened since, because it would have raised the epoch.
NoBatchSince == \A w \in Waves : Running(w) /\ Fresh(w) => ~Barrier

BarrierInv == TypeInv /\ NoBatchSince

LEMMA BarrierStep == BarrierInv /\ [StoreNext]_svars => BarrierInv'
<1> SUFFICES ASSUME BarrierInv, [StoreNext]_svars PROVE NoBatchSince'
  BY TypeStep DEF BarrierInv
<1> USE DEF BarrierInv
<1>1. CASE UNCHANGED svars
  BY <1>1 DEF NoBatchSince, Running, Fresh, Barrier, Active, svars
<1>2. ASSUME NEW s \in Sources, NEW b \in Batches \cup {Unscoped}, Mutate(s, b)
      PROVE  NoBatchSince'
  <2>1. \A a \in Batches : batch'[a].status = batch[a].status
    BY <1>2, MutateTyped
  <2>2. UNCHANGED <<epoch, wave>>
    BY <1>2 DEF Mutate
  <2> QED
    BY <2>1, <2>2 DEF NoBatchSince, Running, Fresh, Barrier, Active
<1>3. CASE BatchEffect
  <2>1. UNCHANGED wave
    BY <1>3 DEF BatchEffect
  <2>2. CASE epoch' = epoch + 1
    <3>1. \A w \in Waves : wave[w].epoch \in Nat /\ wave[w].epoch <= epoch /\ epoch \in Nat
      BY DEF TypeInv, StoreTypeOK, WaveRow
    <3> QED
      BY <2>1, <2>2, <3>1 DEF NoBatchSince, Fresh
  <2>3. CASE /\ epoch' = epoch
             /\ \A b \in Batches : batch'[b].status \in ActiveStatus => Active(b)
    BY <2>1, <2>3 DEF NoBatchSince, Running, Fresh, Barrier, Active
  <2> QED
    BY <1>3, <2>2, <2>3 DEF BatchEffect
<1>4. CASE RuleEffect
  BY <1>4 DEF RuleEffect, NoBatchSince, Running, Fresh, Barrier, Active
<1>5. ASSUME NEW w \in Waves, ClaimWave(w)
      PROVE  NoBatchSince'
  BY <1>5 DEF ClaimWave, NoBatchSince, Barrier, Active
<1>6. ASSUME NEW w \in Waves, Supersede(w)
      PROVE  NoBatchSince'
  <2>1. \A v \in Waves : ~(Running(v)')
    BY <1>6, EndsEffect DEF Supersede, WaveEnds
  <2> QED
    BY <2>1 DEF NoBatchSince
<1>7. ASSUME NEW w \in Waves, CompleteWave(w)
      PROVE  NoBatchSince'
  <2>1. \A v \in Waves : ~(Running(v)')
    BY <1>7, EndsEffect DEF CompleteWave, WaveEnds
  <2> QED
    BY <2>1 DEF NoBatchSince
<1>8. ASSUME NEW w \in Waves, NEW r \in Rules, FailWave(w, r)
      PROVE  NoBatchSince'
  <2>1. CASE Running(w) /\ wave' = [wave EXCEPT ![w].status = "failed"]
    <3>1. \A v \in Waves : ~(Running(v)')
      BY <2>1, EndsEffect DEF WaveEnds
    <3> QED
      BY <3>1 DEF NoBatchSince
  <2>2. CASE UNCHANGED wave
    BY <1>8, <2>2 DEF FailWave, NoBatchSince, Running, Fresh, Barrier, Active
  <2> QED
    BY <1>8, <2>1, <2>2 DEF FailWave
<1> QED
  BY <1>1, <1>2, <1>3, <1>4, <1>5, <1>6, <1>7, <1>8, StoreSteps

\* Under the barrier a step claims no wave and applies no result.
LEMMA BarrierHeld ==
    ASSUME BarrierInv, [StoreNext]_svars, Barrier
    PROVE  \A w \in Waves :
              /\ wave'[w].cutoff = wave[w].cutoff
              /\ \A r \in Rules : rule'[w][r].status = "completed"
                                  => rule[w][r].status = "completed"
<1> DEFINE Held == \A w \in Waves :
              /\ wave'[w].cutoff = wave[w].cutoff
              /\ \A r \in Rules : rule'[w][r].status = "completed"
                                  => rule[w][r].status = "completed"
<1> USE DEF BarrierInv
<1>1. CASE UNCHANGED svars
  BY <1>1 DEF svars
<1>2. ASSUME NEW s \in Sources, NEW b \in Batches \cup {Unscoped}, Mutate(s, b)
      PROVE  Held
  BY <1>2 DEF Mutate
<1>3. CASE BatchEffect
  BY <1>3 DEF BatchEffect
<1>4. CASE RuleEffect
  BY <1>4 DEF RuleEffect, NoBatchSince
<1>5. ASSUME NEW w \in Waves, ClaimWave(w)
      PROVE  Held
  BY <1>5 DEF ClaimWave
<1>6. ASSUME NEW w \in Waves, Supersede(w)
      PROVE  Held
  BY <1>6, EndsEffect DEF Supersede, WaveEnds
<1>7. ASSUME NEW w \in Waves, CompleteWave(w)
      PROVE  Held
  BY <1>7, EndsEffect DEF CompleteWave, WaveEnds
<1>8. ASSUME NEW w \in Waves, NEW r \in Rules, FailWave(w, r)
      PROVE  Held
  <2>1. \A v \in Waves : wave'[v].cutoff = wave[v].cutoff
    BY <1>8, EndsEffect DEF FailWave, WaveEnds
  <2>2. rule \in [Waves -> [Rules -> RuleRow]]
    BY DEF TypeInv, StoreTypeOK
  <2>3. \A v \in Waves, q \in Rules :
           rule'[v][q].status = "completed" => rule[v][q].status = "completed"
    <3>1. rule' = [rule EXCEPT ![w] = [rule[w] EXCEPT
                     ![r] = [rule[w][r] EXCEPT !.status = "failed"]]]
      BY <1>8, <2>2 DEF FailWave, RuleRow
    <3>2. [rule[w][r] EXCEPT !.status = "failed"].status = "failed"
      BY <2>2 DEF RuleRow
    <3> QED
      BY <2>2, <3>1, <3>2
  <2> QED
    BY <2>1, <2>3
<1> QED
  BY <1>1, <1>2, <1>3, <1>4, <1>5, <1>6, <1>7, <1>8, StoreSteps

\* From the moment a batch opens until it ends, no wave is claimed and no rule of any
\* wave gets a result: applyRuleResult compares epochs, and that is enough.
THEOREM BarrierHolds == StoreSpec => NoResultDuringBatch
<1>1. StoreInit => BarrierInv
  BY InitTyped DEF BarrierInv, NoBatchSince, StoreInit, Running
<1>2. BarrierInv /\ [StoreNext]_svars => BarrierInv'
  BY BarrierStep
<1>3. BarrierInv /\ [StoreNext]_svars =>
         [Barrier => \A w \in Waves :
            /\ wave'[w].cutoff = wave[w].cutoff
            /\ \A r \in Rules : rule'[w][r].status = "completed"
                                => rule[w][r].status = "completed"]_svars
  BY BarrierHeld
<1> QED
  BY <1>1, <1>2, <1>3, PTL DEF StoreSpec, NoResultDuringBatch

-----------------------------------------------------------------------------
(* Nothing is forgotten.                                                    *)

\* A wave has one input for each of its sources.
OneInput == \A w \in Waves : \A i, k \in wave[w].inputs : i.source = k.source => i = k

\* The latest row of a source in the journal has its latest revision.
LatestIsCurrent == \A d \in Latest(dirty) : d.revision = revision[d.source]

\* An input of the running wave has the latest revision of its source, unless the source
\* was mutated since, and so is in the journal again.
InputIsCurrent ==
    \A w \in Waves : Running(w) =>
        \A i \in wave[w].inputs : Pending(i.source) \/ i.revision = revision[i.source]

Kept == OneInput /\ LatestIsCurrent /\ InputIsCurrent /\ NothingForgotten

KeptInv == TypeInv /\ Kept

\* A source in the journal has a latest row, with its latest revision.
LEMMA PendingIsCurrent ==
    ASSUME TypeInv, LatestIsCurrent, NEW s \in Sources, Pending(s)
    PROVE  \E d \in Latest(dirty) : d.source = s /\ d.revision = revision[s]
<1>1. dirty \in SUBSET Entry /\ generation \in Nat /\ Below(dirty, generation)
  BY DEF TypeInv, StoreTypeOK, Below
<1>2. PICK e \in dirty : e.source = s
  BY DEF Pending
<1>3. \E d \in Latest(dirty) : d.source = e.source
  BY <1>1, LatestExists
<1> QED
  BY <1>2, <1>3 DEF LatestIsCurrent

LEMMA MutateKeeps ==
    ASSUME KeptInv, NEW s \in Sources, NEW b \in Batches \cup {Unscoped}, Mutate(s, b)
    PROVE  Kept'
<1> DEFINE d == [source |-> s, revision |-> revision'[s], generation |-> generation']
<1>1. /\ revision \in [Sources -> Nat] /\ generation \in Nat /\ dirty \subseteq Entry
      /\ Below(dirty, generation)
  BY DEF KeptInv, TypeInv, StoreTypeOK, Below
<1>2. /\ generation' = generation + 1 /\ dirty' = dirty \cup {d}
      /\ revision' = [revision EXCEPT ![s] = @ + 1]
      /\ UNCHANGED <<epoch, wave, rule, incident, covered>>
  BY DEF Mutate
<1>3. \A t \in Sources : t # s => revision'[t] = revision[t]
  BY <1>1, <1>2
<1>4. d.source = s /\ d.revision = revision'[s] /\ d.generation = generation + 1
  BY <1>2
<1> HIDE DEF d
<1>5. \A e \in dirty : e.source \in Sources /\ e.generation < d.generation
  BY <1>1, <1>4 DEF Entry, Below
<1>6. d \in Latest(dirty')
  BY <1>1, <1>2, <1>4, <1>5 DEF Latest, Entry
<1>7. \A e \in Latest(dirty') : e = d \/ (e \in Latest(dirty) /\ e.source # s)
  <2> SUFFICES ASSUME NEW e \in Latest(dirty'), e # d
               PROVE  e \in Latest(dirty) /\ e.source # s
    OBVIOUS
  <2>1. e \in dirty
    BY <1>2 DEF Latest
  <2>2. e.source # s
    BY <1>1, <1>2, <1>4, <1>5, <2>1 DEF Latest, Entry
  <2> QED
    BY <1>2, <2>1, <2>2 DEF Latest
<1>8. \A e \in Latest(dirty) : e.source # s => e \in Latest(dirty')
  BY <1>2, <1>4 DEF Latest
<1>9. \A t \in Sources : Pending(t)' <=> Pending(t) \/ t = s
  BY <1>2, <1>4 DEF Pending
<1>10. LatestIsCurrent'
  <2> SUFFICES ASSUME NEW e \in Latest(dirty') PROVE e.revision = revision'[e.source]
    BY DEF LatestIsCurrent
  <2>1. CASE e = d
    BY <1>4, <2>1
  <2>2. CASE e \in Latest(dirty) /\ e.source # s
    BY <1>3, <1>5, <2>2 DEF KeptInv, Kept, LatestIsCurrent, Latest
  <2> QED
    BY <1>7, <2>1, <2>2
<1>11. InputIsCurrent'
  <2> SUFFICES ASSUME NEW w \in Waves, Running(w), NEW i \in wave[w].inputs
               PROVE  Pending(i.source)' \/ i.revision = revision'[i.source]
    BY <1>2 DEF InputIsCurrent, Running
  <2>1. i.source \in Sources
    BY DEF KeptInv, TypeInv, StoreTypeOK, WaveRow, Entry
  <2> QED
    BY <1>3, <1>9, <2>1 DEF KeptInv, Kept, InputIsCurrent
<1>12. NothingForgotten'
  <2> SUFFICES ASSUME NEW t \in Sources
               PROVE  (\/ covered[t] = revision[t]
                       \/ \E e \in Latest(dirty) : e.source = t /\ e.revision = revision[t]
                       \/ \E w \in Waves : Running(w) /\ TakenBy(w, t))'
    BY DEF NothingForgotten
  <2>1. CASE t = s
    BY <1>4, <1>6, <2>1
  <2>2. CASE t # s
    <3>1. revision'[t] = revision[t] /\ covered' = covered /\ wave' = wave
      BY <1>2, <1>3, <2>2
    <3>2. CASE \E e \in Latest(dirty) : e.source = t /\ e.revision = revision[t]
      BY <1>8, <2>2, <3>1, <3>2
    <3>3. CASE \E w \in Waves : Running(w) /\ TakenBy(w, t)
      BY <3>1, <3>3 DEF Running, TakenBy
    <3> QED
      BY <3>1, <3>2, <3>3 DEF KeptInv, Kept, NothingForgotten
  <2> QED
    BY <2>1, <2>2
<1> QED
  BY <1>2, <1>10, <1>11, <1>12 DEF KeptInv, Kept, OneInput

LEMMA ClaimWaveKeeps ==
    ASSUME KeptInv, NEW w \in Waves, ClaimWave(w)
    PROVE  Kept'
<1>1. /\ wave \in [Waves -> WaveRow] /\ Numbered(dirty)
      /\ dirty \subseteq Entry
  BY DEF KeptInv, TypeInv, StoreTypeOK, NumberedRows
<1>2. /\ dirty' = {} /\ UNCHANGED <<revision, generation, covered>>
      /\ \A v \in Waves : ~Running(v)
      /\ wave' = [wave EXCEPT ![w] =
            [status |-> "running", cutoff |-> RecoveryGeneration(dirty, Never),
             epoch |-> epoch, inputs |-> Latest(dirty)]]
  BY DEF ClaimWave, history
<1>3. /\ wave'[w].inputs = Latest(dirty) /\ wave'[w].status = "running"
      /\ \A v \in Waves : v # w => wave'[v] = wave[v]
  BY <1>1, <1>2
<1>4. \A i, k \in Latest(dirty) : i.source = k.source => i = k
  <2> SUFFICES ASSUME NEW i \in Latest(dirty), NEW k \in Latest(dirty), i.source = k.source
               PROVE  i = k
    OBVIOUS
  <2>1. i.generation <= k.generation /\ k.generation <= i.generation
        /\ i \in dirty /\ k \in dirty
    BY DEF Latest
  <2>2. i.generation = k.generation
    BY <1>1, <2>1 DEF Entry
  <2> QED
    BY <1>1, <2>1, <2>2 DEF Numbered
<1>5. OneInput'
  BY <1>3, <1>4 DEF KeptInv, Kept, OneInput
<1>6. LatestIsCurrent'
  BY <1>2 DEF LatestIsCurrent, Latest
<1>7. InputIsCurrent'
  BY <1>2, <1>3 DEF KeptInv, Kept, InputIsCurrent, LatestIsCurrent, Running
<1>8. NothingForgotten'
  <2> SUFFICES ASSUME NEW t \in Sources
               PROVE  covered[t] = revision[t] \/ TakenBy(w, t)'
    BY <1>2, <1>3 DEF NothingForgotten, Running
  <2> QED
    BY <1>2, <1>3 DEF KeptInv, Kept, NothingForgotten, TakenBy
<1> QED
  BY <1>5, <1>6, <1>7, <1>8 DEF Kept

\* The heart of it: the inputs of a wave that ends without a result are back in the
\* journal, unless a newer row of their source is there.
LEMMA RequeueKeeps ==
    ASSUME KeptInv, NEW w \in Waves, NEW status \in {"failed", "superseded"},
           WaveEnds(w, status), Requeue(w), covered' = covered
    PROVE  Kept'
<1>1. /\ \A v \in Waves : wave'[v].inputs = wave[v].inputs
      /\ \A v \in Waves : ~(Running(v)')
  BY EndsEffect DEF KeptInv
<1>2. /\ revision' = revision /\ dirty \subseteq dirty' /\ dirty' \subseteq Entry
      /\ generation \in Nat /\ Below(dirty, generation) /\ Numbered(dirty')
      /\ \A d \in dirty' \ dirty : d.generation > generation
  BY RequeueEffect DEF KeptInv, TypeInv, StoreTypeOK, Below
<1>3. \A d \in dirty' \ dirty : \E i \in Missing(w) :
         /\ d.source = i.source /\ d.revision = i.revision
         /\ \A e \in dirty' \ dirty : d.generation # e.generation =>
               \E k \in Missing(w) : k # i /\ e.source = k.source
  BY RequeueEffect DEF KeptInv
<1>4. \A i \in Missing(w) : \E d \in dirty' : d.source = i.source /\ d.revision = i.revision
  BY RequeueEffect DEF KeptInv
<1>5. \A i \in Missing(w) : /\ i \in wave[w].inputs /\ ~Pending(i.source)
                            /\ i.revision = revision[i.source]
  BY DEF Missing, KeptInv, Kept, InputIsCurrent, WaveEnds
\* A new row is the only one of its source.
<1>6. \A d \in dirty' \ dirty : \A e \in dirty' : e.source = d.source => e = d
  <2> SUFFICES ASSUME NEW d \in dirty' \ dirty, NEW e \in dirty', e.source = d.source, e # d
               PROVE  FALSE
    OBVIOUS
  <2>1. PICK i \in Missing(w) :
           /\ d.source = i.source
           /\ \A f \in dirty' \ dirty : d.generation # f.generation =>
                 \E k \in Missing(w) : k # i /\ f.source = k.source
    BY <1>3
  <2>2. e \notin dirty
    BY <1>5, <2>1 DEF Pending
  <2>3. d.generation # e.generation
    BY <1>2 DEF Numbered
  <2>4. PICK k \in Missing(w) : k # i /\ e.source = k.source
    BY <2>1, <2>2, <2>3
  <2> QED
    BY <1>5, <2>1, <2>4 DEF KeptInv, Kept, OneInput
<1>7. \A d \in dirty' \ dirty : d \in Latest(dirty')
  BY <1>2, <1>6 DEF Latest, Entry
<1>8. \A d \in Latest(dirty) : d \in Latest(dirty')
  <2> SUFFICES ASSUME NEW d \in Latest(dirty), NEW e \in dirty', e.source = d.source
               PROVE  e.generation <= d.generation
    BY <1>2 DEF Latest
  <2>1. d \in dirty
    BY DEF Latest
  <2>2. e \in dirty
    BY <1>2, <1>6, <2>1
  <2> QED
    BY <2>2 DEF Latest
<1>9. \A d \in Latest(dirty') : d \in dirty => d \in Latest(dirty)
  BY <1>2 DEF Latest
<1>10. OneInput'
  BY <1>1 DEF KeptInv, Kept, OneInput
<1>11. LatestIsCurrent'
  <2> SUFFICES ASSUME NEW d \in Latest(dirty') PROVE d.revision = revision[d.source]
    BY <1>2 DEF LatestIsCurrent
  <2>1. CASE d \in dirty
    BY <1>9, <2>1 DEF KeptInv, Kept, LatestIsCurrent
  <2>2. CASE d \notin dirty
    BY <1>3, <1>5, <2>2 DEF Latest
  <2> QED
    BY <2>1, <2>2
<1>12. InputIsCurrent'
  BY <1>1 DEF InputIsCurrent
<1>13. NothingForgotten'
  <2> SUFFICES ASSUME NEW t \in Sources, covered[t] # revision[t]
               PROVE  \E d \in Latest(dirty') : d.source = t /\ d.revision = revision[t]
    BY <1>2 DEF NothingForgotten
  <2>1. CASE Pending(t)
    BY <1>8, <2>1, PendingIsCurrent DEF KeptInv, Kept
  <2>2. CASE ~Pending(t)
    <3>1. \E v \in Waves : Running(v) /\ TakenBy(v, t)
      BY <2>2 DEF KeptInv, Kept, NothingForgotten, Pending, Latest
    <3>2. TakenBy(w, t)
      BY <3>1 DEF KeptInv, TypeInv, StoreTypeOK, WaveEnds
    <3>3. PICK i \in Missing(w) : i.source = t /\ i.revision = revision[t]
      BY <2>2, <3>2 DEF TakenBy, Missing
    <3>4. PICK d \in dirty' : d.source = t /\ d.revision = revision[t]
      BY <1>4, <3>3
    <3>5. d \notin dirty
      BY <2>2, <3>4 DEF Pending
    <3> QED
      BY <1>7, <3>4, <3>5
  <2> QED
    BY <2>1, <2>2
<1> QED
  BY <1>10, <1>11, <1>12, <1>13 DEF Kept

LEMMA CompleteWaveKeeps ==
    ASSUME KeptInv, NEW w \in Waves, CompleteWave(w)
    PROVE  Kept'
<1>1. Running(w) /\ UNCHANGED journal
  BY DEF CompleteWave
<1>2. /\ \A v \in Waves : wave'[v].inputs = wave[v].inputs
      /\ \A v \in Waves : ~(Running(v)')
  BY EndsEffect DEF KeptInv, CompleteWave, WaveEnds
<1>3. NothingForgotten'
  <2> SUFFICES ASSUME NEW s \in Sources
               PROVE  \/ covered'[s] = revision[s]
                      \/ \E d \in Latest(dirty) : d.source = s /\ d.revision = revision[s]
    BY <1>1 DEF NothingForgotten, journal
  <2>1. CASE Pending(s)
    BY <2>1, PendingIsCurrent DEF KeptInv, Kept
  <2>2. CASE ~Pending(s) /\ \E i \in wave[w].inputs : i.source = s
    <3> DEFINE i == CHOOSE i \in wave[w].inputs : i.source = s
    <3>1. i \in wave[w].inputs /\ i.source = s
      BY <2>2
    <3>2. i.revision = revision[s]
      BY <1>1, <2>2, <3>1 DEF KeptInv, Kept, InputIsCurrent
    <3>3. covered'[s] = i.revision
      BY <2>2 DEF CompleteWave
    <3> QED
      BY <3>2, <3>3
  <2>3. CASE ~Pending(s) /\ ~\E i \in wave[w].inputs : i.source = s
    <3>1. covered'[s] = covered[s]
      BY <2>3 DEF CompleteWave
    <3>2. ~\E v \in Waves : Running(v) /\ TakenBy(v, s)
      BY <1>1, <2>3 DEF KeptInv, TypeInv, StoreTypeOK, TakenBy
    <3> QED
      BY <2>3, <3>1, <3>2 DEF KeptInv, Kept, NothingForgotten, Pending, Latest
  <2> QED
    BY <2>1, <2>2, <2>3
<1>4. OneInput' /\ LatestIsCurrent' /\ InputIsCurrent'
  BY <1>1, <1>2 DEF KeptInv, Kept, OneInput, LatestIsCurrent, InputIsCurrent, journal
<1> QED
  BY <1>3, <1>4 DEF Kept

\* A step that leaves the journal, the waves and what they covered alone.
LEMMA OtherStepKeeps ==
    ASSUME KeptInv, UNCHANGED <<journal, wave, covered>>
    PROVE  Kept'
BY DEF KeptInv, Kept, OneInput, LatestIsCurrent, InputIsCurrent, NothingForgotten,
       Pending, Running, TakenBy, journal

LEMMA KeptStep == KeptInv /\ [StoreNext]_svars => KeptInv'
<1> SUFFICES ASSUME KeptInv, [StoreNext]_svars PROVE Kept'
  BY TypeStep DEF KeptInv
<1>1. CASE UNCHANGED svars
  BY <1>1, OtherStepKeeps DEF svars, history
<1>2. CASE BatchEffect
  BY <1>2, OtherStepKeeps DEF BatchEffect, history
<1>3. CASE RuleEffect
  BY <1>3, OtherStepKeeps DEF RuleEffect, history
<1>4. ASSUME NEW w \in Waves, Supersede(w)
      PROVE  Kept'
  BY <1>4, RequeueKeeps DEF Supersede, WaveEnds, history
<1>5. ASSUME NEW w \in Waves, NEW r \in Rules, FailWave(w, r)
      PROVE  Kept'
  <2>1. covered' = covered
    BY <1>5 DEF FailWave, history
  <2>2. CASE Running(w) /\ Requeue(w) /\ wave' = [wave EXCEPT ![w].status = "failed"]
    BY <2>1, <2>2, RequeueKeeps DEF WaveEnds
  <2>3. CASE UNCHANGED <<journal, wave>>
    BY <2>1, <2>3, OtherStepKeeps
  <2> QED
    BY <1>5, <2>2, <2>3 DEF FailWave
<1> QED
  BY <1>1, <1>2, <1>3, <1>4, <1>5, StoreSteps, MutateKeeps, ClaimWaveKeeps,
     CompleteWaveKeeps DEF KeptInv

\* No mutation is forgotten: the latest revision of every source is in the journal, is
\* an input of the running wave, or was taken by a wave that completed.
THEOREM NothingIsForgotten == StoreSpec => []NothingForgotten
<1>1. StoreInit => KeptInv
  BY InitTyped DEF KeptInv, Kept, OneInput, LatestIsCurrent, InputIsCurrent, NothingForgotten,
                   StoreInit, Latest, Running
<1>2. KeptInv /\ [StoreNext]_svars => KeptInv'
  BY KeptStep
<1>3. KeptInv => NothingForgotten
  BY DEF KeptInv, Kept
<1> QED
  BY <1>1, <1>2, <1>3, PTL DEF StoreSpec

-----------------------------------------------------------------------------
(* What counts as recovered was taken by a wave that completed.             *)

\* A wave with this row takes i when it completes, or a wave before it did.
Taken(i, row, taken) ==
    \/ taken[i.source] >= i.revision
    \/ \E k \in row.inputs : k.source = i.source /\ k.revision >= i.revision

\* A running wave that reaches generation g takes all of the rows: what waits for g is
\* recovered when it completes.
Owed(rows, g, waves, taken) ==
    \A w \in Waves : waves[w].status = "running" /\ waves[w].cutoff >= g =>
        \A i \in rows : Taken(i, waves[w], taken)

\* No revision is higher than that of its source.
Grown(rows, revisions) == \A i \in rows : i.revision <= revisions[i.source]

Grows ==
    /\ \A s \in Sources : covered[s] <= revision[s]
    /\ \A w \in Waves : Grown(wave[w].inputs, revision)
    /\ \A b \in Batches : Grown(mutated[b], revision)

\* The running wave took the journal up to its cutoff, and nothing older than what
\* completed waves took.
RunningAhead ==
    \A w \in Waves : Running(w) =>
        /\ wave[w].cutoff <= generation
        /\ \A d \in dirty : d.generation > wave[w].cutoff
        /\ \A k \in wave[w].inputs : k.revision >= covered[k.source]

Failures ==
    \A w \in Waves :
        /\ incident[w].status # "none" => wave[w].status # "absent"
        /\ incident[w].status = "unresolved" =>
              Owed(wave[w].inputs, incident[w].recovery, wave, covered)

Leftovers ==
    \A b \in Batches :
        /\ batch[b].status = "abandoned" =>
              Owed(mutated[b], batch[b].recovery, wave, covered)
        /\ batch[b].recovered => batch[b].status = "abandoned"
        /\ mutated[b] # {} => batch[b].highest # Never

Recovery ==
    /\ Grows /\ RunningAhead /\ Failures /\ Leftovers
    /\ ResolvedMeansRecovered /\ BatchRecovery

RecoveryInv == KeptInv /\ Recovery

\* What is in the journal is recovered by the next wave, and what is not, by the wave
\* that runs: rows that wait for the generation the journal has reached are owed.
LEMMA OwedNow ==
    ASSUME RecoveryInv, NEW rows \in SUBSET Entry, Grown(rows, revision), NEW fallback \in Nat
    PROVE  Owed(rows, RecoveryGeneration(dirty, fallback), wave, covered)
<1>1. /\ dirty \in SUBSET Entry /\ generation \in Nat /\ Below(dirty, generation)
      /\ wave \in [Waves -> WaveRow] /\ revision \in [Sources -> Nat]
      /\ covered \in [Sources -> Nat]
  BY DEF RecoveryInv, KeptInv, TypeInv, StoreTypeOK, Below
<1> DEFINE g == RecoveryGeneration(dirty, fallback)
<1>2. g \in Nat /\ (dirty # {} => \E d \in dirty : d.generation = g)
  BY <1>1, RecoveryType
<1> HIDE DEF g
<1> SUFFICES ASSUME NEW w \in Waves, Running(w), wave[w].cutoff >= g, NEW i \in rows
             PROVE  Taken(i, wave[w], covered)
  BY DEF Owed, Running, g
<1>3. wave[w].cutoff \in Nat /\ i.source \in Sources /\ i.revision \in Nat
      /\ i.revision <= revision[i.source]
  BY <1>1 DEF WaveRow, Entry, Grown
<1>4. dirty = {}
  BY <1>2, <1>3 DEF RecoveryInv, Recovery, RunningAhead
<1>5. CASE covered[i.source] = revision[i.source]
  BY <1>1, <1>3, <1>5 DEF Taken
<1>6. CASE \E v \in Waves : Running(v) /\ TakenBy(v, i.source)
  <2>1. TakenBy(w, i.source)
    BY <1>6 DEF RecoveryInv, KeptInv, TypeInv, StoreTypeOK
  <2>2. PICK k \in wave[w].inputs : k.source = i.source /\ k.revision = revision[i.source]
    BY <2>1 DEF TakenBy
  <2> QED
    BY <1>1, <1>3, <2>2 DEF Taken
<1> QED
  BY <1>3, <1>4, <1>5, <1>6 DEF RecoveryInv, KeptInv, Kept, NothingForgotten, Latest

\* The steps that leave the journal, the waves and what they took alone.
LEMMA BatchRecovers ==
    ASSUME RecoveryInv, BatchEffect
    PROVE  Recovery'
<1>1. UNCHANGED <<revision, dirty, generation, wave, incident, covered, mutated>>
  BY DEF BatchEffect, journal, history
<1>2. Grows' /\ RunningAhead' /\ Failures' /\ ResolvedMeansRecovered'
  BY <1>1 DEF RecoveryInv, Recovery, Grows, RunningAhead, Failures, ResolvedMeansRecovered,
              Running
<1>3. \A b \in Batches : /\ mutated[b] \in SUBSET Entry /\ Grown(mutated[b], revision)
                         /\ batch[b].highest \in Nat
  BY DEF RecoveryInv, Recovery, Grows, KeptInv, TypeInv, StoreTypeOK, BatchRow
<1>4. ASSUME NEW b \in Batches
      PROVE  /\ batch'[b].status = "abandoned" =>
                    Owed(mutated[b], batch'[b].recovery, wave, covered)
             /\ batch'[b].recovered => batch'[b].status = "abandoned"
             /\ mutated[b] # {} => batch'[b].highest # Never
             /\ batch'[b].recovered => \A d \in mutated[b] : covered[d.source] >= d.revision
  <2>1. CASE SameEnd(batch[b], batch'[b])
    BY <2>1 DEF SameEnd, RecoveryInv, Recovery, Leftovers, BatchRecovery
  <2>2. CASE NewEnd(batch[b], batch'[b])
    <3>1. Owed(mutated[b], RecoveryGeneration(dirty, batch[b].highest), wave, covered)
      BY <1>3, OwedNow
    <3>2. batch[b].highest = Never => mutated[b] = {}
      BY DEF RecoveryInv, Recovery, Leftovers
    <3>3. mutated[b] # {} => batch[b].highest # Never
      BY <3>2
    <3> QED
      BY <2>2, <3>1, <3>2, <3>3 DEF NewEnd
  <2> QED
    BY <2>1, <2>2 DEF BatchEffect
<1>5. Leftovers' /\ BatchRecovery'
  BY <1>1, <1>4 DEF Leftovers, BatchRecovery
<1> QED
  BY <1>2, <1>5 DEF Recovery

LEMMA SameRecovers ==
    ASSUME RecoveryInv,
           UNCHANGED <<revision, dirty, generation, wave, batch, incident, covered, mutated>>
    PROVE  Recovery'
BY DEF RecoveryInv, Recovery, Grows, RunningAhead, Failures, Leftovers,
       ResolvedMeansRecovered, BatchRecovery, Running

LEMMA MutateRecovers ==
    ASSUME RecoveryInv, NEW s \in Sources, NEW b \in Batches \cup {Unscoped}, Mutate(s, b)
    PROVE  Recovery'
<1> DEFINE d == [source |-> s, revision |-> revision'[s], generation |-> generation']
<1>1. /\ revision \in [Sources -> Nat] /\ generation \in Nat /\ dirty \subseteq Entry
      /\ wave \in [Waves -> WaveRow] /\ covered \in [Sources -> Nat]
      /\ batch \in [Batches -> BatchRow] /\ mutated \in [Batches -> SUBSET Entry]
  BY DEF RecoveryInv, KeptInv, TypeInv, StoreTypeOK
<1>2. /\ generation' = generation + 1 /\ dirty' = dirty \cup {d}
      /\ revision' = [revision EXCEPT ![s] = @ + 1] /\ Recorded(b, d)
      /\ b # Unscoped => batch[b].status = "open"
      /\ UNCHANGED <<wave, incident, covered>>
  BY DEF Mutate
<1>3. d.source = s /\ d.revision = revision'[s] /\ d.generation = generation + 1
  BY <1>2
<1>4. \A t \in Sources : revision'[t] \in Nat /\ revision[t] \in Nat /\ revision[t] <= revision'[t]
  BY <1>1, <1>2
<1> HIDE DEF d
<1>5. \A rows \in SUBSET Entry : Grown(rows, revision) => Grown(rows, revision')
  BY <1>4 DEF Grown, Entry
<1>6. \A a \in Batches : /\ batch'[a].status = batch[a].status
                         /\ batch'[a].recovery = batch[a].recovery
                         /\ batch'[a].recovered = batch[a].recovered
  <2>1. CASE b = Unscoped
    BY <1>2, <2>1 DEF Recorded
  <2>2. CASE b # Unscoped
    BY <1>1, <1>2, <2>2, SMTT(30) DEF Recorded, BatchRow
  <2> QED
    BY <2>1, <2>2
<1>7. \A a \in Batches : \/ mutated'[a] = mutated[a] /\ batch'[a].highest = batch[a].highest
                         \/ /\ mutated'[a] = mutated[a] \cup {d}
                            /\ batch'[a].highest = d.generation /\ batch[a].status = "open"
  <2>1. CASE b = Unscoped
    BY <1>2, <2>1 DEF Recorded
  <2>2. CASE b # Unscoped
    BY <1>1, <1>2, <2>2 DEF Recorded, BatchRow
  <2> QED
    BY <2>1, <2>2
<1>8. Grows'
  <2>1. \A t \in Sources : covered[t] <= revision'[t]
    BY <1>1, <1>4 DEF RecoveryInv, Recovery, Grows
  <2>2. \A w \in Waves : Grown(wave[w].inputs, revision')
    BY <1>1, <1>5 DEF RecoveryInv, Recovery, Grows, WaveRow
  <2>3. \A a \in Batches : Grown(mutated[a], revision')
    BY <1>1, <1>5 DEF RecoveryInv, Recovery, Grows
  <2>4. Grown({d}, revision')
    BY <1>3, <1>4 DEF Grown
  <2>5. \A a \in Batches : Grown(mutated'[a], revision')
    BY <1>7, <2>3, <2>4 DEF Grown
  <2> QED
    BY <1>2, <2>1, <2>2, <2>5 DEF Grows
<1>9. RunningAhead'
  BY <1>1, <1>2, <1>3 DEF RecoveryInv, Recovery, RunningAhead, Running, WaveRow
<1>10. Failures' /\ ResolvedMeansRecovered'
  BY <1>2 DEF RecoveryInv, Recovery, Failures, ResolvedMeansRecovered
<1>11. Leftovers'
  <2> SUFFICES ASSUME NEW a \in Batches
               PROVE  /\ batch'[a].status = "abandoned" =>
                            Owed(mutated'[a], batch'[a].recovery, wave, covered)
                      /\ batch'[a].recovered => batch'[a].status = "abandoned"
                      /\ mutated'[a] # {} => batch'[a].highest # Never
    BY <1>2 DEF Leftovers
  <2>1. d.generation # Never
    BY <1>1, <1>3 DEF Never
  <2> QED
    BY <1>6, <1>7, <2>1 DEF RecoveryInv, Recovery, Leftovers
<1>12. BatchRecovery'
  <2> SUFFICES ASSUME NEW a \in Batches, batch'[a].recovered, NEW k \in mutated'[a]
               PROVE  covered[k.source] >= k.revision
    BY <1>2 DEF BatchRecovery
  <2>1. batch[a].recovered /\ batch[a].status = "abandoned"
    BY <1>6 DEF RecoveryInv, Recovery, Leftovers
  <2>2. mutated'[a] = mutated[a]
    BY <1>7, <2>1
  <2> QED
    BY <2>1, <2>2 DEF RecoveryInv, Recovery, BatchRecovery
<1> QED
  BY <1>8, <1>9, <1>10, <1>11, <1>12 DEF Recovery

LEMMA ClaimWaveRecovers ==
    ASSUME RecoveryInv, NEW w \in Waves, ClaimWave(w)
    PROVE  Recovery'
<1> DEFINE row == [status |-> "running", cutoff |-> RecoveryGeneration(dirty, Never),
                   epoch |-> epoch, inputs |-> Latest(dirty)]
<1>1. /\ revision \in [Sources -> Nat] /\ generation \in Nat /\ dirty \in SUBSET Entry
      /\ wave \in [Waves -> WaveRow] /\ covered \in [Sources -> Nat] /\ Below(dirty, generation)
      /\ mutated \in [Batches -> SUBSET Entry]
  BY DEF RecoveryInv, KeptInv, TypeInv, StoreTypeOK, Below
<1>2. /\ wave[w].status = "absent" /\ dirty # {} /\ dirty' = {}
      /\ \A v \in Waves : ~Running(v)
      /\ wave' = [wave EXCEPT ![w] = row]
      /\ UNCHANGED <<revision, generation, batch, incident, covered, mutated>>
  BY DEF ClaimWave, history
<1>3. /\ row.status = "running" /\ row.cutoff = RecoveryGeneration(dirty, Never)
      /\ row.inputs = Latest(dirty)
  OBVIOUS
<1> HIDE DEF row
<1>4. wave'[w] = row /\ \A v \in Waves : v # w => wave'[v] = wave[v]
  BY <1>1, <1>2
<1>5. row.cutoff <= generation
  BY <1>1, <1>2, <1>3, RecoveryType DEF Below, Never
<1>6. \A i \in row.inputs : /\ i \in Entry /\ i.source \in Sources /\ i.revision \in Nat
                            /\ i.revision = revision[i.source]
  BY <1>1, <1>3 DEF Latest, Entry, RecoveryInv, KeptInv, Kept, LatestIsCurrent
<1>7. Grows'
  <2>1. Grown(row.inputs, revision)
    BY <1>1, <1>6 DEF Grown
  <2>2. \A v \in Waves : Grown(wave'[v].inputs, revision)
    BY <1>4, <2>1 DEF RecoveryInv, Recovery, Grows
  <2> QED
    BY <1>2, <2>2 DEF RecoveryInv, Recovery, Grows
<1>8. RunningAhead'
  <2>1. \A i \in row.inputs : i.revision >= covered[i.source]
    BY <1>1, <1>6 DEF RecoveryInv, Recovery, Grows
  <2> QED
    BY <1>2, <1>3, <1>4, <1>5, <2>1 DEF RunningAhead, Running
\* The new wave takes all that no completed wave took.
<1>9. \A rows \in SUBSET Entry : \A g : Grown(rows, revision) => Owed(rows, g, wave', covered)
  <2> SUFFICES ASSUME NEW rows \in SUBSET Entry, Grown(rows, revision), NEW i \in rows
               PROVE  Taken(i, row, covered)
    BY <1>2, <1>4 DEF Owed, Running
  <2>1. i.source \in Sources /\ i.revision \in Nat /\ i.revision <= revision[i.source]
    BY DEF Entry, Grown
  <2>2. CASE covered[i.source] = revision[i.source]
    BY <1>1, <2>1, <2>2 DEF Taken
  <2>3. CASE \E k \in Latest(dirty) : k.source = i.source /\ k.revision = revision[i.source]
    BY <1>1, <1>3, <2>1, <2>3 DEF Taken
  <2> QED
    BY <1>2, <2>1, <2>2, <2>3 DEF RecoveryInv, KeptInv, Kept, NothingForgotten
<1>10. Failures'
  <2> SUFFICES ASSUME NEW v \in Waves
               PROVE  /\ incident[v].status # "none" => wave'[v].status # "absent"
                      /\ incident[v].status = "unresolved" =>
                            Owed(wave'[v].inputs, incident[v].recovery, wave', covered)
    BY <1>2 DEF Failures
  <2>1. incident[v].status # "none" => v # w
    BY <1>2 DEF RecoveryInv, Recovery, Failures
  <2>2. Grown(wave[v].inputs, revision) /\ wave[v].inputs \in SUBSET Entry
    BY <1>1 DEF RecoveryInv, Recovery, Grows, WaveRow
  <2> QED
    BY <1>4, <1>9, <2>1, <2>2 DEF RecoveryInv, Recovery, Failures
<1>11. ResolvedMeansRecovered'
  <2>1. \A v \in Waves : incident[v].status = "resolved" => v # w
    BY <1>2 DEF RecoveryInv, Recovery, Failures
  <2> QED
    BY <1>2, <1>4, <2>1 DEF RecoveryInv, Recovery, ResolvedMeansRecovered
<1>12. Leftovers'
  <2>1. \A b \in Batches : mutated[b] \in SUBSET Entry /\ Grown(mutated[b], revision)
    BY <1>1 DEF RecoveryInv, Recovery, Grows
  <2> QED
    BY <1>2, <1>9, <2>1 DEF RecoveryInv, Recovery, Leftovers
<1>13. BatchRecovery'
  BY <1>2 DEF RecoveryInv, Recovery, BatchRecovery
<1> QED
  BY <1>7, <1>8, <1>10, <1>11, <1>12, <1>13 DEF Recovery

\* A wave that ends without a result leaves no wave running, so nothing is owed yet.
LEMMA RequeueRecovers ==
    ASSUME RecoveryInv, NEW w \in Waves, NEW status \in {"failed", "superseded"},
           WaveEnds(w, status), Requeue(w), UNCHANGED <<batch, covered, mutated>>,
           \A v \in Waves : \/ incident'[v] = incident[v]
                            \/ v = w /\ incident'[v].status = "unresolved"
    PROVE  Recovery'
<1>1. /\ \A v \in Waves : wave'[v].inputs = wave[v].inputs /\ (v # w => wave'[v] = wave[v])
      /\ \A v \in Waves : ~(Running(v)')
  BY EndsEffect DEF RecoveryInv, KeptInv
<1>2. revision' = revision
  BY DEF Requeue
<1>3. wave'[w].status # "absent"
  BY DEF WaveEnds, RecoveryInv, KeptInv, TypeInv, StoreTypeOK, WaveRow
<1>4. \A rows, g : Owed(rows, g, wave', covered)
  BY <1>1 DEF Owed, Running
<1>5. Grows' /\ RunningAhead'
  BY <1>1, <1>2 DEF RecoveryInv, Recovery, Grows, RunningAhead
<1>6. Failures' /\ ResolvedMeansRecovered'
  BY <1>1, <1>3, <1>4 DEF RecoveryInv, Recovery, Failures, ResolvedMeansRecovered
<1>7. Leftovers' /\ BatchRecovery'
  BY <1>4 DEF RecoveryInv, Recovery, Leftovers, BatchRecovery
<1> QED
  BY <1>5, <1>6, <1>7 DEF Recovery

LEMMA FailWaveRecovers ==
    ASSUME RecoveryInv, NEW w \in Waves, NEW r \in Rules, FailWave(w, r)
    PROVE  Recovery'
<1>1. /\ incident \in [Waves -> [status : {"none", "unresolved", "resolved"}, recovery : Nat]]
      /\ wave \in [Waves -> WaveRow]
  BY DEF RecoveryInv, KeptInv, TypeInv, StoreTypeOK
<1> DEFINE new == [status |-> "unresolved",
                   recovery |-> RecoveryGeneration(dirty', wave[w].cutoff)]
<1>2. /\ wave[w].status # "absent" /\ UNCHANGED <<batch, covered, mutated>>
      /\ incident' = incident \/ incident' = [incident EXCEPT ![w] = new]
  BY DEF FailWave, history
<1>3. \A v \in Waves : incident'[v] = incident[v] \/ (v = w /\ incident'[v] = new)
  <2> HIDE DEF new
  <2> QED
    BY <1>1, <1>2
<1>4. CASE Running(w) /\ Requeue(w) /\ wave' = [wave EXCEPT ![w].status = "failed"]
  <2>1. \A v \in Waves : \/ incident'[v] = incident[v]
                         \/ v = w /\ incident'[v].status = "unresolved"
    BY <1>3
  <2> QED
    BY <1>2, <1>4, <2>1, RequeueRecovers DEF WaveEnds
<1>5. CASE UNCHANGED <<journal, wave>>
  <2>1. UNCHANGED <<revision, dirty, generation, wave>>
    BY <1>5 DEF journal
  <2>2. wave[w].inputs \in SUBSET Entry /\ wave[w].cutoff \in Nat
        /\ Grown(wave[w].inputs, revision)
    BY <1>1 DEF WaveRow, RecoveryInv, Recovery, Grows
  <2>3. Owed(wave[w].inputs, new.recovery, wave, covered)
    BY <2>1, <2>2, OwedNow
  <2>4. new.status = "unresolved"
    OBVIOUS
  <2> HIDE DEF new
  <2>5. Failures' /\ ResolvedMeansRecovered'
    BY <1>2, <1>3, <2>1, <2>3, <2>4 DEF RecoveryInv, Recovery, Failures, ResolvedMeansRecovered
  <2> QED
    BY <1>2, <2>1, <2>5 DEF RecoveryInv, Recovery, Grows, RunningAhead, Leftovers,
                            BatchRecovery, Running
<1> QED
  BY <1>4, <1>5 DEF FailWave

\* What is owed at the cutoff of a wave, or below it, is taken when the wave completes.
LEMMA CompletedTakes ==
    ASSUME RecoveryInv, NEW w \in Waves, CompleteWave(w)
    PROVE  /\ \A s \in Sources : covered[s] <= covered'[s] /\ covered'[s] <= revision[s]
           /\ \A i \in Entry : Taken(i, wave[w], covered) => covered'[i.source] >= i.revision
<1>1. /\ wave[w].inputs \subseteq Entry /\ covered \in [Sources -> Nat]
      /\ revision \in [Sources -> Nat]
  BY DEF RecoveryInv, KeptInv, TypeInv, StoreTypeOK, WaveRow
<1>2. \A k \in wave[w].inputs : /\ k.source \in Sources /\ k.revision \in Nat
                                /\ k.revision >= covered[k.source]
                                /\ k.revision <= revision[k.source]
  BY <1>1 DEF Entry, RecoveryInv, Recovery, RunningAhead, Grows, Grown, CompleteWave
<1>3. \A k \in wave[w].inputs : covered'[k.source] = k.revision
  <2> SUFFICES ASSUME NEW k \in wave[w].inputs PROVE covered'[k.source] = k.revision
    OBVIOUS
  <2> DEFINE chosen == CHOOSE i \in wave[w].inputs : i.source = k.source
  <2>1. chosen \in wave[w].inputs /\ chosen.source = k.source
    OBVIOUS
  <2>2. chosen = k
    BY <2>1 DEF RecoveryInv, KeptInv, Kept, OneInput
  <2>3. covered'[k.source] = chosen.revision
    BY <1>2 DEF CompleteWave
  <2> QED
    BY <2>2, <2>3
<1>4. \A s \in Sources : ~(\E k \in wave[w].inputs : k.source = s) => covered'[s] = covered[s]
  BY DEF CompleteWave
<1>5. \A s \in Sources : covered[s] <= covered'[s] /\ covered'[s] <= revision[s]
  <2> TAKE s \in Sources
  <2>1. covered[s] <= revision[s]
    BY DEF RecoveryInv, Recovery, Grows
  <2> QED
    BY <1>1, <1>2, <1>3, <1>4, <2>1
<1>6. \A s \in Sources : covered[s] \in Nat /\ covered'[s] \in Nat
  BY <1>1, <1>2, <1>3, <1>4
<1>7. \A i \in Entry : Taken(i, wave[w], covered) => covered'[i.source] >= i.revision
  BY <1>2, <1>3, <1>5, <1>6 DEF Taken, Entry
<1> QED
  BY <1>5, <1>7

LEMMA CompleteWaveRecovers ==
    ASSUME RecoveryInv, NEW w \in Waves, CompleteWave(w)
    PROVE  Recovery'
<1>1. /\ wave \in [Waves -> WaveRow] /\ batch \in [Batches -> BatchRow]
      /\ covered \in [Sources -> Nat] /\ mutated \in [Batches -> SUBSET Entry]
      /\ incident \in [Waves -> [status : {"none", "unresolved", "resolved"}, recovery : Nat]]
  BY DEF RecoveryInv, KeptInv, TypeInv, StoreTypeOK
<1>2. covered' \in [Sources -> Nat]
  BY CompleteWaveTyped DEF RecoveryInv, KeptInv, TypeInv, StoreTypeOK
<1>3. /\ Running(w) /\ WaveEnds(w, "completed")
      /\ UNCHANGED <<revision, dirty, generation, mutated>>
  BY DEF CompleteWave, WaveEnds, journal
<1>4. /\ \A v \in Waves : wave'[v].inputs = wave[v].inputs /\ (v # w => wave'[v] = wave[v])
      /\ \A v \in Waves : ~(Running(v)')
  BY <1>3, EndsEffect DEF RecoveryInv, KeptInv
<1>5. wave'[w].status # "absent"
  BY <1>1, <1>3 DEF WaveEnds, WaveRow
<1>6. \A rows, g : Owed(rows, g, wave', covered')
  BY <1>4 DEF Owed, Running
<1>7. /\ \A s \in Sources : covered[s] <= covered'[s] /\ covered'[s] <= revision[s]
      /\ \A i \in Entry : Taken(i, wave[w], covered) => covered'[i.source] >= i.revision
  BY CompletedTakes
<1>8. \A rows \in SUBSET Entry : \A g :
         Owed(rows, g, wave, covered) /\ wave[w].cutoff >= g =>
            \A i \in rows : covered'[i.source] >= i.revision
  BY <1>3, <1>7 DEF Owed, Running
<1>9. \A rows \in SUBSET Entry :
         (\A i \in rows : covered[i.source] >= i.revision) =>
            \A i \in rows : covered'[i.source] >= i.revision
  BY <1>1, <1>2, <1>7 DEF Entry
<1>10. Grows' /\ RunningAhead'
  BY <1>3, <1>4, <1>7 DEF RecoveryInv, Recovery, Grows, RunningAhead
<1>11. ASSUME NEW v \in Waves
       PROVE  /\ incident'[v].status # "none" => wave'[v].status # "absent"
              /\ incident'[v].status = "resolved" =>
                    \A i \in wave'[v].inputs : covered'[i.source] >= i.revision
  <2>1. wave[v].inputs \in SUBSET Entry /\ wave[w].cutoff \in Nat /\ incident[v].recovery \in Nat
    BY <1>1 DEF WaveRow
  <2>2. incident'[v] = Resolved(incident[v], wave[w].cutoff)
    BY DEF CompleteWave
  <2>3. incident'[v].status # "none" => incident[v].status # "none"
    BY <2>2 DEF Resolved
  <2>4. CASE incident[v].status = "unresolved" /\ incident[v].recovery <= wave[w].cutoff
    <3>1. Owed(wave[v].inputs, incident[v].recovery, wave, covered)
      BY <2>4 DEF RecoveryInv, Recovery, Failures
    <3> QED
      BY <1>4, <1>5, <1>8, <2>1, <2>3, <2>4, <3>1 DEF RecoveryInv, Recovery, Failures
  <2>5. CASE ~(incident[v].status = "unresolved" /\ incident[v].recovery <= wave[w].cutoff)
    <3>1. incident'[v] = incident[v]
      BY <2>2, <2>5 DEF Resolved
    <3> QED
      BY <1>4, <1>5, <1>9, <2>1, <3>1
         DEF RecoveryInv, Recovery, Failures, ResolvedMeansRecovered
  <2> QED
    BY <2>4, <2>5
<1>12. Failures' /\ ResolvedMeansRecovered'
  BY <1>6, <1>11 DEF Failures, ResolvedMeansRecovered
<1>13. ASSUME NEW b \in Batches
       PROVE  /\ batch'[b].recovered => batch'[b].status = "abandoned"
              /\ mutated[b] # {} => batch'[b].highest # Never
              /\ batch'[b].recovered => \A d \in mutated[b] : covered'[d.source] >= d.revision
  <2>1. mutated[b] \in SUBSET Entry /\ wave[w].cutoff \in Nat /\ batch[b].recovery \in Nat
    BY <1>1 DEF WaveRow, BatchRow
  <2>2. batch'[b] = Recovered(batch[b], wave[w].cutoff)
    BY DEF CompleteWave
  <2>3. CASE batch[b].status = "abandoned" /\ batch[b].recovery <= wave[w].cutoff
    <3>1. Owed(mutated[b], batch[b].recovery, wave, covered)
      BY <2>3 DEF RecoveryInv, Recovery, Leftovers
    <3>2. batch'[b].status = "abandoned" /\ batch'[b].highest = batch[b].highest
      BY <1>1, <2>2, <2>3 DEF Recovered, BatchRow
    <3> QED
      BY <1>8, <2>1, <2>3, <3>1, <3>2 DEF RecoveryInv, Recovery, Leftovers
  <2>4. CASE ~(batch[b].status = "abandoned" /\ batch[b].recovery <= wave[w].cutoff)
    <3>1. batch'[b] = batch[b]
      BY <2>2, <2>4 DEF Recovered
    <3> QED
      BY <1>9, <2>1, <3>1 DEF RecoveryInv, Recovery, Leftovers, BatchRecovery
  <2> QED
    BY <2>3, <2>4
<1>14. Leftovers' /\ BatchRecovery'
  BY <1>3, <1>6, <1>13 DEF Leftovers, BatchRecovery
<1> QED
  BY <1>10, <1>12, <1>14 DEF Recovery

LEMMA RecoveryStep == RecoveryInv /\ [StoreNext]_svars => RecoveryInv'
<1> SUFFICES ASSUME RecoveryInv, [StoreNext]_svars PROVE Recovery'
  BY KeptStep DEF RecoveryInv
<1>1. CASE UNCHANGED svars
  BY <1>1, SameRecovers DEF svars, journal, history
<1>2. CASE RuleEffect
  BY <1>2, SameRecovers DEF RuleEffect, journal, history
<1>3. ASSUME NEW w \in Waves, Supersede(w)
      PROVE  Recovery'
  BY <1>3, RequeueRecovers DEF Supersede, WaveEnds, history
<1> QED
  BY <1>1, <1>2, <1>3, StoreSteps, BatchRecovers, MutateRecovers, ClaimWaveRecovers,
     FailWaveRecovers, CompleteWaveRecovers DEF RecoveryInv, KeptInv

LEMMA RecoveryIsInvariant == StoreSpec => []RecoveryInv
<1>1. StoreInit => RecoveryInv
  <2> SUFFICES ASSUME StoreInit PROVE RecoveryInv
    OBVIOUS
  <2>1. KeptInv
    BY InitTyped DEF KeptInv, Kept, OneInput, LatestIsCurrent, InputIsCurrent,
                     NothingForgotten, StoreInit, Latest, Running
  <2>2. /\ \A w \in Waves : wave[w].status = "absent" /\ wave[w].inputs = {}
                            /\ incident[w].status = "none"
        /\ \A b \in Batches : /\ batch[b].status = "absent" /\ ~batch[b].recovered
                              /\ mutated[b] = {}
        /\ \A s \in Sources : covered[s] = 0 /\ revision[s] = 0
    BY DEF StoreInit, NoBatch
  <2>3. Grows /\ RunningAhead
    BY <2>2 DEF Grows, Grown, RunningAhead, Running
  <2>4. Failures /\ Leftovers /\ ResolvedMeansRecovered /\ BatchRecovery
    BY <2>2 DEF Failures, Leftovers, ResolvedMeansRecovered, BatchRecovery
  <2> QED
    BY <2>1, <2>3, <2>4 DEF RecoveryInv, Recovery
<1> QED
  BY <1>1, RecoveryStep, PTL DEF StoreSpec

\* When an incident counts as resolved, every input of the wave that failed was taken by
\* a wave that completed: comparing its recovery generation with a cutoff is enough,
\* whatever was mutated, claimed, superseded or failed in between.
THEOREM ResolvedIncidentsRecovered == StoreSpec => []ResolvedMeansRecovered
<1>1. RecoveryInv => ResolvedMeansRecovered
  BY DEF RecoveryInv, Recovery
<1> QED
  BY <1>1, RecoveryIsInvariant, PTL

\* When an abandoned batch counts as recovered, everything mutated in it was taken by a
\* wave that completed, also if it was abandoned while a wave ran.
THEOREM RecoveredBatchesTaken == StoreSpec => []BatchRecovery
<1>1. RecoveryInv => BatchRecovery
  BY DEF RecoveryInv, Recovery
<1> QED
  BY <1>1, RecoveryIsInvariant, PTL

=============================================================================
