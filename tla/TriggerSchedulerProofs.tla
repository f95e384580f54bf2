------------------------ MODULE TriggerSchedulerProofs ------------------------
(***************************************************************************)
(* Proofs about TriggerScheduler for every set of workflows, triggers and  *)
(* events, every bound and every way triggers share rows: one run per      *)
(* event, trigger and workflow (DeliveredAtMostOnce), the next instant of  *)
(* a trigger (NextInstant), one run per occurrence (OccurrencesOnce), and  *)
(* a schedule that is not lost of a trigger that has a row of its own      *)
(* (EnabledAlwaysScheduled).                                               *)
(***************************************************************************)
EXTENDS TriggerScheduler, SequenceTheorems, TLAPS

-----------------------------------------------------------------------------
(* The inductive invariants.                                               *)

\* Between RecordDelivery and the end of its start, a goroutine is the only one with its
\* delivery, and no run has been created for it.
Starting(g) == ing[g].pc \in {"start", "rollback"}
Claimed == \A g \in Ingests : Starting(g) =>
               /\ <<ing[g].e, ing[g].t>> \in delivered
               /\ runs[<<ing[g].e, ing[g].t>>] = 0
               /\ \A h \in Ingests : Starting(h) /\ h # g => <<ing[h].e, ing[h].t>> # <<ing[g].e, ing[g].t>>

\* Where there is a run, there is the delivery.
Recorded == \A d \in Events \X EventTriggers : runs[d] > 0 => d \in delivered

\* Where a goroutine handles an event trigger, it has one.
Handling == \A g \in Ingests : ing[g].pc # "idle" =>
                /\ ing[g].e \in Events
                /\ ing[g].pc # "check" => ing[g].t \in EventTriggers

DeliveryInv ==
    /\ ing \in [Ingests -> IngRec] /\ runs \in [Events \X EventTriggers -> Nat]
    /\ delivered \subseteq Events \X EventTriggers
    /\ Handling /\ Claimed /\ Recorded /\ DeliveredOnce

\* A row, a due row and a row to cancel belong to a trigger of their workflow.
Stands(w, r) == \E t \in Owned(w) : Row[t] = r /\ Kind[t] # "event"
Belong ==
    /\ \A r \in Rows : rows[r].status # "none" => rows[r].wf \in Workflows /\ Stands(rows[r].wf, r)
    /\ \A d \in fire.due \cup adm.todo : d.wf \in Workflows /\ Stands(d.wf, d.row)
    /\ fire.pc \in {"get", "start", "resched"} =>
           fire.rec.wf \in Workflows /\ Stands(fire.rec.wf, fire.rec.row)

\* What EnableWorkflow and DisableWorkflow are about to do.
AdminOf ==
    /\ adm.pc = "idle" <=> adm.w = NoWorkflow
    /\ adm.pc # "idle" => adm.w \in Workflows
    /\ \A d \in adm.todo : d.wf = adm.w
    /\ adm.pc = "register" => adm.then = "register"
    /\ adm.pc = "undo" => adm.then = "undo"
    /\ adm.then = "undo" => faults > 0
    /\ ~up => fire.pc = "idle"
    /\ up => boot = {}
    /\ up /\ adm.pc # "idle" => calls > 0

ShapeInv == TypeOK /\ Belong /\ AdminOf

\* A pass handles a row once, at an instant that is due.
OnePass ==
    /\ \A d, e \in fire.due : d.row = e.row => d = e
    /\ \A d \in fire.due : d.at <= fire.now
    /\ fire.pc \in {"get", "start", "resched"} =>
           fire.rec.at <= fire.now /\ \A d \in fire.due : d.row # fire.rec.row

Undisturbed == calls = 0 \/ faults + crashes = 0

\* Before a user calls, nobody registers a row that FireDue has in hand.
HandFree ==
    calls = 0 /\ fire.pc \in {"get", "start", "resched"} => rows[fire.rec.row].status # "pending"

\* All that was started for t is before n.
Before(t, n) == \A i \in 1..Len(fired[t]) : fired[t][i] < n

\* The row r of the workflow w is the one of t.
Stored(t, w, r) == Row[t] = r /\ t \in Owned(w)

\* A trigger's next instants are behind those it was started for, but while FireDue is
\* about to put the row back; what another workflow stored in the same row does not matter.
Later ==
    Undisturbed => \A t \in Recurring :
        /\ ( /\ rows[Row[t]].status = "pending" /\ Stored(t, rows[Row[t]].wf, Row[t])
             /\ ~(fire.pc = "resched" /\ Stored(t, fire.rec.wf, fire.rec.row)) ) =>
               Before(t, rows[Row[t]].at)
        /\ \A d \in fire.due : Stored(t, d.wf, d.row) => Before(t, d.at)
        /\ fire.pc \in {"get", "start"} /\ Stored(t, fire.rec.wf, fire.rec.row) => Before(t, fire.rec.at)
        /\ fire.pc = "resched" /\ Stored(t, fire.rec.wf, fire.rec.row) => Before(t, fire.rec.at + 1)

\* A recurring trigger that shares its row with no other.
Alone == {t \in Recurring : HasOwnRow(t)}

\* The workflow is written before its rows are cancelled and its triggers registered from the first.
Written ==
    /\ adm.pc \in {"list", "cancel"} /\ adm.then = "idle" /\ adm.w \notin Blockable => wf[adm.w] = "disabled"
    /\ adm.pc \in {"list", "cancel", "register"} /\ adm.then = "register" => wf[adm.w] = "enabled"
    /\ adm.pc \in {"put", "list", "cancel"} /\ adm.then = "register" => adm.i = 1

\* What is registered stays scheduled, also while the rest of the workflow is registered.
KeptSo ==
    \A w \in Workflows \ Blockable : Unharmed(w) =>
        /\ w \notin boot /\ wf[w] = "enabled" /\ adm.w # w =>
               \A t \in Owned(w) \cap Alone : Scheduled(w, t)
        /\ adm.w = w /\ adm.pc = "register" =>
               \A j \in 1..Len(TriggersOf[w]) :
                   j < adm.i /\ TriggersOf[w][j] \in Alone => Scheduled(w, TriggersOf[w][j])

OccurrenceInv == OnePass /\ HandFree /\ Later /\ OccurrenceOnce
ScheduleInv == Written /\ KeptSo

-----------------------------------------------------------------------------
(* One run per delivery.                                                   *)

\* The goroutine g goes to another place.
IngGoes(g, x) ==
    /\ ing' \in [Ingests -> IngRec] /\ ing'[g] = x
    /\ \A h \in Ingests : h # g => ing'[h] = ing[h]

LEMMA IngFacts ==
  ASSUME DeliveryInv, NEW g \in Ingests, NEW x \in IngRec, ing' = [ing EXCEPT ![g] = x]
  PROVE  IngGoes(g, x)
  BY DEF DeliveryInv, IngGoes

LEMMA IdleIngFacts == IdleIng \in IngRec /\ IdleIng.pc = "idle"
  BY DEF IdleIng, IngRec

\* A goroutine that claims nothing and creates nothing.
LEMMA IngKeeps ==
  ASSUME DeliveryInv, NEW g \in Ingests, NEW x \in IngRec, IngGoes(g, x), UNCHANGED <<runs, delivered>>,
         x.pc # "idle" => x.e \in Events /\ (x.pc # "check" => x.t \in EventTriggers),
         x.pc \in {"start", "rollback"} => Starting(g) /\ x.e = ing[g].e /\ x.t = ing[g].t
  PROVE  DeliveryInv'
  <1>1. Handling'
    BY DEF DeliveryInv, Handling, IngGoes
  <1>2. \A h \in Ingests : Starting(h)' => Starting(h) /\ ing'[h].e = ing[h].e /\ ing'[h].t = ing[h].t
    BY DEF Starting, IngGoes
  <1>3. Claimed'
    BY <1>2 DEF DeliveryInv, Claimed
  <1>. QED
    BY <1>1, <1>3 DEF DeliveryInv, Recorded, DeliveredOnce, IngGoes

LEMMA IngestMovesKeeps ==
  ASSUME DeliveryInv, NEW g \in Ingests, IngestList(g) \/ IngestCheck(g) \/ IngestTouch(g) \/ IngestFault(g)
  PROVE  DeliveryInv'
  <1>0. /\ ing[g] \in IngRec
        /\ ing[g].pc # "idle" => ing[g].e \in Events /\ (ing[g].pc # "check" => ing[g].t \in EventTriggers)
    BY DEF DeliveryInv, Handling
  <1>1. UNCHANGED <<runs, delivered>>
    BY DEF IngestList, IngestCheck, IngestTouch, IngestFault, tables, history
  <1>2. CASE IngestList(g)
    <2>1. PICK e \in Events :
            ing' = [ing EXCEPT ![g] = [pc |-> "check", e |-> e, t |-> NoWorkflow,
                      todo |-> {t \in EventTriggers : wf[Owner(t)] = "enabled"}]]
      BY <1>2 DEF IngestList
    <2>. DEFINE x == [pc |-> "check", e |-> e, t |-> NoWorkflow,
                      todo |-> {t \in EventTriggers : wf[Owner(t)] = "enabled"}]
    <2>2. x \in IngRec /\ x.pc = "check" /\ x.e \in Events /\ ing' = [ing EXCEPT ![g] = x]
      BY <2>1 DEF IngRec
    <2>. HIDE DEF x
    <2>. QED
      BY <1>1, <2>2, IngFacts, IngKeeps
  <1>3. CASE IngestCheck(g)
    <2>1. CASE \E t \in ing[g].todo :
                 ing' = [ing EXCEPT ![g].pc = "record", ![g].t = t, ![g].todo = @ \ {t}]
      <3>1. PICK t \in ing[g].todo :
              ing' = [ing EXCEPT ![g].pc = "record", ![g].t = t, ![g].todo = @ \ {t}]
        BY <2>1
      <3>. DEFINE x == [ing[g] EXCEPT !.pc = "record", !.t = t, !.todo = @ \ {t}]
      <3>2. x \in IngRec /\ x.pc = "record" /\ x.e = ing[g].e /\ x.t \in EventTriggers
        BY <1>0 DEF IngRec
      <3>3. ing' = [ing EXCEPT ![g] = x]
        BY <3>1 DEF DeliveryInv
      <3>. HIDE DEF x
      <3>. QED
        BY <1>0, <1>1, <1>3, <3>2, <3>3, IngFacts, IngKeeps DEF IngestCheck
    <2>2. CASE \E t \in ing[g].todo : ing' = [ing EXCEPT ![g].todo = @ \ {t}]
      <3>1. PICK t \in ing[g].todo : ing' = [ing EXCEPT ![g].todo = @ \ {t}]
        BY <2>2
      <3>. DEFINE x == [ing[g] EXCEPT !.todo = @ \ {t}]
      <3>2. x \in IngRec /\ x.pc = "check" /\ x.e = ing[g].e
        BY <1>0, <1>3 DEF IngRec, IngestCheck
      <3>3. ing' = [ing EXCEPT ![g] = x]
        BY <3>1
      <3>. HIDE DEF x
      <3>. QED
        BY <1>0, <1>1, <1>3, <3>2, <3>3, IngFacts, IngKeeps DEF IngestCheck
    <2>3. CASE ing' = [ing EXCEPT ![g] = IdleIng]
      BY <1>1, <2>3, IdleIngFacts, IngFacts, IngKeeps
    <2>. QED
      BY <1>3, <2>1, <2>2, <2>3 DEF IngestCheck
  <1>4. CASE IngestTouch(g)
    <2>. DEFINE x == [ing[g] EXCEPT !.pc = "check"]
    <2>1. x \in IngRec /\ x.pc = "check" /\ x.e = ing[g].e
      BY <1>0 DEF IngRec
    <2>2. ing' = [ing EXCEPT ![g] = x]
      BY <1>4 DEF IngestTouch
    <2>. HIDE DEF x
    <2>. QED
      BY <1>0, <1>1, <1>4, <2>1, <2>2, IngFacts, IngKeeps DEF IngestTouch
  <1>5. CASE IngestFault(g)
    BY <1>1, <1>5, IdleIngFacts, IngFacts, IngKeeps DEF IngestFault
  <1>. QED
    BY <1>2, <1>3, <1>4, <1>5

\* RecordDelivery gives a delivery to one goroutine.
LEMMA IngestRecordKeeps ==
  ASSUME DeliveryInv, NEW g \in Ingests, IngestRecord(g)
  PROVE  DeliveryInv'
  <1>0. /\ ing[g] \in IngRec /\ ing[g].pc = "record" /\ ing[g].e \in Events /\ ing[g].t \in EventTriggers
        /\ runs' = runs
    BY DEF DeliveryInv, Handling, IngestRecord, history
  <1>. DEFINE d == <<ing[g].e, ing[g].t>>
              x == [ing[g] EXCEPT !.pc = IF d \in delivered THEN "check" ELSE "start"]
  <1>1. delivered' = delivered \cup {d} /\ ing' = [ing EXCEPT ![g] = x] /\ d \in Events \X EventTriggers
    BY <1>0 DEF IngestRecord
  <1>2. /\ x \in IngRec /\ x.e = ing[g].e /\ x.t = ing[g].t
        /\ d \in delivered => x.pc = "check"
        /\ d \notin delivered => x.pc = "start"
    BY <1>0 DEF IngRec
  <1>. HIDE DEF x
  <1>3. IngGoes(g, x)
    BY <1>1, <1>2, IngFacts
  <1>4. CASE d \in delivered
    <2>1. delivered' = delivered
      BY <1>1, <1>4
    <2>. QED
      BY <1>0, <1>2, <1>3, <1>4, <2>1, IngKeeps
  <1>5. CASE d \notin delivered
    <2>1. runs[d] = 0
      BY <1>1, <1>5 DEF DeliveryInv, Recorded
    <2>2. Handling'
      BY <1>0, <1>2, <1>3 DEF DeliveryInv, Handling, IngGoes
    <2>3. \A h \in Ingests : h # g => (Starting(h)' <=> Starting(h)) /\ ing'[h] = ing[h]
      BY <1>3 DEF Starting, IngGoes
    <2>4. \A h \in Ingests : Starting(h) => <<ing[h].e, ing[h].t>> # d
      BY <1>5 DEF DeliveryInv, Claimed
    <2>5. ing'[g].e = ing[g].e /\ ing'[g].t = ing[g].t
      BY <1>2, <1>3 DEF IngGoes
    <2>6. Claimed'
      BY <1>0, <1>1, <2>1, <2>3, <2>4, <2>5 DEF DeliveryInv, Claimed
    <2>7. Recorded' /\ DeliveredOnce' /\ delivered' \subseteq Events \X EventTriggers
      BY <1>0, <1>1 DEF DeliveryInv, Recorded, DeliveredOnce
    <2>. QED
      BY <1>0, <1>3, <2>2, <2>6, <2>7 DEF DeliveryInv, IngGoes
  <1>. QED
    BY <1>4, <1>5

\* A run is created by the goroutine that has the delivery.
LEMMA IngestStartKeeps ==
  ASSUME DeliveryInv, NEW g \in Ingests, IngestStart(g) \/ IngestStartFails(g) \/ IngestRollback(g)
  PROVE  DeliveryInv'
  <1>. DEFINE d == <<ing[g].e, ing[g].t>>
  <1>0. /\ ing[g] \in IngRec /\ ing[g].e \in Events /\ ing[g].t \in EventTriggers /\ d \in Events \X EventTriggers
        /\ Starting(g) /\ d \in delivered /\ runs[d] = 0
        /\ \A h \in Ingests : Starting(h) /\ h # g => <<ing[h].e, ing[h].t>> # d
    BY DEF DeliveryInv, Handling, Claimed, Starting, IngestStart, IngestStartFails, IngestRollback
  <1>1. PICK x \in IngRec :
          /\ IngGoes(g, x) /\ x.pc \in {"idle", "touch", "rollback"}
          /\ x.pc # "idle" => x.e = ing[g].e /\ x.t = ing[g].t
          /\ \/ runs' = [runs EXCEPT ![d] = @ + 1] /\ delivered' = delivered /\ x.pc # "rollback"
             \/ runs' = runs /\ delivered' = delivered
             \/ runs' = runs /\ delivered' = delivered \ {d} /\ x.pc = "idle"
    <2>1. \A pc \in {"touch", "rollback"} :
            LET y == [ing[g] EXCEPT !.pc = pc] IN
            y \in IngRec /\ y.pc = pc /\ y.e = ing[g].e /\ y.t = ing[g].t
      BY <1>0 DEF IngRec
    <2>2. CASE IngestStart(g)
      <3>. DEFINE y == [ing[g] EXCEPT !.pc = "touch"]
      <3>1. ing' = [ing EXCEPT ![g] = y] /\ delivered' = delivered
        BY <2>2 DEF IngestStart
      <3>2. y \in IngRec /\ y.pc = "touch" /\ y.e = ing[g].e /\ y.t = ing[g].t
        BY <2>1
      <3>3. runs' = [runs EXCEPT ![d] = @ + 1] \/ runs' = runs
        BY <2>2 DEF IngestStart, Created
      <3>. HIDE DEF y
      <3>. QED
        BY <3>1, <3>2, <3>3, IngFacts
    <2>3. CASE IngestStartFails(g) /\ runs' = runs /\ ing' = [ing EXCEPT ![g].pc = "rollback"]
      <3>. DEFINE y == [ing[g] EXCEPT !.pc = "rollback"]
      <3>1. ing' = [ing EXCEPT ![g] = y] /\ delivered' = delivered
        BY <2>3 DEF IngestStartFails, tables
      <3>2. y \in IngRec /\ y.pc = "rollback" /\ y.e = ing[g].e /\ y.t = ing[g].t
        BY <2>1
      <3>. HIDE DEF y
      <3>. QED
        BY <2>3, <3>1, <3>2, IngFacts
    <2>4. CASE IngestStartFails(g) /\ Created(g) /\ ing' = [ing EXCEPT ![g] = IdleIng]
      <3>1. delivered' = delivered
        BY <2>4 DEF IngestStartFails, tables
      <3>. QED
        BY <2>4, <3>1, IdleIngFacts, IngFacts DEF Created
    <2>5. CASE IngestRollback(g)
      BY <2>5, IdleIngFacts, IngFacts DEF IngestRollback, history
    <2>. QED
      BY <2>2, <2>3, <2>4, <2>5 DEF IngestStartFails
  <1>2. /\ runs' \in [Events \X EventTriggers -> Nat] /\ runs'[d] <= 1
        /\ \A c \in Events \X EventTriggers : c # d => runs'[c] = runs[c]
        /\ x.pc = "rollback" => runs'[d] = 0
        /\ delivered' \subseteq delivered /\ \A c \in delivered : c # d => c \in delivered'
        /\ d \in delivered' \/ (runs'[d] = 0 /\ x.pc = "idle")
    BY <1>0, <1>1 DEF DeliveryInv
  <1>3. Handling'
    BY <1>0, <1>1 DEF DeliveryInv, Handling, IngGoes
  <1>4. ASSUME NEW h \in Ingests, h # g, Starting(h)'
        PROVE  /\ Starting(h) /\ ing'[h] = ing[h] /\ <<ing[h].e, ing[h].t>> # d
               /\ <<ing[h].e, ing[h].t>> \in Events \X EventTriggers
    BY <1>0, <1>1, <1>4 DEF Starting, IngGoes, DeliveryInv, Handling
  <1>5. ASSUME Starting(g)'
        PROVE  x.pc = "rollback" /\ <<ing'[g].e, ing'[g].t>> = d
    BY <1>1, <1>5 DEF Starting, IngGoes
  <1>6. Claimed'
    <2>1. ASSUME Starting(g)'
          PROVE  /\ d \in delivered' /\ runs'[d] = 0
                 /\ \A h \in Ingests : Starting(h)' /\ h # g => <<ing'[h].e, ing'[h].t>> # d
      BY <1>2, <1>4, <1>5, <2>1
    <2>2. ASSUME NEW h \in Ingests, h # g, Starting(h)'
          PROVE  /\ <<ing[h].e, ing[h].t>> \in delivered' /\ runs'[<<ing[h].e, ing[h].t>>] = 0
                 /\ ing'[h] = ing[h]
      <3>1. <<ing[h].e, ing[h].t>> \in delivered /\ runs[<<ing[h].e, ing[h].t>>] = 0
        BY <1>4, <2>2 DEF DeliveryInv, Claimed
      <3>. QED
        BY <1>2, <1>4, <2>2, <3>1
    <2>3. ASSUME NEW h \in Ingests, NEW k \in Ingests, h # k, Starting(h)', Starting(k)'
          PROVE  <<ing'[h].e, ing'[h].t>> # <<ing'[k].e, ing'[k].t>>
      <3>1. CASE h = g \/ k = g
        BY <1>4, <1>5, <2>3, <3>1
      <3>2. CASE h # g /\ k # g
        BY ZenonT(60), <1>4, <2>3, <3>2 DEF DeliveryInv, Claimed
      <3>. QED
        BY <3>1, <3>2
    <2>. QED
      BY <1>5, <2>1, <2>2, <2>3 DEF Claimed
  <1>7. Recorded' /\ DeliveredOnce'
    BY <1>0, <1>2 DEF DeliveryInv, Recorded, DeliveredOnce
  <1>. QED
    BY <1>1, <1>2, <1>3, <1>6, <1>7 DEF DeliveryInv, IngGoes

LEMMA DeliveryInvInit == Init => DeliveryInv
  <1>. SUFFICES ASSUME Init PROVE DeliveryInv
    OBVIOUS
  <1>1. /\ ing \in [Ingests -> IngRec] /\ runs \in [Events \X EventTriggers -> Nat]
        /\ delivered = {} /\ \A g \in Ingests : ing[g].pc = "idle"
        /\ \A d \in Events \X EventTriggers : runs[d] = 0
    BY IdleIngFacts DEF Init
  <1>. QED
    BY <1>1 DEF DeliveryInv, Handling, Claimed, Starting, Recorded, DeliveredOnce

LEMMA DeliveryInvStep == DeliveryInv /\ [Next]_vars => DeliveryInv'
  <1>. SUFFICES ASSUME DeliveryInv, [Next]_vars
                PROVE  DeliveryInv'
    OBVIOUS
  <1>1. CASE UNCHANGED <<ing, runs, delivered>>
    BY <1>1 DEF DeliveryInv, Handling, Claimed, Starting, Recorded, DeliveredOnce
  <1>2. CASE FireDue \/ FireFault
    <2>1. UNCHANGED <<ing, runs, delivered>>
      BY ZenonT(60), <1>2 DEF FireDue, FireFault, FireList, FireClaim, FireGet, FireStart, FireReschedule, FireWaits,
                  FireResume, FireTicked, tables, history
    <2>. QED
      BY SMTT(60), <1>1, <2>1
  <1>3. CASE Admin \/ CallUser \/ AdmFault \/ Advance
    <2>1. UNCHANGED <<ing, runs, delivered>>
      BY <1>3 DEF Admin, CallUser, AdmFault, Discover, AdmPut, AdmList, AdmCancel, AdmRegister, AdmRegistered,
                  AdmUndo, Advance, tables, history
    <2>. QED
      BY <1>1, <2>1
  <1>4. ASSUME NEW g \in Ingests, IngestList(g) \/ IngestEvent(g) \/ IngestStartFails(g) \/ IngestFault(g)
        PROVE  DeliveryInv'
    BY <1>4, IngestMovesKeeps, IngestRecordKeeps, IngestStartKeeps DEF IngestEvent
  <1>5. CASE Crash
    <2>1. /\ ing' \in [Ingests -> IngRec] /\ \A g \in Ingests : ing'[g].pc = "idle"
          /\ UNCHANGED <<runs, delivered>>
      BY <1>5, IdleIngFacts DEF Crash, tables, history
    <2>. QED
      BY <2>1 DEF DeliveryInv, Handling, Claimed, Starting, Recorded, DeliveredOnce
  <1>6. CASE UNCHANGED vars
    BY <1>1, <1>6 DEF vars, tables, history
  <1>. QED
    BY <1>2, <1>3, <1>4, <1>5, <1>6 DEF Next

LEMMA DeliveryInvariance == Spec => []DeliveryInv
  BY DeliveryInvInit, DeliveryInvStep, PTL DEF Spec

\* IngestEvent starts a workflow once for an event, whatever fails and wherever the process dies:
\* the delivery is recorded before the run is created, and taken back only where there is none.
THEOREM DeliveredAtMostOnce == Spec => []DeliveredOnce
  <1>1. DeliveryInv => DeliveredOnce
    BY DEF DeliveryInv
  <1>. QED
    BY <1>1, DeliveryInvariance, PTL

-----------------------------------------------------------------------------
(* NextFire.                                                               *)

LEMMA DivFacts ==
  ASSUME NEW a \in Nat, NEW p \in Nat \ {0}
  PROVE  /\ a \div p \in Nat /\ p * (a \div p) \in Nat
         /\ p * (a \div p) <= a /\ a < p * (a \div p) + p
  OBVIOUS

LEMMA CronLater ==
  ASSUME NEW p \in Nat \ {0}, NEW after \in Nat
  PROVE  CronNext(p, after) \in Nat /\ CronNext(p, after) > after
  BY DivFacts DEF CronNext

LEMMA FirstFromLater ==
  ASSUME NEW base \in Nat, NEW p \in Nat \ {0}, NEW n \in Nat
  PROVE  FirstFrom(base, p, n) \in Nat /\ FirstFrom(base, p, n) > base /\ FirstFrom(base, p, n) >= n
  <1>1. CASE base + p >= n
    BY <1>1 DEF FirstFrom
  <1>2. CASE base + p < n
    <2>. DEFINE q == (n - base + p - 1) \div p
    <2>1. n - base + p - 1 \in Nat
      BY <1>2
    <2>2. q \in Nat /\ p * q <= n - base + p - 1 /\ n - base + p - 1 < p * q + p /\ p * q \in Nat
      BY <2>1, DivFacts
    <2>. HIDE DEF q
    <2>3. p * q > 0
      BY <1>2, <2>2
    <2>. QED
      BY <1>2, <2>2, <2>3 DEF FirstFrom, q
  <1>. QED
    BY <1>1, <1>2

\* The next instant of a recurring trigger is an instant behind the last one.
LEMMA NextFireLater ==
  ASSUME NEW kind \in {"interval", "cron"}, NEW p \in Nat \ {0}, NEW n \in Nat,
         NEW last \in Nat, last <= n, NEW policy \in Policies
  PROVE  NextFire(kind, p, n, last, policy) \in Nat /\ NextFire(kind, p, n, last, policy) > last
  <1>1. last # Never
    BY DEF Never
  <1>2. CASE kind = "cron"
    BY <1>1, <1>2, CronLater DEF NextFire
  <1>3. CASE kind = "interval" /\ policy = "skip"
    BY <1>1, <1>3, FirstFromLater DEF NextFire
  <1>4. CASE kind = "interval" /\ policy = "once"
    BY <1>1, <1>4 DEF NextFire
  <1>5. CASE kind = "interval" /\ policy = "all"
    BY <1>1, <1>5 DEF NextFire
  <1>. QED
    BY <1>2, <1>3, <1>4, <1>5 DEF Policies

\* A registered trigger has a next instant, but a one-shot that is over.
LEMMA NextFireType ==
  ASSUME NEW kind \in Kinds, NEW p \in Nat, kind \in {"interval", "cron"} => p # 0, NEW n \in Nat,
         NEW last \in Nat \cup {Never}, NEW policy \in Policies
  PROVE  /\ NextFire(kind, p, n, last, policy) \in Nat \cup {Never}
         /\ kind # "once" => NextFire(kind, p, n, last, policy) \in Nat
  <1>1. CASE kind = "once"
    BY <1>1 DEF NextFire
  <1>2. CASE kind = "cron"
    BY <1>2, CronLater DEF NextFire
  <1>3. CASE kind = "interval" /\ policy = "skip"
    <2>1. PICK base \in Nat : base = IF last = Never THEN n ELSE last
      OBVIOUS
    <2>. QED
      BY <1>3, <2>1, FirstFromLater DEF NextFire
  <1>4. CASE kind = "interval" /\ policy # "skip"
    BY <1>4 DEF NextFire, Policies
  <1>5. CASE kind = "event"
    BY <1>5 DEF NextFire
  <1>. QED
    BY <1>1, <1>2, <1>3, <1>4, <1>5 DEF Kinds

LEMMA LeastIs ==
  ASSUME NEW S \in SUBSET Int, NEW v \in S, \A y \in S : v <= y
  PROVE  (CHOOSE x \in S : \A y \in S : x <= y) = v
  <1>1. \A x \in S : (\A y \in S : x <= y) => x = v
    OBVIOUS
  <1>. QED
    BY <1>1

-----------------------------------------------------------------------------
(* Triggers, rows and workflows.                                           *)

LEMMA OwnedFacts ==
  ASSUME NEW w \in Workflows
  PROVE  /\ TriggersOf[w] \in Seq(Triggers)
         /\ Owned(w) \subseteq Triggers
         /\ \A i \in 1..Len(TriggersOf[w]) : TriggersOf[w][i] \in Owned(w)
  <1>1. TriggersOf[w] \in Seq(Triggers)
    BY TriggerAssumption
  <1>2. \A i \in 1..Len(TriggersOf[w]) : TriggersOf[w][i] \in Triggers
    BY <1>1, ElementOfSeq
  <1>. QED
    BY <1>1, <1>2 DEF Owned

LEMMA TriggerFacts ==
  ASSUME NEW t \in Triggers
  PROVE  /\ Row[t] \in Rows /\ Kind[t] \in Kinds /\ Period[t] \in Nat
         /\ Kind[t] \in {"interval", "cron"} => Period[t] # 0
  <1>1. Row[t] \in Rows
    BY DEF Rows
  <1>2. Kind \in [Triggers -> Kinds] /\ Period \in [Triggers -> Nat]
        /\ \A s \in Recurring : Period[s] > 0
    BY TriggerAssumption
  <1>3. Kind[t] \in {"interval", "cron"} => t \in Recurring
    BY DEF Recurring
  <1>. QED
    BY <1>1, <1>2, <1>3

LEMMA TriggerOfFacts ==
  ASSUME NEW w \in Workflows, NEW r, Stands(w, r)
  PROVE  TriggerOf(w, r) \in Owned(w) /\ TriggerOf(w, r) \in Triggers /\ Row[TriggerOf(w, r)] = r
  BY OwnedFacts DEF Stands, TriggerOf

\* What FireDue puts back is the next instant of a trigger.
LEMMA RescheduleFacts ==
  ASSUME NEW w \in Workflows, NEW t \in Triggers, NEW n \in Nat, NEW last \in Nat
  PROVE  Kind[t] # "once" => NextFire(Kind[t], Period[t], n, last, Missed[w]) \in Nat
  <1>1. Missed[w] \in Policies
    BY TriggerAssumption
  <1>. QED
    BY <1>1, TriggerFacts, NextFireType

LEMMA IdleFacts ==
  /\ IdleFire \in FireRec /\ IdleFire.pc = "idle" /\ IdleFire.due = {}
  /\ IdleAdm \in AdmRec /\ IdleAdm.pc = "idle" /\ IdleAdm.todo = {} /\ IdleAdm.then = "idle"
  /\ IdleAdm.w = NoWorkflow /\ IdleAdm.i = 1
  BY DEF IdleFire, FireRec, IdleAdm, AdmRec

-----------------------------------------------------------------------------
(* What FireDue does to its variables.                                     *)

LEMMA RowFacts ==
  ASSUME TypeOK, NEW r \in Rows, NEW x \in RowRec, rows' = [rows EXCEPT ![r] = x]
  PROVE  /\ rows' \in [Rows -> RowRec] /\ rows'[r] = x
         /\ \A s \in Rows : s # r => rows'[s] = rows[s]
  BY DEF TypeOK

LEMMA FaultFacts ==
  ASSUME TypeOK, NoFault \/ AFault
  PROVE  faults' \in 0..MaxHarms /\ faults' >= faults /\ (AFault => faults' > 0)
  BY BoundAssumption DEF TypeOK, NoFault, AFault, Harm

\* Due returns the rows that are due, as they are.
LEMMA FireListFacts ==
  ASSUME ShapeInv, FireList
  PROVE  /\ fire' \in FireRec /\ fire'.pc = "loop" /\ fire'.now = now
         /\ \A d \in fire'.due :
               /\ d.row \in Rows /\ rows[d.row].status = "pending" /\ rows[d.row].at <= now
               /\ d.wf = rows[d.row].wf /\ d.at = rows[d.row].at
         /\ \A d, e \in fire'.due : d.row = e.row => d = e
         /\ rows' = rows
  <1>0. now \in Nat /\ rows \in [Rows -> RowRec]
    BY DEF ShapeInv, TypeOK
  <1>. DEFINE R == {x \in Rows : rows[x].status = "pending" /\ rows[x].at <= now}
              D == {[row |-> r, wf |-> rows[r].wf, at |-> rows[r].at] : r \in R}
              x == [IdleFire EXCEPT !.pc = "loop", !.now = now, !.due = D]
  <1>1. \A r \in R : [row |-> r, wf |-> rows[r].wf, at |-> rows[r].at] \in DueRec
    BY <1>0 DEF ShapeInv, Belong, DueRec, RowRec
  <1>2. D \subseteq DueRec
    BY <1>1
  <1>3. \A d \in D : d.row \in R /\ d.wf = rows[d.row].wf /\ d.at = rows[d.row].at
    OBVIOUS
  <1>4. \A d, e \in D : d.row = e.row => d = e
    OBVIOUS
  <1>5. fire' = x /\ rows' = rows
    BY DEF FireList, tables
  <1>. HIDE DEF D
  <1>6. x \in FireRec /\ x.pc = "loop" /\ x.now = now /\ x.due = D
    BY <1>0, <1>2, IdleFacts DEF FireRec
  <1>. QED
    BY <1>3, <1>4, <1>5, <1>6

\* Claim takes a row that is still pending.
Claims(d) ==
    /\ rows[d.row].status = "pending"
    /\ rows' = [rows EXCEPT ![d.row].status = "fired"]
    /\ fire'.pc = "get" /\ fire'.rec = d

LEMMA FireClaimFacts ==
  ASSUME TypeOK, FireClaim
  PROVE  /\ fire.pc = "loop" /\ fire' \in FireRec /\ fire'.now = fire.now
         /\ \E d \in fire.due :
               /\ d \in DueRec /\ fire'.due = fire.due \ {d}
               /\ Claims(d) \/ (rows' = rows /\ fire'.pc = "loop")
  <1>0. fire \in FireRec
    BY DEF TypeOK
  <1>1. PICK d \in fire.due :
          \/ /\ rows[d.row].status = "pending" /\ rows' = [rows EXCEPT ![d.row].status = "fired"]
             /\ fire' = [fire EXCEPT !.pc = "get", !.rec = d, !.due = @ \ {d}]
          \/ rows' = rows /\ fire' = [fire EXCEPT !.due = @ \ {d}]
    BY DEF FireClaim
  <1>2. fire.pc = "loop" /\ d \in DueRec /\ fire.due \ {d} \in SUBSET DueRec
    BY <1>0 DEF FireClaim, FireRec
  <1>3. CASE fire' = [fire EXCEPT !.pc = "get", !.rec = d, !.due = @ \ {d}]
    <2>1. /\ fire' \in FireRec /\ fire'.pc = "get" /\ fire'.rec = d /\ fire'.due = fire.due \ {d}
          /\ fire'.now = fire.now
      BY <1>0, <1>2, <1>3 DEF FireRec
    <2>2. fire' # [fire EXCEPT !.due = @ \ {d}]
      BY <1>0, <1>2, <2>1 DEF FireRec
    <2>. QED
      BY <1>1, <1>2, <2>1, <2>2 DEF Claims
  <1>4. CASE rows' = rows /\ fire' = [fire EXCEPT !.due = @ \ {d}]
    <2>1. fire' \in FireRec /\ fire'.pc = "loop" /\ fire'.due = fire.due \ {d} /\ fire'.now = fire.now
      BY <1>0, <1>2, <1>4 DEF FireRec
    <2>. QED
      BY <1>2, <1>4, <2>1
  <1>. QED
    BY <1>1, <1>3, <1>4

LEMMA FireGetFacts ==
  ASSUME TypeOK, FireGet
  PROVE  /\ fire.pc = "get" /\ fire' \in FireRec
         /\ \/ fire' = IdleFire /\ wf[fire.rec.wf] = "absent"
            \/ /\ fire'.pc = "loop" /\ wf[fire.rec.wf] = "disabled"
               /\ fire'.due = fire.due /\ fire'.now = fire.now
            \/ /\ fire'.pc = "start" /\ fire'.rec = fire.rec
               /\ fire'.due = fire.due /\ fire'.now = fire.now
  <1>0. fire \in FireRec /\ fire.pc = "get"
    BY DEF TypeOK, FireGet
  <1>1. CASE wf[fire.rec.wf] = "absent"
    BY <1>0, <1>1, IdleFacts DEF FireGet
  <1>2. CASE wf[fire.rec.wf] = "disabled"
    <2>1. fire' = [fire EXCEPT !.pc = "loop", !.rec = NoRec]
      BY <1>2 DEF FireGet
    <2>. QED
      BY <1>0, <1>2, <2>1 DEF FireRec
  <1>3. CASE wf[fire.rec.wf] \notin {"absent", "disabled"}
    <2>1. fire' = [fire EXCEPT !.pc = "start"]
      BY <1>3 DEF FireGet
    <2>. QED
      BY <1>0, <2>1 DEF FireRec
  <1>. QED
    BY <1>1, <1>2, <1>3

\* What was started for a trigger, with one more.
LEMMA StartsFacts ==
  ASSUME TypeOK, NEW t, NEW at \in Nat, fired' = [fired EXCEPT ![t] = Append(@, at)]
  PROVE  /\ fired' \in [Triggers \ EventTriggers -> Seq(Nat)]
         /\ \A s \in Triggers \ EventTriggers :
               fired'[s] = IF s = t THEN Append(fired[s], at) ELSE fired[s]
  <1>1. fired \in [Triggers \ EventTriggers -> Seq(Nat)]
    BY DEF TypeOK
  <1>2. \A s \in Triggers \ EventTriggers : Append(fired[s], at) \in Seq(Nat)
    BY <1>1, AppendProperties
  <1>. QED
    BY <1>1, <1>2

LEMMA FireStartFacts ==
  ASSUME ShapeInv, FireStart
  PROVE  /\ fire.pc = "start" /\ fire' \in FireRec /\ fire'.pc = "resched" /\ fire'.rec = fire.rec
         /\ fire'.due = fire.due /\ fire'.now = fire.now
         /\ rows' = rows /\ fire.rec.at \in Nat
         /\ \/ fired' = fired
            \/ fired' = [fired EXCEPT ![TriggerOf(fire.rec.wf, fire.rec.row)] = Append(@, fire.rec.at)]
         /\ fired' \in [Triggers \ EventTriggers -> Seq(Nat)]
         /\ wf' \in [Workflows -> {"absent", "disabled", "enabled"}]
         /\ \A w \in Workflows : wf'[w] = wf[w] \/ (w \in Blockable /\ wf'[w] = "enabled")
  <1>0. fire \in FireRec /\ fire.pc = "start" /\ fire.rec.wf \in Workflows /\ wf \in [Workflows -> {"absent", "disabled", "enabled"}]
    BY DEF ShapeInv, TypeOK, Belong, FireStart
  <1>1. fire.rec.at \in Nat
    BY <1>0 DEF FireRec, DueRec, NoRec
  <1>2. fire' = [fire EXCEPT !.pc = "resched"] /\ rows' = rows
    BY DEF FireStart
  <1>3. /\ fire' \in FireRec /\ fire'.pc = "resched" /\ fire'.rec = fire.rec
        /\ fire'.due = fire.due /\ fire'.now = fire.now
    BY <1>0, <1>2 DEF FireRec
  <1>4. \/ fired' = fired
        \/ fired' = [fired EXCEPT ![TriggerOf(fire.rec.wf, fire.rec.row)] = Append(@, fire.rec.at)]
    BY DEF FireStart
  <1>5. fired' \in [Triggers \ EventTriggers -> Seq(Nat)]
    <2>1. CASE fired' = fired
      BY <2>1 DEF ShapeInv, TypeOK
    <2>2. CASE fired' # fired
      BY <1>1, <1>4, <2>2, StartsFacts DEF ShapeInv
    <2>. QED
      BY <2>1, <2>2
  <1>6. wf' = wf \/ (fire.rec.wf \in Blockable /\ wf' = [wf EXCEPT ![fire.rec.wf] = "enabled"])
    BY DEF FireStart
  <1>7. /\ wf' \in [Workflows -> {"absent", "disabled", "enabled"}]
        /\ \A w \in Workflows : wf'[w] = wf[w] \/ (w \in Blockable /\ wf'[w] = "enabled")
    BY <1>0, <1>6
  <1>. QED
    BY <1>0, <1>1, <1>2, <1>3, <1>4, <1>5, <1>7

\* The row of a recurring trigger is put back for its next instant.
LEMMA FireRescheduleFacts ==
  ASSUME ShapeInv, FireReschedule
  PROVE  /\ fire.pc = "resched" /\ fire' \in FireRec /\ fire'.pc = "loop"
         /\ fire'.due = fire.due /\ fire'.now = fire.now
         /\ rows' \in [Rows -> RowRec]
         /\ LET w == fire.rec.wf  r == fire.rec.row  t == TriggerOf(w, r) IN
               /\ w \in Workflows /\ r \in Rows /\ t \in Owned(w) /\ t \in Triggers /\ Row[t] = r /\ Stands(w, r)
               /\ \A s \in Rows : s # r => rows'[s] = rows[s]
               /\ Kind[t] = "once" => rows' = rows
               /\ Kind[t] # "once" => rows'[r] = [status |-> "pending", wf |-> w,
                         at |-> NextFire(Kind[t], Period[t], fire.now, fire.rec.at, Missed[w])]
  <1>. DEFINE w == fire.rec.wf
              r == fire.rec.row
              t == TriggerOf(w, r)
              next == NextFire(Kind[t], Period[t], fire.now, fire.rec.at, Missed[w])
              x == [status |-> "pending", wf |-> w, at |-> next]
  <1>0. fire \in FireRec /\ fire.pc = "resched" /\ w \in Workflows /\ Stands(w, r)
    BY DEF ShapeInv, TypeOK, Belong, FireReschedule
  <1>1. fire.rec.at \in Nat /\ fire.now \in Nat
    BY <1>0 DEF FireRec, DueRec, NoRec
  <1>2. fire' = [fire EXCEPT !.pc = "loop", !.rec = NoRec]
    BY DEF FireReschedule
  <1>3. fire' \in FireRec /\ fire'.pc = "loop" /\ fire'.due = fire.due /\ fire'.now = fire.now
    BY <1>0, <1>2 DEF FireRec
  <1>4. t \in Owned(w) /\ t \in Triggers /\ Row[t] = r
    BY <1>0, TriggerOfFacts
  <1>5. r \in Rows
    BY <1>4, TriggerFacts
  <1>6. rows' = IF Kind[t] = "once" THEN rows ELSE [rows EXCEPT ![r] = x]
    BY DEF FireReschedule
  <1>7. Kind[t] # "once" => x \in RowRec
    <2>1. Kind[t] # "once" => next \in Nat
      BY <1>0, <1>1, <1>4, RescheduleFacts
    <2>. HIDE DEF next
    <2>. QED
      BY <1>0, <2>1 DEF RowRec
  <1>. HIDE DEF x, t
  <1>8. /\ rows' \in [Rows -> RowRec]
        /\ \A s \in Rows : s # r => rows'[s] = rows[s]
        /\ Kind[t] = "once" => rows' = rows
        /\ Kind[t] # "once" => rows'[r] = x
    BY <1>5, <1>6, <1>7, RowFacts DEF ShapeInv, TypeOK
  <1>. QED
    BY <1>0, <1>3, <1>4, <1>5, <1>8 DEF x, t

\* Serving the waits does nothing to the rows.
LEMMA FireWaitsFacts ==
  ASSUME TypeOK, FireWaits \/ FireResume \/ FireTicked
  PROVE  /\ fire' \in FireRec /\ fire'.pc \notin {"get", "start", "resched"} /\ fire'.due \subseteq fire.due
         /\ IF fire'.pc = "idle" THEN fire'.due = {} ELSE fire'.now = fire.now
         /\ fire.pc \notin {"get", "start", "resched"} /\ fire.pc # "idle"
         /\ waits' \in [Waits -> {"pending", "fired"}]
         /\ UNCHANGED <<rows, wf, fired>>
  <1>0. fire \in FireRec /\ waits \in [Waits -> {"pending", "fired"}]
    BY DEF TypeOK
  <1>1. UNCHANGED <<rows, wf, fired>>
    BY DEF FireWaits, FireResume, FireTicked, tables, history
  <1>2. CASE FireWaits
    <2>. DEFINE W == {x \in Waits : waits[x] = "pending"}
    <2>1. fire.pc = "loop" /\ fire' = [fire EXCEPT !.pc = "waits", !.waits = W] /\ waits' = waits
      BY <1>2 DEF FireWaits, tables
    <2>2. W \in SUBSET Waits
      OBVIOUS
    <2>. HIDE DEF W
    <2>. QED
      BY <1>0, <1>1, <2>1, <2>2 DEF FireRec
  <1>3. CASE FireResume /\ fire' = IdleFire
    BY <1>0, <1>1, <1>3, IdleFacts DEF FireResume
  <1>4. CASE FireResume /\ fire' # IdleFire
    <2>1. PICK x \in fire.waits :
            /\ fire.pc = "waits" /\ waits' = [waits EXCEPT ![x] = "fired"]
            /\ fire' = [fire EXCEPT !.pc = "tick", !.waits = @ \ {x}]
      BY <1>4 DEF FireResume
    <2>. QED
      BY <1>0, <1>1, <2>1 DEF FireRec
  <1>5. CASE FireTicked
    <2>1. fire.pc = "tick" /\ fire' = [fire EXCEPT !.pc = "waits"] /\ waits' = waits
      BY <1>5 DEF FireTicked, tables
    <2>. QED
      BY <1>0, <1>1, <2>1 DEF FireRec
  <1>. QED
    BY <1>2, <1>3, <1>4, <1>5

-----------------------------------------------------------------------------
(* The shape of the state.                                                 *)

\* FireDue changes its own variables and the tables.
LEMMA FireShape ==
  ASSUME ShapeInv, UNCHANGED <<now, delivered, cooled, up, boot, adm, ing, runs, bounds>>,
         fire' \in FireRec, rows' \in [Rows -> RowRec],
         wf' \in [Workflows -> {"absent", "disabled", "enabled"}],
         waits' \in [Waits -> {"pending", "fired"}],
         fired' \in [Triggers \ EventTriggers -> Seq(Nat)],
         faults' \in 0..MaxHarms, faults' >= faults,
         fire.pc # "idle" \/ up,
         \A r \in Rows : rows'[r].status # "none" => rows'[r].wf \in Workflows /\ Stands(rows'[r].wf, r),
         \A d \in fire'.due : d.wf \in Workflows /\ Stands(d.wf, d.row),
         fire'.pc \in {"get", "start", "resched"} =>
             fire'.rec.wf \in Workflows /\ Stands(fire'.rec.wf, fire'.rec.row)
  PROVE  ShapeInv'
  <1>1. up' \in BOOLEAN
    BY Zenon DEF ShapeInv, TypeOK
  <1>2. TypeOK'
    BY <1>1 DEF ShapeInv, TypeOK, bounds
  <1>3. AdminOf'
    BY DEF ShapeInv, AdminOf, TypeOK, bounds
  <1>4. Belong'
    BY DEF ShapeInv, Belong, Stands
  <1>. QED
    BY <1>2, <1>3, <1>4 DEF ShapeInv

LEMMA FireStepShape ==
  ASSUME ShapeInv, FireList \/ FireClaim \/ FireGet
  PROVE  ShapeInv'
  <1>0. /\ TypeOK /\ Belong /\ AdminOf /\ faults' \in 0..MaxHarms /\ faults' >= faults
        /\ rows \in [Rows -> RowRec] /\ fire \in FireRec
    BY ZenonT(60), FaultFacts DEF ShapeInv, TypeOK, FireList, FireClaim, FireGet
  <1>1. /\ UNCHANGED <<now, delivered, cooled, up, boot, adm, ing, runs, bounds>>
        /\ UNCHANGED <<wf, waits, fired>>
        /\ fire.pc # "idle" \/ up
    BY DEF FireList, FireClaim, FireGet, tables, history
  <1>2. /\ wf' \in [Workflows -> {"absent", "disabled", "enabled"}]
        /\ waits' \in [Waits -> {"pending", "fired"}]
        /\ fired' \in [Triggers \ EventTriggers -> Seq(Nat)]
    BY <1>0, <1>1 DEF TypeOK
  <1>3. CASE FireList
    <2>1. \A d \in fire'.due : d.wf \in Workflows /\ Stands(d.wf, d.row)
      BY <1>0, <1>3, FireListFacts DEF Belong
    <2>2. fire' \in FireRec /\ fire'.pc = "loop" /\ rows' = rows
      BY <1>3, FireListFacts
    <2>. QED
      BY <1>0, <1>1, <1>2, <2>1, <2>2, FireShape DEF Belong
  <1>4. CASE FireClaim
    <2>1. PICK d \in fire.due :
             /\ d \in DueRec /\ fire'.due = fire.due \ {d}
             /\ Claims(d) \/ (rows' = rows /\ fire'.pc = "loop")
      BY <1>0, <1>4, FireClaimFacts
    <2>2. d.wf \in Workflows /\ Stands(d.wf, d.row) /\ d.row \in Rows
      BY <1>0, <2>1 DEF Belong, DueRec
    <2>3. /\ rows' \in [Rows -> RowRec]
          /\ \A r \in Rows : rows'[r].wf = rows[r].wf /\ (rows'[r].status # "none" => rows[r].status # "none")
      <3>1. CASE rows' = rows
        BY <1>0, <3>1
      <3>2. CASE Claims(d)
        <4>. DEFINE x == [rows[d.row] EXCEPT !.status = "fired"]
        <4>1. x \in RowRec /\ x.wf = rows[d.row].wf /\ rows[d.row].status = "pending"
          BY <1>0, <2>2, <3>2 DEF RowRec, Claims
        <4>2. rows' = [rows EXCEPT ![d.row] = x]
          BY <3>2 DEF Claims
        <4>. HIDE DEF x
        <4>. QED
          BY <1>0, <2>2, <4>1, <4>2, RowFacts
      <3>. QED
        BY <2>1, <3>1, <3>2
    <2>4. /\ \A r \in Rows : rows'[r].status # "none" => rows'[r].wf \in Workflows /\ Stands(rows'[r].wf, r)
          /\ \A e \in fire'.due : e.wf \in Workflows /\ Stands(e.wf, e.row)
          /\ fire'.pc \in {"get", "start", "resched"} =>
                fire'.rec.wf \in Workflows /\ Stands(fire'.rec.wf, fire'.rec.row)
      BY <1>0, <2>1, <2>2, <2>3 DEF Belong, Claims
    <2>5. fire' \in FireRec
      BY <1>0, <1>4, FireClaimFacts
    <2>. QED
      BY <1>0, <1>1, <1>2, <2>3, <2>4, <2>5, FireShape
  <1>5. CASE FireGet
    <2>1. rows' = rows
      BY <1>5 DEF FireGet, tables
    <2>2. /\ fire.pc = "get" /\ fire' \in FireRec /\ fire'.due \subseteq fire.due
          /\ fire'.pc \in {"get", "start", "resched"} => fire'.rec = fire.rec
      BY <1>0, <1>5, FireGetFacts, IdleFacts
    <2>. QED
      BY <1>0, <1>1, <1>2, <2>1, <2>2, FireShape DEF Belong
  <1>. QED
    BY <1>3, <1>4, <1>5

LEMMA FireRunShape ==
  ASSUME ShapeInv, FireStart \/ FireReschedule \/ FireWaits \/ FireResume \/ FireTicked \/ FireFault
  PROVE  ShapeInv'
  <1>0. /\ TypeOK /\ Belong /\ AdminOf
        /\ rows \in [Rows -> RowRec] /\ fire \in FireRec
    BY SMTT(60) DEF ShapeInv, TypeOK
  <1>1. faults' \in 0..MaxHarms /\ faults' >= faults
    BY ZenonT(60), <1>0, FaultFacts DEF FireStart, FireReschedule, FireWaits, FireResume, FireTicked, FireFault
  <1>2. /\ UNCHANGED <<now, delivered, cooled, up, boot, adm, ing, runs, bounds>>
        /\ fire.pc # "idle" \/ up
    BY Zenon DEF FireStart, FireReschedule, FireWaits, FireResume, FireTicked, FireFault, tables, history
  <1>3. CASE FireStart
    <2>1. waits' = waits /\ rows' = rows
      BY <1>3 DEF FireStart
    <2>2. /\ fire.pc = "start" /\ fire' \in FireRec /\ fire'.due = fire.due /\ fire'.rec = fire.rec
          /\ fired' \in [Triggers \ EventTriggers -> Seq(Nat)]
          /\ wf' \in [Workflows -> {"absent", "disabled", "enabled"}]
      BY <1>3, FireStartFacts
    <2>. QED
      BY <1>0, <1>1, <1>2, <2>1, <2>2, FireShape DEF Belong, TypeOK
  <1>4. CASE FireReschedule
    <2>1. UNCHANGED <<wf, waits, fired>>
      BY <1>4 DEF FireReschedule, history
    <2>. DEFINE w == fire.rec.wf
                r == fire.rec.row
    <2>2. /\ fire' \in FireRec /\ fire'.pc = "loop" /\ fire'.due = fire.due
          /\ rows' \in [Rows -> RowRec] /\ w \in Workflows /\ r \in Rows /\ Stands(w, r)
          /\ \A s \in Rows : s # r => rows'[s] = rows[s]
          /\ rows' = rows \/ rows'[r].wf = w
      BY <1>4, FireRescheduleFacts
    <2>3. \A s \in Rows : rows'[s].status # "none" => rows'[s].wf \in Workflows /\ Stands(rows'[s].wf, s)
      BY <1>0, <2>2 DEF Belong
    <2>. QED
      BY <1>0, <1>1, <1>2, <2>1, <2>2, <2>3, FireShape DEF Belong, TypeOK
  <1>5. CASE FireWaits \/ FireResume \/ FireTicked
    <2>1. /\ fire' \in FireRec /\ fire'.pc \notin {"get", "start", "resched"} /\ fire'.due \subseteq fire.due
          /\ waits' \in [Waits -> {"pending", "fired"}]
          /\ UNCHANGED <<rows, wf, fired>>
      BY <1>0, <1>5, FireWaitsFacts
    <2>. QED
      BY <1>0, <1>1, <1>2, <2>1, FireShape DEF Belong, TypeOK
  <1>6. CASE FireFault
    <2>1. UNCHANGED <<rows, wf, waits>> /\ fire' = IdleFire
      BY <1>6, Zenon DEF FireFault, tables
    <2>2. fired' \in [Triggers \ EventTriggers -> Seq(Nat)]
      <3>1. fire.rec.at \in Nat
        BY <1>0 DEF FireRec, DueRec, NoRec
      <3>. QED
        BY <1>0, <1>6, <3>1, StartsFacts DEF FireFault, TypeOK
    <2>. QED
      BY <1>0, <1>1, <1>2, <2>1, <2>2, IdleFacts, FireShape DEF Belong, TypeOK
  <1>. QED
    BY <1>3, <1>4, <1>5, <1>6

\* EnableWorkflow, DisableWorkflow and their callers change adm and the tables.
LEMMA AdminShape ==
  ASSUME ShapeInv, UNCHANGED <<now, delivered, cooled, waits, fire, ing, runs, ingests, crashes>>,
         adm' \in AdmRec, rows' \in [Rows -> RowRec],
         wf' \in [Workflows -> {"absent", "disabled", "enabled"}],
         fired' \in [Triggers \ EventTriggers -> Seq(Nat)],
         up' \in BOOLEAN, boot' \subseteq Files, calls' \in 0..MaxCalls,
         faults' \in 0..MaxHarms, faults' >= faults, faults' = faults \/ faults' > 0,
         \A r \in Rows : rows'[r].status # "none" => rows'[r].wf \in Workflows /\ Stands(rows'[r].wf, r),
         \A d \in adm'.todo : d.wf = adm'.w /\ d.wf \in Workflows /\ Stands(d.wf, d.row),
         adm'.pc = "idle" <=> adm'.w = NoWorkflow,
         adm'.pc # "idle" => adm'.w \in Workflows,
         adm'.pc = "register" => adm'.then = "register",
         adm'.pc = "undo" => adm'.then = "undo",
         adm'.then = "undo" => faults' > 0,
         ~up' => ~up,
         up' => boot' = {},
         up' /\ adm'.pc # "idle" => calls' > 0
  PROVE  ShapeInv'
  <1>1. TypeOK'
    BY DEF ShapeInv, TypeOK
  <1>2. AdminOf'
    BY DEF ShapeInv, AdminOf
  <1>3. Belong'
    BY DEF ShapeInv, Belong, Stands
  <1>. QED
    BY <1>1, <1>2, <1>3 DEF ShapeInv

LEMMA CallFacts ==
  ASSUME NEW w \in Workflows, NEW x \in {Enabling(w), Disabling(w)}
  PROVE  /\ x \in AdmRec /\ x.pc = "put" /\ x.w = w /\ x.todo = {} /\ x.then # "undo" /\ x.i = 1
         /\ w # NoWorkflow
         /\ x = Enabling(w) => x.then = "register"
         /\ x = Disabling(w) => x.then = "idle"
  <1>1. w # NoWorkflow
    BY TriggerAssumption
  <1>2. CASE x = Enabling(w)
    <2>1. /\ x \in AdmRec /\ x.pc = "put" /\ x.w = w /\ x.todo = {} /\ x.then = "register" /\ x.i = 1
      BY <1>2, IdleFacts DEF Enabling, AdmRec
    <2>2. Disabling(w).then = "idle"
      BY DEF Disabling, IdleAdm
    <2>. QED
      BY <1>1, <2>1, <2>2
  <1>3. CASE x = Disabling(w)
    <2>1. /\ x \in AdmRec /\ x.pc = "put" /\ x.w = w /\ x.todo = {} /\ x.then = "idle" /\ x.i = 1
      BY <1>3, IdleFacts DEF Disabling, AdmRec
    <2>2. Enabling(w).then = "register"
      BY DEF Enabling, IdleAdm
    <2>. QED
      BY <1>1, <2>1, <2>2
  <1>. QED
    BY <1>2, <1>3

\* The rows that cancelWorkflowSchedules will write back.
LEMMA PendingFacts ==
  ASSUME ShapeInv, NEW w \in Workflows
  PROVE  /\ PendingOf(w) \in SUBSET DueRec
         /\ \A d \in PendingOf(w) : d.wf = w /\ d.row \in Rows /\ Stands(d.wf, d.row)
  <1>. DEFINE R == {x \in Rows : rows[x].status = "pending" /\ rows[x].wf = w}
  <1>1. \A r \in R : [row |-> r, wf |-> w, at |-> rows[r].at] \in DueRec /\ Stands(w, r)
    BY DEF ShapeInv, TypeOK, Belong, DueRec, RowRec
  <1>2. PendingOf(w) = {[row |-> r, wf |-> w, at |-> rows[r].at] : r \in R}
    BY DEF PendingOf
  <1>. HIDE DEF R
  <1>3. \A d \in PendingOf(w) : d \in DueRec /\ d.wf = w /\ Stands(w, d.row)
    BY <1>1, <1>2
  <1>. QED
    BY <1>3 DEF DueRec

\* What the callers change.
LEMMA CallerFacts ==
  ASSUME ShapeInv, Discover \/ CallUser
  PROVE  /\ adm.pc = "idle" /\ adm' \in AdmRec /\ adm'.todo = {} /\ UNCHANGED <<rows, fired>>
         /\ adm' = adm \/ (adm'.pc = "put" /\ adm'.i = 1 /\ adm'.w \in Workflows /\ adm'.then # "undo" /\ adm'.w # NoWorkflow)
         /\ wf' \in [Workflows -> {"absent", "disabled", "enabled"}]
         /\ \A w \in Workflows : wf'[w] = wf[w] \/ wf'[w] = "absent"
         /\ boot' \subseteq boot /\ \A w \in boot : w \notin boot' => adm'.w = w
         /\ calls' >= calls /\ calls' \in 0..MaxCalls
         /\ CallUser => up /\ up' /\ calls' > 0 /\ boot' = boot
         /\ Discover => ~up /\ calls' = calls /\ (adm' = adm \/ ~up') /\ (up' => boot' = {})
  <1>0. adm.pc = "idle" /\ adm \in AdmRec /\ adm.w = NoWorkflow /\ \A d \in adm.todo : d.wf = NoWorkflow
    BY DEF ShapeInv, TypeOK, AdminOf, Discover, CallUser
  <1>1. adm.todo = {}
    BY <1>0, TriggerAssumption DEF ShapeInv, Belong
  <1>2. /\ wf \in [Workflows -> {"absent", "disabled", "enabled"}] /\ boot \subseteq Files /\ calls \in 0..MaxCalls
        /\ Files \subseteq Workflows
    BY TriggerAssumption DEF ShapeInv, TypeOK
  <1>3. CASE Discover
    <2>1. UNCHANGED <<rows, fired, wf, calls>> /\ ~up
      BY <1>3 DEF Discover, tables, history, bounds
    <2>2. ~CallUser
      BY <2>1 DEF CallUser
    <2>3. CASE \E w \in boot : boot' = boot \ {w} /\ adm' = Enabling(w) /\ up' = up
      <3>1. PICK w \in boot : boot' = boot \ {w} /\ adm' = Enabling(w) /\ up' = up
        BY <2>3
      <3>2. w \in Workflows /\ ~up'
        BY <1>2, <2>1, <3>1
      <3>. QED
        BY <1>0, <1>2, <2>1, <2>2, <3>1, <3>2, CallFacts
    <2>4. CASE boot = {} /\ up' = TRUE /\ UNCHANGED <<boot, adm>>
      BY <1>0, <1>1, <1>2, <2>1, <2>2, <2>4
    <2>. QED
      BY <1>3, <2>3, <2>4 DEF Discover
  <1>4. CASE CallUser
    <2>1. /\ UNCHANGED <<rows, fired, up, boot>> /\ up /\ calls' = calls + 1 /\ calls < MaxCalls
      BY <1>4 DEF CallUser, history
    <2>2. PICK w \in Workflows : \/ adm' \in {Enabling(w), Disabling(w)} /\ wf' = wf
                                 \/ wf' = [wf EXCEPT ![w] = "absent"] /\ adm' = adm
      BY <1>4 DEF CallUser
    <2>3. calls' \in 0..MaxCalls /\ calls' > 0 /\ calls' >= calls
      BY <1>2, <2>1, BoundAssumption
    <2>4. CASE adm' \in {Enabling(w), Disabling(w)} /\ wf' = wf
      BY <1>0, <1>2, <2>1, <2>3, <2>4, CallFacts DEF Discover
    <2>5. CASE wf' = [wf EXCEPT ![w] = "absent"] /\ adm' = adm
      BY <1>0, <1>1, <1>2, <2>1, <2>3, <2>5 DEF Discover
    <2>. QED
      BY <2>2, <2>4, <2>5
  <1>. QED
    BY <1>3, <1>4

\* EnableWorkflow and DisableWorkflow write the workflow first.
LEMMA AdmPutFacts ==
  ASSUME ShapeInv, AdmPut
  PROVE  /\ adm.pc = "put" /\ adm.w \in Workflows
         /\ adm' \in AdmRec /\ adm'.pc = "list" /\ adm'.w = adm.w /\ adm'.then = adm.then
         /\ adm'.i = adm.i /\ adm'.todo = adm.todo /\ UNCHANGED <<rows, fired>>
         /\ wf' \in [Workflows -> {"absent", "disabled", "enabled"}]
         /\ wf'[adm.w] = IF adm.then = "register" THEN "enabled" ELSE "disabled"
         /\ \A w \in Workflows : w # adm.w => wf'[w] = wf[w]
  <1>0. /\ adm \in AdmRec /\ adm.pc = "put" /\ adm.w \in Workflows /\ now \in Nat
        /\ wf \in [Workflows -> {"absent", "disabled", "enabled"}]
    BY DEF ShapeInv, TypeOK, AdminOf, AdmPut
  <1>1. adm' = [adm EXCEPT !.pc = "list", !.now = now] /\ UNCHANGED <<rows, fired>>
    BY DEF AdmPut, history
  <1>2. /\ adm' \in AdmRec /\ adm'.pc = "list" /\ adm'.w = adm.w /\ adm'.then = adm.then /\ adm'.todo = adm.todo
        /\ adm'.i = adm.i
    BY <1>0, <1>1 DEF AdmRec
  <1>3. wf' = [wf EXCEPT ![adm.w] = IF adm.then = "register" THEN "enabled" ELSE "disabled"]
    BY DEF AdmPut
  <1>. QED
    BY <1>0, <1>1, <1>2, <1>3

\* cancelWorkflowSchedules reads the rows of the workflow and writes them one by one.
LEMMA AdmCancelFacts ==
  ASSUME ShapeInv, AdmList \/ AdmCancel
  PROVE  /\ adm.pc \in {"list", "cancel"} /\ adm.w \in Workflows /\ adm' \in AdmRec /\ UNCHANGED <<wf, fired>>
         /\ \/ /\ adm'.w = adm.w /\ adm'.then = adm.then /\ adm'.i = adm.i
               /\ adm'.todo = PendingOf(adm.w) \/ adm'.todo \subseteq adm.todo
               /\ adm'.pc = "cancel" \/ (adm'.pc = adm.then /\ adm.then # "idle")
            \/ adm' = IdleAdm /\ adm.then = "idle"
         /\ rows' \in [Rows -> RowRec]
         /\ \A r \in Rows : rows'[r] # rows[r] =>
               rows'[r].status = "cancelled" /\ rows'[r].wf = adm.w /\ Stands(adm.w, r)
  <1>0. /\ adm \in AdmRec /\ adm.w \in Workflows /\ adm.pc \in {"list", "cancel"}
        /\ rows \in [Rows -> RowRec] /\ \A d \in adm.todo : d.wf = adm.w /\ Stands(d.wf, d.row)
    BY DEF ShapeInv, TypeOK, AdminOf, Belong, AdmList, AdmCancel
  <1>1. UNCHANGED <<wf, fired>>
    BY DEF AdmList, AdmCancel, tables, history
  <1>2. CASE AdmList
    <2>1. adm' = [adm EXCEPT !.pc = "cancel", !.todo = PendingOf(adm.w)] /\ rows' = rows
      BY <1>2 DEF AdmList, tables
    <2>2. PendingOf(adm.w) \in SUBSET DueRec
      BY <1>0, PendingFacts
    <2>3. /\ adm' \in AdmRec /\ adm'.pc = "cancel" /\ adm'.w = adm.w /\ adm'.then = adm.then
          /\ adm'.todo = PendingOf(adm.w) /\ adm'.i = adm.i
      BY <1>0, <2>1, <2>2 DEF AdmRec
    <2>. QED
      BY <1>0, <1>1, <2>1, <2>3
  <1>3. CASE AdmCancel /\ \E d \in adm.todo :
               /\ rows' = [rows EXCEPT ![d.row] = [status |-> "cancelled", wf |-> d.wf, at |-> d.at]]
               /\ adm' = [adm EXCEPT !.todo = @ \ {d}]
    <2>1. PICK d \in adm.todo :
               /\ rows' = [rows EXCEPT ![d.row] = [status |-> "cancelled", wf |-> d.wf, at |-> d.at]]
               /\ adm' = [adm EXCEPT !.todo = @ \ {d}]
      BY <1>3
    <2>2. adm.pc = "cancel" /\ d \in DueRec
      BY <1>0, <1>3 DEF AdmCancel, AdmRec
    <2>3. /\ adm' \in AdmRec /\ adm'.pc = "cancel" /\ adm'.w = adm.w /\ adm'.then = adm.then
          /\ adm'.todo \subseteq adm.todo /\ adm'.i = adm.i
      BY <1>0, <2>1, <2>2 DEF AdmRec
    <2>. DEFINE x == [status |-> "cancelled", wf |-> d.wf, at |-> d.at]
    <2>4. x \in RowRec /\ x.status = "cancelled" /\ x.wf = adm.w /\ d.row \in Rows
      BY <1>0, <2>2 DEF RowRec, DueRec
    <2>. HIDE DEF x
    <2>5. /\ rows' \in [Rows -> RowRec] /\ rows'[d.row] = x
          /\ \A s \in Rows : s # d.row => rows'[s] = rows[s]
      BY <2>1, <2>4, RowFacts DEF ShapeInv, x
    <2>. QED
      BY <1>0, <1>1, <2>3, <2>4, <2>5
  <1>4. CASE AdmCancel /\ adm.todo = {} /\ rows' = rows
    <2>1. adm' = IF adm.then = "idle" THEN IdleAdm ELSE [adm EXCEPT !.pc = adm.then]
      BY <1>3, <1>4 DEF AdmCancel
    <2>2. CASE adm.then = "idle"
      BY <1>0, <1>1, <1>4, <2>1, <2>2, IdleFacts
    <2>3. CASE adm.then # "idle"
      <3>1. /\ adm' \in AdmRec /\ adm'.pc = adm.then /\ adm'.w = adm.w /\ adm'.then = adm.then
            /\ adm'.todo = adm.todo /\ adm'.i = adm.i
        BY <1>0, <2>1, <2>3 DEF AdmRec
      <3>. QED
        BY <1>0, <1>1, <1>4, <2>3, <3>1
    <2>. QED
      BY <2>2, <2>3
  <1>. QED
    BY <1>2, <1>3, <1>4 DEF AdmCancel

\* Register puts the next instant of one trigger in its row.
LEMMA AdmRegisterFacts ==
  ASSUME ShapeInv, AdmRegister
  PROVE  LET w == adm.w  i == adm.i  t == TriggersOf[w][i] IN
         /\ adm.pc = "register" /\ w \in Workflows /\ adm.then = "register"
         /\ i \in 1..Len(TriggersOf[w]) /\ t \in Owned(w) /\ t \in Triggers
         /\ adm' \in AdmRec /\ adm'.pc = "register" /\ adm'.w = w /\ adm'.then = "register"
         /\ adm'.i = i + 1 /\ adm'.todo = adm.todo
         /\ wf' \in [Workflows -> {"absent", "disabled", "enabled"}]
         /\ \A v \in Workflows : wf'[v] = wf[v] \/ (v \in Blockable /\ v = w /\ wf'[v] = "enabled")
         /\ rows' \in [Rows -> RowRec]
         /\ \A r \in Rows : r # Row[t] => rows'[r] = rows[r]
         /\ fired' \in [Triggers \ EventTriggers -> Seq(Nat)]
         /\ \A s \in Triggers \ EventTriggers : s # t => fired'[s] = fired[s]
         /\ \/ t \notin Recurring /\ UNCHANGED <<rows, fired>>
            \/ /\ Kind[t] # "event" /\ rows'[Row[t]].status = "pending" /\ rows'[Row[t]].wf = w
               /\ fired'[t] = IF t \in Recurring THEN <<>> ELSE fired[t]
  <1>. DEFINE w == adm.w
              i == adm.i
              t == TriggersOf[w][i]
              next == NextFire(Kind[t], Period[t], adm.now, Never, Missed[w])
              x == [status |-> "pending", wf |-> w, at |-> next]
  <1>0. /\ adm \in AdmRec /\ adm.pc = "register" /\ w \in Workflows /\ adm.then = "register"
        /\ rows \in [Rows -> RowRec] /\ fired \in [Triggers \ EventTriggers -> Seq(Nat)]
        /\ wf \in [Workflows -> {"absent", "disabled", "enabled"}]
    BY DEF ShapeInv, TypeOK, AdminOf, AdmRegister
  <1>1. i \in 1..Len(TriggersOf[w]) /\ t \in Owned(w) /\ t \in Triggers
    <2>1. i \in Nat \ {0} /\ i <= Len(TriggersOf[w])
      BY <1>0 DEF AdmRec, AdmRegister
    <2>2. TriggersOf[w] \in Seq(Triggers)
      BY <1>0, OwnedFacts
    <2>3. Len(TriggersOf[w]) \in Nat
      BY <2>2, LenProperties
    <2>4. i \in 1..Len(TriggersOf[w])
      BY <2>1, <2>3
    <2>. QED
      BY <1>0, <2>4, OwnedFacts
  <1>2. /\ adm' \in AdmRec /\ adm'.pc = "register" /\ adm'.w = w /\ adm'.then = "register"
        /\ adm'.i = i + 1 /\ adm'.todo = adm.todo
    <2>1. PICK j \in Nat \ {0} : j = i + 1
      BY <1>0 DEF AdmRec
    <2>2. adm' = [adm EXCEPT !.i = j]
      BY <2>1 DEF AdmRegister
    <2>. QED
      BY <1>0, <2>1, <2>2 DEF AdmRec
  <1>3. \/ Kind[t] = "event" /\ UNCHANGED <<rows, fired>> /\ (wf' = wf \/ (w \in Blockable /\ wf' = [wf EXCEPT ![w] = "enabled"]))
        \/ Kind[t] # "event" /\ next = Never /\ UNCHANGED <<wf, rows, fired>>
        \/ /\ Kind[t] # "event" /\ next # Never /\ wf' = wf /\ rows' = [rows EXCEPT ![Row[t]] = x]
           /\ fired' = IF t \in Recurring THEN [fired EXCEPT ![t] = <<>>] ELSE fired
    BY DEF AdmRegister
  <1>4. next \in Nat \cup {Never} /\ (Kind[t] # "once" => next \in Nat) /\ Row[t] \in Rows
    <2>1. Missed[w] \in Policies /\ adm.now \in Nat
      BY <1>0, TriggerAssumption DEF AdmRec
    <2>. QED
      BY <1>1, <2>1, TriggerFacts, NextFireType
  <1>5. t \in Recurring => Kind[t] # "once" /\ Kind[t] # "event"
    BY DEF Recurring
  <1>6. Never \notin Nat
    BY DEF Never
  <1>7. Kind[t] # "event" => t \in Triggers \ EventTriggers
    BY SMTT(60), <1>1 DEF EventTriggers
  <1>. HIDE DEF next, t
  <1>8. /\ wf' \in [Workflows -> {"absent", "disabled", "enabled"}]
        /\ \A v \in Workflows : wf'[v] = wf[v] \/ (v \in Blockable /\ v = w /\ wf'[v] = "enabled")
    BY <1>0, <1>3
  <1>9. /\ rows' \in [Rows -> RowRec]
        /\ \A r \in Rows : r # Row[t] => rows'[r] = rows[r]
        /\ fired' \in [Triggers \ EventTriggers -> Seq(Nat)]
        /\ \A s \in Triggers \ EventTriggers : s # t => fired'[s] = fired[s]
        /\ \/ t \notin Recurring /\ UNCHANGED <<rows, fired>>
           \/ /\ Kind[t] # "event" /\ rows'[Row[t]].status = "pending" /\ rows'[Row[t]].wf = w
              /\ fired'[t] = IF t \in Recurring THEN <<>> ELSE fired[t]
    <2>1. CASE Kind[t] = "event" \/ next = Never
      <3>1. t \notin Recurring /\ UNCHANGED <<rows, fired>>
        BY <1>3, <1>4, <1>5, <1>6, <2>1
      <3>. QED
        BY <1>0, <3>1
    <2>2. CASE Kind[t] # "event" /\ next # Never
      <3>1. x \in RowRec /\ x.status = "pending" /\ x.wf = w
        BY <1>0, <1>4, <2>2 DEF RowRec
      <3>2. /\ rows' = [rows EXCEPT ![Row[t]] = x]
            /\ fired' = IF t \in Recurring THEN [fired EXCEPT ![t] = <<>>] ELSE fired
        BY <1>3, <2>2
      <3>. HIDE DEF x
      <3>3. /\ rows' \in [Rows -> RowRec] /\ rows'[Row[t]] = x
            /\ \A r \in Rows : r # Row[t] => rows'[r] = rows[r]
        BY <1>4, <3>1, <3>2, RowFacts DEF ShapeInv
      <3>4. /\ fired' \in [Triggers \ EventTriggers -> Seq(Nat)]
            /\ \A s \in Triggers \ EventTriggers : s # t => fired'[s] = fired[s]
            /\ fired'[t] = IF t \in Recurring THEN <<>> ELSE fired[t]
        BY <1>0, <1>7, <2>2, <3>2
      <3>. QED
        BY <2>2, <3>1, <3>3, <3>4
    <2>. QED
      BY <2>1, <2>2
  <1>. QED
    BY <1>0, <1>1, <1>2, <1>8, <1>9, Zenon DEF t

\* The last steps of EnableWorkflow and DisableWorkflow, and their errors.
LEMMA AdmEndFacts ==
  ASSUME ShapeInv, AdmRegistered \/ AdmUndo \/ AdmFault
  PROVE  /\ adm' \in AdmRec /\ UNCHANGED <<rows, fired>>
         /\ adm'.w = adm.w \/ adm' = IdleAdm
         /\ adm'.pc \in {"idle", "list", "undo"} /\ adm'.todo \subseteq adm.todo
         /\ adm'.pc = "idle" => adm' = IdleAdm
         /\ adm'.pc # "idle" => adm'.then = "undo" /\ faults' > 0
         /\ wf' \in [Workflows -> {"absent", "disabled", "enabled"}]
         /\ \A w \in Workflows : wf'[w] = wf[w] \/ wf'[w] = "disabled"
         /\ AdmRegistered => /\ adm.pc = "register" /\ adm.w \in Workflows /\ adm' = IdleAdm /\ wf' = wf
                             /\ \A j \in 1..Len(TriggersOf[adm.w]) : j < adm.i
         /\ AdmUndo \/ AdmFault => faults' > 0
  <1>0. /\ adm \in AdmRec /\ (adm.pc # "idle" => adm.w \in Workflows) /\ faults \in 0..MaxHarms
        /\ wf \in [Workflows -> {"absent", "disabled", "enabled"}]
        /\ adm.pc = "undo" => faults > 0
        /\ adm.then = "undo" => faults > 0
    BY DEF ShapeInv, TypeOK, AdminOf
  <1>1. UNCHANGED <<rows, fired>>
    BY DEF AdmRegistered, AdmUndo, AdmFault, tables, history
  <1>2. CASE AdmRegistered
    <2>1. adm.pc = "register" /\ adm.i > Len(TriggersOf[adm.w]) /\ adm' = IdleAdm /\ wf' = wf /\ adm.w \in Workflows
      BY <1>0, <1>2 DEF AdmRegistered, tables
    <2>2. adm.i \in Nat /\ Len(TriggersOf[adm.w]) \in Nat
      BY <1>0, <2>1, OwnedFacts, LenProperties DEF AdmRec
    <2>3. ~AdmUndo /\ ~AdmFault
      BY <1>2, <2>1 DEF AdmRegistered, AdmUndo, AdmFault, NoFault, AFault, ShapeInv, TypeOK
    <2>. QED
      BY <1>0, <1>1, <2>1, <2>2, <2>3, IdleFacts
  <1>3. CASE AdmUndo
    <2>1. adm.pc = "undo" /\ faults' = faults /\ adm' = IdleAdm /\ wf' = [wf EXCEPT ![adm.w] = "disabled"]
      BY <1>3 DEF AdmUndo, NoFault
    <2>2. ~AdmRegistered
      BY <2>1 DEF AdmRegistered
    <2>. QED
      BY <1>0, <1>1, <2>1, <2>2, IdleFacts
  <1>4. CASE AdmFault
    <2>1. wf' = wf /\ faults' > 0 /\ faults' # faults
      BY <1>0, <1>4 DEF AdmFault, AFault, tables
    <2>2. ~AdmRegistered
      BY <2>1 DEF AdmRegistered, NoFault
    <2>3. \/ adm' = [adm EXCEPT !.pc = "list", !.then = "undo"]
          \/ adm.then = "undo" /\ adm' = [adm EXCEPT !.pc = "undo"]
          \/ adm' = IdleAdm
      BY <1>4 DEF AdmFault
    <2>4. \/ /\ adm' \in AdmRec /\ adm'.w = adm.w /\ adm'.pc \in {"list", "undo"} /\ adm'.todo = adm.todo
             /\ adm'.then = "undo"
          \/ adm' = IdleAdm
      <3>1. CASE adm' = [adm EXCEPT !.pc = "list", !.then = "undo"]
        BY <1>0, <3>1 DEF AdmRec
      <3>2. CASE adm.then = "undo" /\ adm' = [adm EXCEPT !.pc = "undo"]
        BY <1>0, <3>2 DEF AdmRec
      <3>. QED
        BY <2>3, <3>1, <3>2
    <2>. QED
      BY <1>0, <1>1, <2>1, <2>2, <2>4, IdleFacts
  <1>. QED
    BY <1>2, <1>3, <1>4

LEMMA AdminKeepsShape ==
  ASSUME ShapeInv, Admin \/ CallUser \/ AdmFault
  PROVE  ShapeInv'
  <1>0. /\ TypeOK /\ Belong /\ AdminOf
        /\ rows \in [Rows -> RowRec] /\ adm \in AdmRec /\ boot \subseteq Files /\ calls \in 0..MaxCalls
        /\ faults \in 0..MaxHarms
        /\ fired \in [Triggers \ EventTriggers -> Seq(Nat)]
        /\ wf \in [Workflows -> {"absent", "disabled", "enabled"}]
    BY SMTT(60) DEF ShapeInv, TypeOK
  <1>1. /\ faults' \in 0..MaxHarms /\ faults' >= faults /\ (faults' = faults \/ faults' > 0)
        /\ AdmFault => faults' > 0
    <2>1. AdmFault => AFault
      BY DEF AdmFault
    <2>2. Discover \/ CallUser \/ AdmPut \/ AdmList \/ AdmCancel => NoFault
      BY Zenon DEF Discover, CallUser, AdmPut, AdmList, AdmCancel
    <2>3. AdmRegister \/ AdmRegistered \/ AdmUndo => NoFault
      BY Zenon DEF AdmRegister, AdmRegistered, AdmUndo
    <2>4. ~AdmFault => NoFault
      BY SMTT(60), <2>2, <2>3 DEF Admin
    <2>. QED
      BY <1>0, <2>1, <2>4, FaultFacts DEF NoFault
  <1>2. UNCHANGED <<now, delivered, cooled, waits, fire, ing, runs, ingests, crashes>>
    BY DEF Admin, Discover, CallUser, AdmPut, AdmList, AdmCancel, AdmRegister, AdmRegistered, AdmUndo,
           AdmFault, tables, history, bounds
  <1>3. up' \in BOOLEAN
    BY Zenon DEF ShapeInv, TypeOK, Admin, Discover, CallUser, AdmPut, AdmList, AdmCancel, AdmRegister,
           AdmRegistered, AdmUndo, AdmFault
  <1>4. NoWorkflow \notin Workflows
    BY TriggerAssumption
  <1>5. CASE Discover \/ CallUser
    <2>1. /\ adm.pc = "idle" /\ adm' \in AdmRec /\ adm'.todo = {} /\ UNCHANGED <<rows, fired>>
          /\ adm' = adm \/ (adm'.pc = "put" /\ adm'.w \in Workflows /\ adm'.then # "undo" /\ adm'.w # NoWorkflow)
          /\ wf' \in [Workflows -> {"absent", "disabled", "enabled"}]
          /\ boot' \subseteq boot /\ calls' \in 0..MaxCalls /\ calls' >= calls
          /\ CallUser => up /\ up' /\ calls' > 0 /\ boot' = boot
          /\ Discover => ~up /\ calls' = calls /\ (adm' = adm \/ ~up') /\ (up' => boot' = {})
      BY <1>5, CallerFacts
    <2>2. adm.then = "undo" => faults' > 0
      BY <1>0, <1>1 DEF AdminOf
    <2>3. up' => boot' = {}
      BY <1>0, <1>5, <2>1 DEF AdminOf
    <2>4. up' /\ adm'.pc # "idle" => calls' > 0
      BY <1>5, <2>1
    <2>5. ~up' => ~up
      BY <1>5, <2>1
    <2>. QED
      BY <1>0, <1>1, <1>2, <1>3, <2>1, <2>2, <2>3, <2>4, <2>5, AdminShape DEF AdminOf, Belong
  <1>6. CASE AdmPut \/ AdmList \/ AdmCancel \/ AdmRegister \/ AdmRegistered \/ AdmUndo \/ AdmFault
    <2>1. UNCHANGED <<up, boot, calls>> /\ adm.pc # "idle" /\ adm.w \in Workflows
      BY <1>0, <1>6 DEF AdmPut, AdmList, AdmCancel, AdmRegister, AdmRegistered, AdmUndo, AdmFault, AdminOf, bounds
    <2>2. /\ ~up' => ~up
          /\ up' => boot' = {}
          /\ up' /\ adm'.pc # "idle" => calls' > 0
          /\ boot' \subseteq Files /\ calls' \in 0..MaxCalls
      BY <1>0, <2>1 DEF AdminOf
    <2>3. \A d \in adm.todo : d.wf = adm.w /\ d.wf \in Workflows /\ Stands(d.wf, d.row)
      BY <1>0 DEF AdminOf, Belong
    <2>4. CASE AdmPut
      BY <1>0, <1>1, <1>2, <1>3, <1>4, <2>1, <2>2, <2>3, <2>4, AdmPutFacts, AdminShape DEF AdminOf, Belong
    <2>5. CASE AdmList \/ AdmCancel
      <3>1. \A d \in PendingOf(adm.w) : d.wf = adm.w /\ Stands(d.wf, d.row)
        BY <2>1, PendingFacts
      <3>2. \A d \in adm'.todo : d.wf = adm'.w /\ d.wf \in Workflows /\ Stands(d.wf, d.row)
        BY <2>1, <2>3, <2>5, <3>1, AdmCancelFacts, IdleFacts
      <3>3. \A r \in Rows : rows'[r].status # "none" => rows'[r].wf \in Workflows /\ Stands(rows'[r].wf, r)
        BY <1>0, <2>1, <2>5, AdmCancelFacts DEF Belong
      <3>4. /\ adm'.pc = "idle" <=> adm'.w = NoWorkflow
            /\ adm'.pc # "idle" => adm'.w \in Workflows
            /\ adm'.pc = "register" => adm'.then = "register"
            /\ adm'.pc = "undo" => adm'.then = "undo"
            /\ adm'.then = "undo" => faults' > 0
        BY <1>0, <1>1, <1>4, <2>1, <2>5, AdmCancelFacts, IdleFacts DEF AdminOf, AdmRec
      <3>5. UNCHANGED <<wf, fired>> /\ adm' \in AdmRec /\ rows' \in [Rows -> RowRec]
        BY <2>5, AdmCancelFacts
      <3>. QED
        BY <1>0, <1>1, <1>2, <1>3, <2>2, <3>2, <3>3, <3>4, <3>5, AdminShape
    <2>6. CASE AdmRegister
      <3>. DEFINE t == TriggersOf[adm.w][adm.i]
      <3>1. /\ t \in Owned(adm.w) /\ t \in Triggers /\ adm' \in AdmRec /\ adm'.pc = "register" /\ adm'.w = adm.w
            /\ adm'.then = "register" /\ adm'.todo = adm.todo
            /\ wf' \in [Workflows -> {"absent", "disabled", "enabled"}]
            /\ rows' \in [Rows -> RowRec]
            /\ fired' \in [Triggers \ EventTriggers -> Seq(Nat)]
            /\ \A r \in Rows : r # Row[t] => rows'[r] = rows[r]
            /\ rows' = rows \/ (Kind[t] # "event" /\ rows'[Row[t]].wf = adm.w)
        BY <2>6, AdmRegisterFacts
      <3>. HIDE DEF t
      <3>2. ASSUME NEW r \in Rows, rows'[r].status # "none"
            PROVE  rows'[r].wf \in Workflows /\ Stands(rows'[r].wf, r)
        <4>1. CASE rows'[r] = rows[r]
          BY <1>0, <3>2, <4>1 DEF Belong
        <4>2. CASE r = Row[t] /\ Kind[t] # "event" /\ rows'[r].wf = adm.w
          BY <2>1, <3>1, <4>2 DEF Stands
        <4>. QED
          BY <3>1, <4>1, <4>2
      <3>3. /\ \A d \in adm'.todo : d.wf = adm'.w /\ d.wf \in Workflows /\ Stands(d.wf, d.row)
            /\ adm'.pc = "idle" <=> adm'.w = NoWorkflow
            /\ adm'.pc # "idle" => adm'.w \in Workflows
            /\ adm'.pc = "register" => adm'.then = "register"
            /\ adm'.pc = "undo" => adm'.then = "undo"
            /\ adm'.then = "undo" => faults' > 0
        BY <1>4, <2>1, <2>3, <3>1
      <3>. QED
        BY SMTT(60), <1>0, <1>1, <1>2, <1>3, <2>2, <3>1, <3>2, <3>3, AdminShape
    <2>7. CASE AdmRegistered \/ AdmUndo \/ AdmFault
      <3>1. /\ adm' \in AdmRec /\ UNCHANGED <<rows, fired>>
            /\ adm'.w = adm.w \/ adm' = IdleAdm
            /\ adm'.pc \in {"idle", "list", "undo"} /\ adm'.todo \subseteq adm.todo
            /\ adm'.pc = "idle" => adm' = IdleAdm
            /\ adm'.pc # "idle" => adm'.then = "undo" /\ faults' > 0
            /\ wf' \in [Workflows -> {"absent", "disabled", "enabled"}]
        BY <2>7, AdmEndFacts
      <3>2. \A d \in adm'.todo : d.wf = adm'.w /\ d.wf \in Workflows /\ Stands(d.wf, d.row)
        BY <2>3, <3>1, IdleFacts
      <3>3. \A r \in Rows : rows'[r].status # "none" => rows'[r].wf \in Workflows /\ Stands(rows'[r].wf, r)
        BY <1>0, <3>1 DEF Belong
      <3>4. /\ adm'.pc = "idle" <=> adm'.w = NoWorkflow
            /\ adm'.pc # "idle" => adm'.w \in Workflows
            /\ adm'.pc = "register" => adm'.then = "register"
            /\ adm'.pc = "undo" => adm'.then = "undo"
            /\ adm'.then = "undo" => faults' > 0
        BY <1>4, <2>1, <3>1, IdleFacts
      <3>. QED
        BY <1>0, <1>1, <1>2, <1>3, <2>2, <3>1, <3>2, <3>3, <3>4, AdminShape
    <2>. QED
      BY SMTT(60), <1>6, <2>4, <2>5, <2>6, <2>7
  <1>. QED
    BY <1>5, <1>6 DEF Admin

\* IngestEvent, the clock and a crash leave rows and waits as they are.
LEMMA RestKeepsShape ==
  ASSUME ShapeInv, DeliveryInv, DeliveryInv',
         \/ \E g \in Ingests : IngestList(g) \/ IngestEvent(g) \/ IngestStartFails(g) \/ IngestFault(g)
         \/ Advance \/ Crash
  PROVE  ShapeInv'
  <1>0. /\ TypeOK /\ Belong /\ AdminOf
        /\ now \in 0..MaxTime /\ wf \in [Workflows -> {"absent", "disabled", "enabled"}]
        /\ cooled \in [EventTriggers -> Int] /\ ingests \in 0..MaxIngests /\ faults \in 0..MaxHarms
        /\ crashes \in 0..MaxHarms
    BY DEF ShapeInv, TypeOK
  <1>1. CASE Advance
    <2>1. up' \in BOOLEAN
      BY <1>0, <1>1, Zenon DEF TypeOK, Advance
    <2>2. UNCHANGED <<tables, up, boot, fire, adm, ing, history, faults, bounds>> /\ now' \in 0..MaxTime
      BY <1>0, <1>1, BoundAssumption DEF Advance, NoFault
    <2>3. TypeOK' /\ AdminOf' /\ Belong'
      BY <1>0, <2>1, <2>2 DEF TypeOK, AdminOf, Belong, Stands, tables, history, bounds
    <2>. QED
      BY <2>3 DEF ShapeInv
  <1>2. CASE Crash
    <2>1. /\ UNCHANGED <<now, tables, history, faults, calls, ingests>> /\ crashes' \in 0..MaxHarms
          /\ up' = FALSE /\ boot' = Files /\ fire' = IdleFire /\ adm' = IdleAdm
          /\ ing' \in [Ingests -> IngRec]
      BY <1>0, <1>2, BoundAssumption DEF Crash, Harm, NoFault, DeliveryInv
    <2>2. TypeOK' /\ AdminOf' /\ Belong'
      BY <1>0, <2>1, IdleFacts DEF TypeOK, AdminOf, Belong, Stands, tables, history
    <2>. QED
      BY <2>2 DEF ShapeInv
  <1>3. ASSUME NEW g \in Ingests,
               IngestList(g) \/ IngestEvent(g) \/ IngestStartFails(g) \/ IngestFault(g)
        PROVE  ShapeInv'
    <2>1. UNCHANGED <<now, rows, waits, up, boot, fire, adm, fired, calls, crashes>>
      BY <1>3 DEF IngestList, IngestEvent, IngestCheck, IngestRecord, IngestStart, IngestRollback, IngestTouch,
                  IngestStartFails, IngestFault, tables, history, bounds
    <2>2. faults' \in 0..MaxHarms /\ faults' >= faults
      BY ZenonT(60), <1>0, <1>3, FaultFacts
           DEF IngestList, IngestEvent, IngestCheck, IngestRecord, IngestStart, IngestRollback, IngestTouch,
               IngestStartFails, IngestFault
    <2>3. wf' = wf \/ \E w \in Blockable : wf' = [wf EXCEPT ![w] = "enabled"]
      BY <1>3 DEF IngestList, IngestEvent, IngestCheck, IngestRecord, IngestStart, IngestRollback, IngestTouch,
                  IngestStartFails, IngestFault, tables
    <2>4. wf' \in [Workflows -> {"absent", "disabled", "enabled"}]
      BY SMTT(60), <1>0, <2>3
    <2>5. cooled' = cooled \/ cooled' = [cooled EXCEPT ![ing[g].t] = now]
      BY <1>3 DEF IngestList, IngestEvent, IngestCheck, IngestRecord, IngestStart, IngestRollback, IngestTouch,
                  IngestStartFails, IngestFault, tables
    <2>6. cooled' \in [EventTriggers -> Int]
      BY SMTT(60), <1>0, <2>5
    <2>7. ingests' = ingests \/ (ingests < MaxIngests /\ ingests' = ingests + 1)
      BY <1>3
           DEF IngestList, IngestEvent, IngestCheck, IngestRecord, IngestStart, IngestRollback, IngestTouch,
               IngestStartFails, IngestFault, bounds
    <2>8. ingests' \in 0..MaxIngests
      BY <1>0, <2>7, BoundAssumption
    <2>9. up' \in BOOLEAN
      BY <1>0, <2>1, Zenon DEF TypeOK
    <2>10. TypeOK'
      BY <1>0, <2>1, <2>2, <2>4, <2>6, <2>8, <2>9 DEF TypeOK, DeliveryInv
    <2>11. AdminOf' /\ Belong'
      BY <1>0, <2>1, <2>2 DEF AdminOf, Belong, Stands
    <2>. QED
      BY <2>10, <2>11 DEF ShapeInv
  <1>. QED
    BY <1>1, <1>2, <1>3

LEMMA ShapeInit == ASSUME Init PROVE ShapeInv
  <1>1. up \in BOOLEAN
    BY Zenon DEF Init
  <1>2. rows \in [Rows -> RowRec] /\ \A r \in Rows : rows[r].status = "none"
    BY DEF Init, NoRow, RowRec
  <1>3. TypeOK
    BY <1>1, <1>2, BoundAssumption, IdleFacts, IdleIngFacts, EmptySeq DEF Init, TypeOK, Never
  <1>4. Belong /\ AdminOf
    BY <1>2, IdleFacts DEF Init, Belong, AdminOf
  <1>. QED
    BY <1>3, <1>4 DEF ShapeInv

LEMMA ShapeStep ==
  ASSUME ShapeInv, DeliveryInv, DeliveryInv', [Next]_vars
  PROVE  ShapeInv'
  <1>1. CASE FireDue \/ FireFault
    BY <1>1, FireStepShape, FireRunShape DEF FireDue
  <1>2. CASE Admin \/ CallUser \/ AdmFault
    BY <1>2, AdminKeepsShape
  <1>3. CASE UNCHANGED vars
    <2>1. up' \in BOOLEAN
      BY <1>3, Zenon DEF ShapeInv, TypeOK, vars
    <2>2. TypeOK' /\ Belong' /\ AdminOf'
      BY <1>3, <2>1 DEF ShapeInv, TypeOK, Belong, AdminOf, Stands, vars, tables, history, bounds
    <2>. QED
      BY <2>2 DEF ShapeInv
  <1>. QED
    BY <1>1, <1>2, <1>3, RestKeepsShape DEF Next

LEMMA ShapeInvariance == Spec => []ShapeInv
  <1>1. Init => ShapeInv
    BY ShapeInit
  <1>2. ShapeInv /\ DeliveryInv /\ DeliveryInv' /\ [Next]_vars => ShapeInv'
    BY ShapeStep
  <1>. QED
    BY <1>1, <1>2, DeliveryInvariance, PTL DEF Spec

\* The state of the scheduler, of every pass, activation and ingestion has its type: a
\* row, a due row and a row to cancel are always rows of a trigger of their workflow.
THEOREM TriggerTypeCorrect == Spec => []TypeOK
  <1>1. ShapeInv => TypeOK
    BY DEF ShapeInv
  <1>. QED
    BY <1>1, ShapeInvariance, PTL

-----------------------------------------------------------------------------
(* One run per occurrence.                                                 *)

\* The bounded counters never go back.
LEMMA OnlyGrows ==
  ASSUME ShapeInv, [Next]_vars
  PROVE  calls' >= calls /\ faults' >= faults /\ crashes' >= crashes
  <1>0. /\ calls \in Nat /\ faults \in Nat /\ crashes \in Nat
        /\ TypeOK
    BY SMTT(60), BoundAssumption DEF ShapeInv, TypeOK
  <1>1. faults' = faults \/ faults' = faults + 1
    BY ZenonT(60) DEF Next, FireDue, FireList, FireClaim, FireGet, FireStart, FireReschedule, FireWaits, FireResume,
           FireTicked, FireFault, Admin, Discover, CallUser, AdmPut, AdmList, AdmCancel, AdmRegister,
           AdmRegistered, AdmUndo, AdmFault, IngestEvent, IngestList, IngestCheck, IngestRecord, IngestStart,
           IngestRollback, IngestTouch, IngestStartFails, IngestFault, Advance, Crash, NoFault, AFault, vars
  <1>2. calls' = calls \/ calls' = calls + 1
    BY ZenonT(60) DEF Next, FireDue, FireList, FireClaim, FireGet, FireStart, FireReschedule, FireWaits, FireResume,
           FireTicked, FireFault, Admin, Discover, CallUser, AdmPut, AdmList, AdmCancel, AdmRegister,
           AdmRegistered, AdmUndo, AdmFault, IngestEvent, IngestList, IngestCheck, IngestRecord, IngestStart,
           IngestRollback, IngestTouch, IngestStartFails, IngestFault, Advance, Crash, bounds, vars
  <1>3. crashes' = crashes \/ crashes' = crashes + 1
    BY Zenon DEF Next, FireDue, FireList, FireClaim, FireGet, FireStart, FireReschedule, FireWaits, FireResume,
           FireTicked, FireFault, Admin, Discover, CallUser, AdmPut, AdmList, AdmCancel, AdmRegister,
           AdmRegistered, AdmUndo, AdmFault, IngestEvent, IngestList, IngestCheck, IngestRecord, IngestStart,
           IngestRollback, IngestTouch, IngestStartFails, IngestFault, Advance, Crash, bounds, vars
  <1>. QED
    BY <1>0, <1>1, <1>2, <1>3

LEMMA RecurringFacts ==
  ASSUME TypeOK, NEW t \in Recurring
  PROVE  /\ t \in Triggers \ EventTriggers /\ Row[t] \in Rows /\ fired[t] \in Seq(Nat)
         /\ Kind[t] \in {"interval", "cron"}
  BY TriggerFacts DEF TypeOK, Recurring, EventTriggers

\* A row stands for one trigger of a workflow.
LEMMA StoredFor ==
  ASSUME NEW w \in Workflows, NEW r, NEW t \in Triggers, Stands(w, r)
  PROVE  Stored(t, w, r) <=> t = TriggerOf(w, r)
  BY TriggerOfFacts, TriggerAssumption DEF Stored

\* Steps that touch neither rows nor FireDue nor its runs.
LEMMA OccurrenceCalm ==
  ASSUME OccurrenceInv, UNCHANGED <<rows, fire, fired>>, Undisturbed' => Undisturbed, calls' = 0 => calls = 0
  PROVE  OccurrenceInv'
  <1>1. OnePass' /\ HandFree'
    BY DEF OccurrenceInv, OnePass, HandFree
  <1>2. \A t, n : Before(t, n) => (\A i \in 1..Len(fired'[t]) : fired'[t][i] < n)
    BY DEF Before
  <1>3. Later'
    BY <1>2 DEF OccurrenceInv, Later, Before, Stored
  <1>4. OccurrenceOnce'
    BY DEF OccurrenceInv, OccurrenceOnce, Undisturbed
  <1>. QED
    BY <1>1, <1>3, <1>4 DEF OccurrenceInv

\* Steps after which FireDue has nothing in hand that it had not, and starts nothing.
LEMMA OccurrenceFewer ==
  ASSUME ShapeInv, OccurrenceInv, fired' = fired, Undisturbed' => Undisturbed, calls' = 0 => calls = 0,
         OnePass', HandFree',
         Undisturbed' => \A t \in Recurring :
             /\ ( /\ rows'[Row[t]].status = "pending" /\ Stored(t, rows'[Row[t]].wf, Row[t])
                  /\ ~(fire'.pc = "resched" /\ Stored(t, fire'.rec.wf, fire'.rec.row)) ) =>
                    Before(t, rows'[Row[t]].at)
             /\ \A d \in fire'.due : Stored(t, d.wf, d.row) => Before(t, d.at)
             /\ fire'.pc \in {"get", "start"} /\ Stored(t, fire'.rec.wf, fire'.rec.row) => Before(t, fire'.rec.at)
             /\ fire'.pc = "resched" /\ Stored(t, fire'.rec.wf, fire'.rec.row) => Before(t, fire'.rec.at + 1)
  PROVE  OccurrenceInv'
  <1>1. Later'
    BY DEF Later, Before, Stored
  <1>2. OccurrenceOnce'
    BY DEF OccurrenceInv, OccurrenceOnce, Undisturbed
  <1>. QED
    BY <1>1, <1>2 DEF OccurrenceInv

LEMMA FireListOccurrence ==
  ASSUME ShapeInv, OccurrenceInv, FireList, Undisturbed' => Undisturbed
  PROVE  OccurrenceInv'
  <1>0. /\ fire' \in FireRec /\ fire'.pc = "loop" /\ fire'.now = now /\ rows' = rows /\ fire.pc = "idle"
        /\ fired' = fired /\ calls' = calls
        /\ \A d \in fire'.due :
              /\ rows[d.row].status = "pending" /\ rows[d.row].at <= now
              /\ d.wf = rows[d.row].wf /\ d.at = rows[d.row].at
        /\ \A d, e \in fire'.due : d.row = e.row => d = e
    BY FireListFacts DEF FireList, history, bounds
  <1>1. OnePass'
    BY <1>0 DEF OnePass
  <1>2. HandFree'
    BY <1>0 DEF HandFree
  <1>. QED
    BY <1>0, <1>1, <1>2, OccurrenceFewer DEF OccurrenceInv, Later, Stored

LEMMA FireClaimOccurrence ==
  ASSUME ShapeInv, OccurrenceInv, FireClaim, Undisturbed' => Undisturbed
  PROVE  OccurrenceInv'
  <1>0. /\ fire.pc = "loop" /\ fire' \in FireRec /\ fire'.now = fire.now /\ rows \in [Rows -> RowRec]
        /\ fired' = fired /\ calls' = calls /\ TypeOK
    BY FireClaimFacts DEF ShapeInv, TypeOK, FireClaim, history, bounds
  <1>1. PICK d \in fire.due :
           /\ d \in DueRec /\ fire'.due = fire.due \ {d}
           /\ Claims(d) \/ (rows' = rows /\ fire'.pc = "loop")
    BY FireClaimFacts DEF ShapeInv
  <1>2. CASE rows' = rows /\ fire'.pc = "loop"
    <2>1. OnePass' /\ HandFree'
      BY <1>0, <1>1, <1>2 DEF OccurrenceInv, OnePass, HandFree
    <2>. QED
      BY <1>0, <1>1, <1>2, <2>1, OccurrenceFewer DEF OccurrenceInv, Later
  <1>3. CASE Claims(d)
    <2>1. d.row \in Rows /\ fire'.pc = "get" /\ fire'.rec = d
      BY <1>1, <1>3 DEF DueRec, Claims
    <2>2. rows'[d.row].status = "fired" /\ \A r \in Rows : r # d.row => rows'[r] = rows[r]
      BY <1>0, <1>3, <2>1 DEF Claims
    <2>3. OnePass'
      BY <1>0, <1>1, <2>1 DEF OccurrenceInv, OnePass
    <2>4. HandFree'
      BY <2>1, <2>2 DEF HandFree
    <2>5. \A t \in Recurring : Row[t] \in Rows
      BY <1>0, RecurringFacts
    <2>6. ASSUME Undisturbed', NEW t \in Recurring
          PROVE  /\ rows'[Row[t]].status = "pending" /\ Stored(t, rows'[Row[t]].wf, Row[t]) =>
                        Before(t, rows'[Row[t]].at)
                 /\ \A e \in fire'.due : Stored(t, e.wf, e.row) => Before(t, e.at)
                 /\ Stored(t, fire'.rec.wf, fire'.rec.row) => Before(t, fire'.rec.at)
      BY <1>0, <1>1, <2>1, <2>2, <2>5, <2>6 DEF OccurrenceInv, Later
    <2>. QED
      BY <1>0, <2>1, <2>3, <2>4, <2>6, OccurrenceFewer
  <1>. QED
    BY <1>1, <1>2, <1>3

LEMMA FireGetOccurrence ==
  ASSUME ShapeInv, OccurrenceInv, FireGet \/ FireWaits \/ FireResume \/ FireTicked, Undisturbed' => Undisturbed
  PROVE  OccurrenceInv'
  <1>0. rows' = rows /\ fired' = fired /\ calls' = calls /\ TypeOK
    BY DEF ShapeInv, FireGet, FireWaits, FireResume, FireTicked, tables, history, bounds
  <1>1. CASE FireGet
    <2>1. /\ fire.pc = "get" /\ fire'.due \subseteq fire.due
          /\ fire'.pc = "idle" => fire'.due = {}
          /\ fire'.pc # "idle" => fire'.now = fire.now
          /\ fire'.pc \in {"idle", "loop", "start"}
          /\ fire'.pc = "start" => fire'.rec = fire.rec
      BY <1>0, <1>1, FireGetFacts, IdleFacts
    <2>2. OnePass' /\ HandFree'
      BY <1>0, <2>1 DEF OccurrenceInv, OnePass, HandFree
    <2>. QED
      BY <1>0, <2>1, <2>2, OccurrenceFewer DEF OccurrenceInv, Later
  <1>2. CASE FireWaits \/ FireResume \/ FireTicked
    <2>1. /\ fire'.pc \notin {"get", "start", "resched"} /\ fire'.due \subseteq fire.due
          /\ IF fire'.pc = "idle" THEN fire'.due = {} ELSE fire'.now = fire.now
          /\ fire.pc \notin {"get", "start", "resched"}
      BY <1>0, <1>2, FireWaitsFacts
    <2>2. OnePass' /\ HandFree'
      BY <1>0, <2>1 DEF OccurrenceInv, OnePass, HandFree
    <2>. QED
      BY <1>0, <2>1, <2>2, OccurrenceFewer DEF OccurrenceInv, Later
  <1>. QED
    BY <1>1, <1>2

\* One more run of t, after all that were.
LEMMA AppendAfter ==
  ASSUME NEW s \in Seq(Nat), NEW n \in Nat, \A i \in 1..Len(s) : s[i] < n,
         \A i \in 1..(Len(s) - 1) : s[i] < s[i + 1]
  PROVE  /\ \A i \in 1..Len(Append(s, n)) : Append(s, n)[i] < n + 1
         /\ \A i \in 1..(Len(Append(s, n)) - 1) : Append(s, n)[i] < Append(s, n)[i + 1]
  <1>1. /\ Len(s) \in Nat /\ Len(Append(s, n)) = Len(s) + 1
        /\ \A i \in 1..Len(s) : Append(s, n)[i] = s[i] /\ s[i] \in Nat
        /\ Append(s, n)[Len(s) + 1] = n
    BY AppendProperties, LenProperties, ElementOfSeq
  <1>2. ASSUME NEW i \in 1..Len(Append(s, n))
        PROVE  Append(s, n)[i] < n + 1
    <2>1. i \in 1..Len(s) \/ i = Len(s) + 1
      BY <1>1
    <2>. QED
      BY <1>1, <2>1
  <1>3. ASSUME NEW i \in 1..(Len(Append(s, n)) - 1)
        PROVE  Append(s, n)[i] < Append(s, n)[i + 1]
    <2>1. i \in 1..Len(s) /\ ((i + 1 \in 1..Len(s) /\ i \in 1..(Len(s) - 1)) \/ i = Len(s))
      BY <1>1
    <2>. QED
      BY <1>1, <2>1
  <1>. QED
    BY <1>2, <1>3

\* A start adds the occurrence FireDue has in hand, to the trigger of its row.
LEMMA StartedOnce ==
  ASSUME ShapeInv, OccurrenceInv, Undisturbed, fire.pc = "start",
         \/ fired' = fired
         \/ fired' = [fired EXCEPT ![TriggerOf(fire.rec.wf, fire.rec.row)] = Append(@, fire.rec.at)],
         NEW t \in Recurring
  PROVE  /\ ~Stored(t, fire.rec.wf, fire.rec.row) => fired'[t] = fired[t]
         /\ Stored(t, fire.rec.wf, fire.rec.row) => \A i \in 1..Len(fired'[t]) : fired'[t][i] < fire.rec.at + 1
         /\ \A i \in 1..(Len(fired'[t]) - 1) : fired'[t][i] < fired'[t][i + 1]
  <1>. DEFINE n == fire.rec.at
              s == TriggerOf(fire.rec.wf, fire.rec.row)
  <1>0. /\ n \in Nat /\ fire.rec.wf \in Workflows /\ Stands(fire.rec.wf, fire.rec.row)
        /\ t \in Triggers \ EventTriggers /\ fired[t] \in Seq(Nat)
        /\ \A i \in 1..(Len(fired[t]) - 1) : fired[t][i] < fired[t][i + 1]
        /\ Stored(t, fire.rec.wf, fire.rec.row) => \A i \in 1..Len(fired[t]) : fired[t][i] < n
    <2>1. fire \in FireRec /\ TypeOK
      BY DEF ShapeInv, TypeOK
    <2>2. n \in Nat
      BY <2>1 DEF FireRec, DueRec, NoRec
    <2>. QED
      BY <2>1, <2>2, RecurringFacts DEF ShapeInv, Belong, OccurrenceInv, OccurrenceOnce, Later, Before, Undisturbed
  <1>1. Stored(t, fire.rec.wf, fire.rec.row) <=> t = s
    BY <1>0, StoredFor
  <1>2. fired[t] \in Seq(Nat) /\ \A i \in 1..Len(fired[t]) : fired[t][i] \in Nat
    BY <1>0, ElementOfSeq
  <1>3. CASE fired' = fired
    BY <1>0, <1>2, <1>3, LenProperties
  <1>4. CASE ~Stored(t, fire.rec.wf, fire.rec.row)
    <2>1. t # s
      BY <1>1, <1>4
    <2>2. fired'[t] = fired[t]
      BY <1>0, <2>1 DEF ShapeInv, TypeOK
    <2>. QED
      BY <1>0, <1>4, <2>2
  <1>5. CASE Stored(t, fire.rec.wf, fire.rec.row) /\ fired' # fired
    <2>1. t = s
      BY <1>1, <1>5
    <2>2. fired'[t] = Append(fired[t], n)
      <3>1. fired \in [Triggers \ EventTriggers -> Seq(Nat)]
        BY DEF ShapeInv, TypeOK
      <3>2. fired' = [fired EXCEPT ![t] = Append(@, n)]
        BY <1>5, <2>1
      <3>. QED
        BY <1>0, <3>1, <3>2
    <2>. QED
      BY <1>0, <1>5, <2>2, AppendAfter
  <1>. QED
    BY <1>3, <1>4, <1>5

LEMMA FireStartOccurrence ==
  ASSUME ShapeInv, OccurrenceInv, FireStart, Undisturbed' => Undisturbed
  PROVE  OccurrenceInv'
  <1>0. /\ fire.pc = "start" /\ fire'.pc = "resched" /\ fire'.rec = fire.rec
        /\ fire'.due = fire.due /\ fire'.now = fire.now
        /\ rows' = rows /\ calls' = calls
        /\ \/ fired' = fired
           \/ fired' = [fired EXCEPT ![TriggerOf(fire.rec.wf, fire.rec.row)] = Append(@, fire.rec.at)]
    BY FireStartFacts DEF FireStart, bounds
  <1>1. OnePass' /\ HandFree'
    BY <1>0 DEF OccurrenceInv, OnePass, HandFree
  <1>2. Undisturbed' => \A t \in Recurring :
          /\ ~Stored(t, fire.rec.wf, fire.rec.row) => fired'[t] = fired[t]
          /\ Stored(t, fire.rec.wf, fire.rec.row) => \A i \in 1..Len(fired'[t]) : fired'[t][i] < fire.rec.at + 1
          /\ \A i \in 1..(Len(fired'[t]) - 1) : fired'[t][i] < fired'[t][i + 1]
    BY <1>0, StartedOnce
  <1>3. \A d \in fire.due : d.row # fire.rec.row
    BY <1>0 DEF OccurrenceInv, OnePass
  <1>4. Later'
    BY <1>0, <1>2, <1>3 DEF OccurrenceInv, Later, Before, Stored
  <1>5. OccurrenceOnce'
    BY <1>2 DEF OccurrenceOnce, Undisturbed
  <1>. QED
    BY SMTT(60), <1>1, <1>4, <1>5 DEF OccurrenceInv

\* The next instant is behind the occurrence that was started.
LEMMA FireRescheduleOccurrence ==
  ASSUME ShapeInv, OccurrenceInv, FireReschedule, Undisturbed' => Undisturbed
  PROVE  OccurrenceInv'
  <1>. DEFINE w == fire.rec.wf
              r == fire.rec.row
              s == TriggerOf(w, r)
              next == NextFire(Kind[s], Period[s], fire.now, fire.rec.at, Missed[w])
  <1>0. /\ fire.pc = "resched" /\ fire'.pc = "loop"
        /\ fire'.due = fire.due /\ fire'.now = fire.now
        /\ w \in Workflows /\ r \in Rows /\ s \in Triggers /\ Row[s] = r /\ Stands(w, r)
        /\ \A x \in Rows : x # r => rows'[x] = rows[x]
        /\ Kind[s] = "once" => rows' = rows
        /\ Kind[s] # "once" => rows'[r] = [status |-> "pending", wf |-> w, at |-> next]
    BY FireRescheduleFacts
  <1>1. fired' = fired /\ calls' = calls /\ TypeOK
    BY DEF FireReschedule, history, bounds, ShapeInv
  <1>2. fire.rec.at \in Nat /\ fire.now \in Nat /\ fire.rec.at <= fire.now
    <2>1. fire \in FireRec
      BY <1>1 DEF TypeOK
    <2>. QED
      BY <1>0, <2>1 DEF FireRec, DueRec, NoRec, OccurrenceInv, OnePass
  <1>3. OnePass' /\ HandFree'
    BY <1>0 DEF OccurrenceInv, OnePass, HandFree
  <1>. HIDE DEF next
  <1>4. ASSUME Undisturbed', NEW t \in Recurring
        PROVE  /\ rows'[Row[t]].status = "pending" /\ Stored(t, rows'[Row[t]].wf, Row[t]) =>
                      Before(t, rows'[Row[t]].at)
               /\ \A d \in fire'.due : Stored(t, d.wf, d.row) => Before(t, d.at)
    <2>1. Row[t] \in Rows /\ Kind[t] \in {"interval", "cron"} /\ t \in Triggers /\ fired[t] \in Seq(Nat)
      BY <1>1, RecurringFacts
    <2>2. \A d \in fire'.due : Stored(t, d.wf, d.row) => Before(t, d.at)
      BY <1>0, <1>4 DEF OccurrenceInv, Later
    <2>3. CASE Row[t] # r
      <3>1. rows'[Row[t]] = rows[Row[t]]
        BY <1>0, <2>1, <2>3
      <3>. QED
        BY <1>4, <2>2, <2>3, <3>1 DEF OccurrenceInv, Later, Stored
    <2>4. CASE Row[t] = r /\ ~Stored(t, w, r)
      <3>1. t # s /\ (rows' = rows \/ rows'[r].wf = w)
        BY <1>0, <2>1, <2>4, StoredFor
      <3>. QED
        BY <1>4, <2>2, <2>4, <3>1 DEF OccurrenceInv, Later
    <2>5. CASE Stored(t, w, r)
      <3>1. t = s /\ Row[t] = r
        BY <1>0, <2>1, <2>5, StoredFor DEF Stored
      <3>2. next \in Nat /\ next > fire.rec.at
        <4>1. Period[t] \in Nat \ {0} /\ Missed[w] \in Policies
          BY <1>0, <2>1, TriggerFacts, TriggerAssumption
        <4>. QED
          BY <1>2, <2>1, <3>1, <4>1, NextFireLater DEF next
      <3>3. rows'[Row[t]].at = next
        BY <1>0, <2>1, <3>1
      <3>4. Before(t, fire.rec.at + 1)
        BY <1>0, <1>4, <2>5 DEF OccurrenceInv, Later
      <3>5. \A i \in 1..Len(fired[t]) : fired[t][i] \in Nat
        BY <2>1, ElementOfSeq
      <3>6. Before(t, next)
        BY <1>2, <3>2, <3>4, <3>5 DEF Before
      <3>. QED
        BY <2>2, <3>3, <3>6
    <2>. QED
      BY <2>3, <2>4, <2>5
  <1>. QED
    BY <1>0, <1>1, <1>3, <1>4, OccurrenceFewer

\* A pass that is cut short leaves the row it had in hand fired.
LEMMA CutShortOccurrence ==
  ASSUME ShapeInv, OccurrenceInv, FireFault \/ Crash, Undisturbed' => Undisturbed,
         Undisturbed' => calls = 0
  PROVE  OccurrenceInv'
  <1>0. rows' = rows /\ fire' = IdleFire /\ calls' = calls /\ IdleFire.pc = "idle" /\ IdleFire.due = {}
    BY IdleFacts DEF FireFault, Crash, tables, bounds
  <1>1. OnePass' /\ HandFree'
    BY <1>0 DEF OnePass, HandFree
  <1>2. fired' = fired \/ (fire.pc = "start" /\
            fired' = [fired EXCEPT ![TriggerOf(fire.rec.wf, fire.rec.row)] = Append(@, fire.rec.at)])
    BY DEF FireFault, Crash, history
  <1>3. ASSUME Undisturbed', NEW t \in Recurring
        PROVE  /\ rows[Row[t]].status = "pending" /\ Stored(t, rows[Row[t]].wf, Row[t]) =>
                      fired'[t] = fired[t] /\ Before(t, rows[Row[t]].at)
               /\ \A i \in 1..(Len(fired'[t]) - 1) : fired'[t][i] < fired'[t][i + 1]
    <2>1. Undisturbed /\ calls = 0
      BY <1>3
    <2>2. rows[Row[t]].status = "pending" =>
            ~(fire.pc \in {"get", "start", "resched"} /\ Stored(t, fire.rec.wf, fire.rec.row))
      BY <2>1 DEF OccurrenceInv, HandFree, Stored
    <2>3. rows[Row[t]].status = "pending" /\ Stored(t, rows[Row[t]].wf, Row[t]) => Before(t, rows[Row[t]].at)
      BY <2>1, <2>2 DEF OccurrenceInv, Later
    <2>4. CASE fired' = fired
      BY <2>1, <2>3, <2>4 DEF OccurrenceInv, OccurrenceOnce, Undisturbed
    <2>5. CASE fired' # fired
      BY <1>2, <2>1, <2>2, <2>3, <2>5, StartedOnce
    <2>. QED
      BY <2>4, <2>5
  <1>4. Later'
    BY <1>0, <1>3 DEF Later, Before
  <1>5. OccurrenceOnce'
    BY <1>3 DEF OccurrenceOnce, Undisturbed
  <1>. QED
    BY <1>1, <1>4, <1>5 DEF OccurrenceInv

\* Rows are cancelled, or registered anew: the runs before the registration do not count.
LEMMA AdminOccurrence ==
  ASSUME ShapeInv, OccurrenceInv, AdmList \/ AdmCancel \/ AdmRegister, Undisturbed' => Undisturbed
  PROVE  OccurrenceInv'
  <1>0. fire' = fire /\ calls' = calls /\ TypeOK
    BY DEF AdmList, AdmCancel, AdmRegister, bounds, ShapeInv
  <1>1. OnePass'
    BY <1>0 DEF OccurrenceInv, OnePass
  <1>2. \A t \in Recurring : Row[t] \in Rows
    BY <1>0, RecurringFacts
  <1>3. fire.pc \in {"get", "start", "resched"} => fire.rec.row \in Rows
    <2>1. fire.pc \in {"get", "start", "resched"} =>
             fire.rec.wf \in Workflows /\ Stands(fire.rec.wf, fire.rec.row)
      BY DEF ShapeInv, Belong
    <2>. QED
      BY <2>1, TriggerOfFacts, TriggerFacts
  <1>4. CASE AdmList \/ AdmCancel
    <2>1. /\ fired' = fired
          /\ \A r \in Rows : rows'[r] # rows[r] => rows'[r].status = "cancelled"
      BY <1>4, AdmCancelFacts
    <2>2. HandFree'
      BY <1>0, <1>3, <2>1 DEF OccurrenceInv, HandFree
    <2>3. ASSUME Undisturbed', NEW t \in Recurring
          PROVE  rows'[Row[t]].status = "pending" => rows'[Row[t]] = rows[Row[t]]
      BY <1>2, <2>1
    <2>. QED
      BY <1>0, <1>1, <2>1, <2>2, <2>3, OccurrenceFewer DEF OccurrenceInv, Later
  <1>5. CASE AdmRegister
    <2>. DEFINE t == TriggersOf[adm.w][adm.i]
    <2>1. /\ adm.pc = "register" /\ t \in Triggers /\ adm.w \in Workflows
          /\ \A r \in Rows : r # Row[t] => rows'[r] = rows[r]
          /\ \A s \in Triggers \ EventTriggers : s # t => fired'[s] = fired[s]
          /\ t \in Owned(adm.w)
          /\ \/ t \notin Recurring /\ UNCHANGED <<rows, fired>>
             \/ /\ rows'[Row[t]].wf = adm.w
                /\ fired'[t] = IF t \in Recurring THEN <<>> ELSE fired[t]
      BY Zenon, <1>5, AdmRegisterFacts
    <2>2. HandFree'
      <3>1. fire.pc # "idle" => calls > 0
        BY <2>1 DEF ShapeInv, AdminOf
      <3>2. calls' = 0 => fire.pc = "idle"
        BY <1>0, <3>1
      <3>. QED
        BY <1>0, <3>2 DEF HandFree
    <2>3. ASSUME NEW s \in Recurring
          PROVE  \/ s = t /\ fired'[s] = <<>>
                 \/ /\ fired'[s] = fired[s]
                    /\ rows'[Row[s]] = rows[Row[s]] \/ ~Stored(s, rows'[Row[s]].wf, Row[s])
      <3>1. s \in Triggers \ EventTriggers /\ Row[s] \in Rows
        BY <1>0, RecurringFacts
      <3>2. s # t /\ Row[s] = Row[t] => ~Stored(s, adm.w, Row[s])
        BY <2>1, TriggerAssumption DEF Stored
      <3>. QED
        BY <2>1, <3>1, <3>2
    <2>4. Len(<<>>) = 0
      OBVIOUS
    <2>5. Later'
      BY SMTT(60), <1>0, <2>3, <2>4 DEF OccurrenceInv, Later, Before
    <2>6. OccurrenceOnce'
      BY <2>3, <2>4 DEF OccurrenceInv, OccurrenceOnce, Undisturbed
    <2>. QED
      BY SMTT(60), <1>1, <2>2, <2>5, <2>6 DEF OccurrenceInv
  <1>. QED
    BY SMTT(60), <1>4, <1>5

LEMMA OccurrenceInit == ASSUME Init PROVE OccurrenceInv
  <1>1. /\ fire.pc = "idle" /\ fire.due = {} /\ \A t \in Recurring : fired[t] = <<>>
    BY IdleFacts DEF Init, Recurring, EventTriggers
  <1>2. Len(<<>>) = 0
    OBVIOUS
  <1>. QED
    BY <1>1, <1>2 DEF OccurrenceInv, OnePass, HandFree, Later, Before, OccurrenceOnce

LEMMA SumZero == \A a, b \in Nat : a + b = 0 <=> a = 0 /\ b = 0
  OBVIOUS

LEMMA OccurrenceStep ==
  ASSUME ShapeInv, ShapeInv', OccurrenceInv, [Next]_vars
  PROVE  OccurrenceInv'
  <1>0. /\ calls \in Nat /\ faults \in Nat /\ crashes \in Nat
        /\ calls' \in Nat /\ faults' \in Nat /\ crashes' \in Nat
        /\ calls' >= calls /\ faults' >= faults /\ crashes' >= crashes
    BY OnlyGrows, BoundAssumption DEF ShapeInv, TypeOK
  <1>1. (Undisturbed' => Undisturbed) /\ (calls' = 0 => calls = 0)
    <2>1. /\ faults + crashes = 0 <=> faults = 0 /\ crashes = 0
          /\ faults' + crashes' = 0 <=> faults' = 0 /\ crashes' = 0
      BY <1>0, SumZero, Zenon
    <2>2. (calls' = 0 => calls = 0) /\ (faults' = 0 => faults = 0) /\ (crashes' = 0 => crashes = 0)
      BY <1>0
    <2>. QED
      BY <2>1, <2>2, Zenon DEF Undisturbed
  <1>2. CASE FireDue
    <2>1. FireList \/ FireClaim \/ FireGet \/ FireWaits \/ FireResume \/ FireTicked => OccurrenceInv'
      BY <1>1, FireListOccurrence, FireClaimOccurrence, FireGetOccurrence
    <2>2. FireStart \/ FireReschedule => OccurrenceInv'
      BY <1>1, FireStartOccurrence, FireRescheduleOccurrence
    <2>. QED
      BY <1>2, <2>1, <2>2 DEF FireDue
  <1>3. CASE FireFault \/ Crash
    <2>1. /\ calls' = calls
          /\ faults' = faults + 1 \/ crashes' = crashes + 1
      BY <1>3 DEF FireFault, AFault, Crash, bounds
    <2>2. Undisturbed' => calls = 0
      <3>1. ~(faults' = 0 /\ crashes' = 0)
        BY <1>0, <2>1
      <3>2. faults' + crashes' # 0
        BY <1>0, <3>1, SumZero, Zenon
      <3>. QED
        BY <2>1, <3>2, Zenon DEF Undisturbed
    <2>. QED
      BY <1>1, <1>3, <2>2, CutShortOccurrence
  <1>4. CASE AdmList \/ AdmCancel \/ AdmRegister
    BY <1>1, <1>4, AdminOccurrence
  <1>5. CASE Discover \/ AdmPut \/ AdmRegistered \/ AdmUndo \/ CallUser \/ AdmFault \/ Advance
    <2>1. UNCHANGED <<rows, fire, fired>>
      BY <1>5 DEF Discover, AdmPut, AdmRegistered, AdmUndo, CallUser, AdmFault, Advance, tables, history
    <2>. QED
      BY <1>1, <2>1, OccurrenceCalm
  <1>6. ASSUME NEW g \in Ingests, IngestList(g) \/ IngestEvent(g) \/ IngestStartFails(g) \/ IngestFault(g)
        PROVE  OccurrenceInv'
    <2>1. UNCHANGED <<rows, fire, fired>>
      BY <1>6 DEF IngestList, IngestEvent, IngestCheck, IngestRecord, IngestStart, IngestRollback, IngestTouch,
                  IngestStartFails, IngestFault, tables, history
    <2>. QED
      BY <1>1, <2>1, OccurrenceCalm
  <1>7. CASE UNCHANGED vars
    BY <1>1, <1>7, OccurrenceCalm DEF vars, tables, history
  <1>. QED
    BY <1>2, <1>3, <1>4, <1>5, <1>6, <1>7 DEF Next, Admin

\* From one registration to the next, FireDue starts a recurring trigger at later and later
\* occurrences, whatever policy computes the next instant, whatever fails or dies and
\* whatever other workflows store in the same row, unless a pass is cut short while users
\* enable workflows.
THEOREM OccurrencesOnce == Spec => []OccurrenceOnce
  <1>1. Init => OccurrenceInv
    BY OccurrenceInit
  <1>2. OccurrenceInv /\ ShapeInv /\ ShapeInv' /\ [Next]_vars => OccurrenceInv'
    BY OccurrenceStep
  <1>3. OccurrenceInv => OccurrenceOnce
    BY DEF OccurrenceInv
  <1>. QED
    BY <1>1, <1>2, <1>3, ShapeInvariance, PTL DEF Spec

-----------------------------------------------------------------------------
(* The schedule is not lost.                                               *)

LEMMA UnharmedBack ==
  ASSUME ShapeInv, ShapeInv', [Next]_vars
  PROVE  /\ \A w \in Workflows : Unharmed(w)' => Unharmed(w)
         /\ faults' > 0 => \A w \in Workflows : ~Unharmed(w)'
  <1>1. /\ faults \in Nat /\ crashes \in Nat /\ faults' \in Nat /\ crashes' \in Nat
        /\ faults' >= faults /\ crashes' >= crashes
    BY OnlyGrows, BoundAssumption DEF ShapeInv, TypeOK
  <1>2. (faults' = 0 => faults = 0) /\ (crashes' = 0 => crashes = 0) /\ (faults' > 0 => faults' # 0)
    BY <1>1
  <1>. QED
    BY <1>2 DEF Unharmed

\* The row of a trigger that shares it with no other is a row of its workflow only.
LEMMA OwnerIs ==
  ASSUME NEW v \in Workflows, NEW w \in Workflows, NEW t \in Owned(w), HasOwnRow(t), Stands(v, Row[t])
  PROVE  v = w /\ TriggerOf(v, Row[t]) = t
  <1>1. t \in Triggers /\ Owned(v) \subseteq Triggers
    BY OwnedFacts
  <1>2. t \in Owned(v)
    BY <1>1 DEF Stands, HasOwnRow
  <1>4. TriggerOf(v, Row[t]) = t
    BY <1>1, <1>2, StoredFor DEF Stored
  <1>3. v # w => Owned(v) \cap Owned(w) = {}
    BY TriggerAssumption
  <1>. QED
    BY <1>2, <1>4, <1>3

\* FireDue puts back what it took.
LEMMA FireKeepsScheduled ==
  ASSUME ShapeInv, FireDue, NEW w \in Workflows, wf[w] = "enabled",
         NEW t \in Owned(w), t \in Alone, Scheduled(w, t)
  PROVE  Scheduled(w, t)'
  <1>0. /\ TypeOK /\ rows \in [Rows -> RowRec] /\ Row[t] \in Rows /\ Kind[t] \in {"interval", "cron"}
    BY RecurringFacts DEF ShapeInv, TypeOK, Alone
  <1>1. InFlight(Row[t]) => fire.rec.wf = w /\ TriggerOf(fire.rec.wf, Row[t]) = t
    BY OwnerIs DEF ShapeInv, Belong, InFlight, Alone
  <1>2. CASE FireList
    BY <1>2, FireListFacts DEF Scheduled, InFlight, FireList
  <1>3. CASE FireClaim
    <2>1. PICK d \in fire.due :
             d \in DueRec /\ (Claims(d) \/ (rows' = rows /\ fire'.pc = "loop"))
      BY <1>0, <1>3, FireClaimFacts
    <2>2. ~InFlight(Row[t])
      BY <1>3 DEF FireClaim, InFlight
    <2>3. CASE rows' = rows
      BY <2>2, <2>3 DEF Scheduled
    <2>4. CASE Claims(d) /\ d.row = Row[t]
      BY <2>4 DEF Scheduled, InFlight, Claims
    <2>5. CASE Claims(d) /\ d.row # Row[t]
      <3>1. rows'[Row[t]] = rows[Row[t]]
        BY <1>0, <2>1, <2>5 DEF Claims, DueRec
      <3>. QED
        BY <2>2, <3>1 DEF Scheduled
    <2>. QED
      BY <2>1, <2>3, <2>4, <2>5
  <1>4. CASE FireGet
    <2>1. rows' = rows
      BY <1>4 DEF FireGet, tables
    <2>2. CASE InFlight(Row[t])
      BY <1>0, <1>1, <1>4, <2>2, FireGetFacts DEF Scheduled, InFlight
    <2>3. CASE ~InFlight(Row[t])
      BY <2>1, <2>3 DEF Scheduled
    <2>. QED
      BY <2>2, <2>3
  <1>5. CASE FireStart
    BY <1>5, FireStartFacts DEF Scheduled, InFlight
  <1>6. CASE FireReschedule
    <2>. DEFINE r == fire.rec.row
                s == TriggerOf(fire.rec.wf, r)
    <2>1. /\ fire.pc = "resched"
          /\ \A x \in Rows : x # r => rows'[x] = rows[x]
          /\ Kind[s] # "once" => rows'[r].status = "pending" /\ rows'[r].wf = fire.rec.wf
      BY <1>6, FireRescheduleFacts
    <2>2. CASE Row[t] = r
      BY <1>0, <1>1, <2>1, <2>2 DEF Scheduled, InFlight
    <2>3. CASE Row[t] # r
      BY <1>0, <2>1, <2>3 DEF Scheduled, InFlight
    <2>. QED
      BY <2>2, <2>3
  <1>7. CASE FireWaits \/ FireResume \/ FireTicked
    BY <1>0, <1>7, FireWaitsFacts DEF Scheduled, InFlight
  <1>. QED
    BY <1>2, <1>3, <1>4, <1>5, <1>6, <1>7 DEF FireDue

\* Steps that leave activations alone and keep what is scheduled.
LEMMA ScheduleCalm ==
  ASSUME ShapeInv, ScheduleInv, UNCHANGED <<adm, boot>>,
         \A w \in Workflows : wf'[w] = wf[w] \/ (w \in Blockable /\ wf'[w] = "enabled"),
         \A w \in Workflows : Unharmed(w)' => Unharmed(w),
         \A w \in Workflows : \A t \in Owned(w) :
             wf[w] = "enabled" /\ t \in Alone /\ Scheduled(w, t) => Scheduled(w, t)'
  PROVE  ScheduleInv'
  <1>1. adm.pc # "idle" => adm.w \in Workflows
    BY DEF ShapeInv, AdminOf
  <1>2. Written'
    BY <1>1 DEF ScheduleInv, Written
  <1>3. ASSUME NEW w \in Workflows \ Blockable, Unharmed(w)'
        PROVE  /\ w \notin boot' /\ wf'[w] = "enabled" /\ adm'.w # w =>
                      \A t \in Owned(w) \cap Alone : Scheduled(w, t)'
               /\ adm'.w = w /\ adm'.pc = "register" =>
                      \A j \in 1..Len(TriggersOf[w]) :
                          j < adm'.i /\ TriggersOf[w][j] \in Alone => Scheduled(w, TriggersOf[w][j])'
    <2>1. Unharmed(w) /\ wf'[w] = wf[w]
      BY <1>3
    <2>2. \A j \in 1..Len(TriggersOf[w]) : TriggersOf[w][j] \in Owned(w)
      BY OwnedFacts
    <2>3. adm.w = w /\ adm.pc = "register" => wf[w] = "enabled"
      BY DEF ScheduleInv, Written, ShapeInv, AdminOf
    <2>. QED
      BY <2>1, <2>2, <2>3 DEF ScheduleInv, KeptSo
  <1>4. KeptSo'
    BY <1>3 DEF KeptSo
  <1>. QED
    BY <1>2, <1>4 DEF ScheduleInv

\* A call of a user, or of DiscoverPipelines, takes one workflow in hand.
LEMMA CallerSchedule ==
  ASSUME ShapeInv, ScheduleInv, Discover \/ CallUser, \A w \in Workflows : Unharmed(w)' => Unharmed(w)
  PROVE  ScheduleInv'
  <1>0. /\ adm.pc = "idle" /\ UNCHANGED <<rows, fire>> /\ adm.w = NoWorkflow /\ NoWorkflow \notin Workflows
        /\ adm' = adm \/ (adm'.pc = "put" /\ adm'.i = 1)
        /\ \A w \in Workflows : wf'[w] = wf[w] \/ wf'[w] = "absent"
        /\ \A w \in boot : w \notin boot' => adm'.w = w
    BY CallerFacts, TriggerAssumption DEF ShapeInv, AdminOf, Discover, CallUser, tables
  <1>1. Written'
    BY <1>0 DEF Written
  <1>2. \A w, t : Scheduled(w, t)' <=> Scheduled(w, t)
    BY <1>0 DEF Scheduled, InFlight
  <1>3. ASSUME NEW w \in Workflows \ Blockable, Unharmed(w)', w \notin boot', wf'[w] = "enabled", adm'.w # w
        PROVE  \A t \in Owned(w) \cap Alone : Scheduled(w, t)'
    BY <1>0, <1>2, <1>3 DEF ScheduleInv, KeptSo
  <1>4. KeptSo'
    BY <1>0, <1>3 DEF KeptSo
  <1>. QED
    BY <1>1, <1>4 DEF ScheduleInv

\* Other rows than the workflow's own are left alone.
LEMMA AdminKeepsOthers ==
  ASSUME ShapeInv, AdmList \/ AdmCancel \/ AdmRegister, NEW w \in Workflows, w # adm.w,
         NEW t \in Owned(w) \cap Alone, Scheduled(w, t)
  PROVE  Scheduled(w, t)'
  <1>0. fire' = fire /\ TypeOK /\ Row[t] \in Rows /\ t \in Triggers
    <2>1. fire' = fire /\ TypeOK
      BY Zenon DEF AdmList, AdmCancel, AdmRegister, ShapeInv
    <2>. QED
      BY <2>1, RecurringFacts, OwnedFacts DEF Alone
  <1>1. adm.w \in Workflows
    BY DEF ShapeInv, AdminOf, AdmList, AdmCancel, AdmRegister
  <1>2. ~Stands(adm.w, Row[t])
    BY <1>1, OwnerIs DEF Alone
  <1>3. CASE AdmList \/ AdmCancel
    <2>1. rows'[Row[t]] = rows[Row[t]]
      BY SMTT(60), <1>0, <1>2, <1>3, AdmCancelFacts
    <2>. QED
      BY <1>0, <2>1 DEF Scheduled, InFlight
  <1>4. CASE AdmRegister
    <2>. DEFINE s == TriggersOf[adm.w][adm.i]
    <2>1. /\ s \in Owned(adm.w) /\ s \in Triggers
          /\ \A r \in Rows : r # Row[s] => rows'[r] = rows[r]
          /\ rows' = rows \/ Kind[s] # "event"
      BY Zenon, <1>4, AdmRegisterFacts
    <2>2. rows' = rows \/ Row[s] # Row[t]
      BY <1>2, <2>1 DEF Stands
    <2>3. rows'[Row[t]] = rows[Row[t]]
      BY <1>0, <2>1, <2>2
    <2>. QED
      BY <1>0, <2>3 DEF Scheduled, InFlight
  <1>. QED
    BY SMTT(60), <1>3, <1>4

LEMMA AdmPutSchedule ==
  ASSUME ShapeInv, ScheduleInv, AdmPut, \A w \in Workflows : Unharmed(w)' => Unharmed(w)
  PROVE  ScheduleInv'
  <1>0. /\ adm.pc = "put" /\ adm.w \in Workflows /\ adm'.pc = "list" /\ adm'.w = adm.w /\ adm'.then = adm.then
        /\ adm'.i = adm.i /\ UNCHANGED <<rows, fire, boot>>
        /\ wf'[adm.w] = IF adm.then = "register" THEN "enabled" ELSE "disabled"
        /\ \A w \in Workflows : w # adm.w => wf'[w] = wf[w]
    BY AdmPutFacts DEF AdmPut
  <1>1. Written'
    BY <1>0 DEF ScheduleInv, Written
  <1>2. \A w, t : Scheduled(w, t)' <=> Scheduled(w, t)
    BY <1>0 DEF Scheduled, InFlight
  <1>3. KeptSo'
    BY <1>0, <1>2 DEF ScheduleInv, KeptSo
  <1>. QED
    BY <1>1, <1>3 DEF ScheduleInv

\* The rows of the workflow are cancelled before the first trigger is registered.
LEMMA AdmCancelSchedule ==
  ASSUME ShapeInv, ScheduleInv, AdmList \/ AdmCancel,
         \A w \in Workflows : Unharmed(w)' => Unharmed(w)
  PROVE  ScheduleInv'
  <1>0. /\ adm.pc \in {"list", "cancel"} /\ adm.w \in Workflows /\ wf' = wf /\ boot' = boot
        /\ \/ /\ adm'.w = adm.w /\ adm'.then = adm.then /\ adm'.i = adm.i
              /\ adm'.pc = "cancel" \/ (adm'.pc = adm.then /\ adm.then # "idle")
           \/ adm' = IdleAdm /\ adm.then = "idle"
        /\ adm \in AdmRec
    BY AdmCancelFacts DEF AdmList, AdmCancel, ShapeInv, TypeOK
  <1>1. IdleAdm.pc = "idle" /\ IdleAdm.w = NoWorkflow /\ NoWorkflow \notin Workflows
    BY IdleFacts, TriggerAssumption
  <1>2. Written'
    BY <1>0, <1>1 DEF ScheduleInv, Written, AdmRec
  <1>3. ASSUME NEW w \in Workflows \ Blockable, Unharmed(w)'
        PROVE  /\ w \notin boot' /\ wf'[w] = "enabled" /\ adm'.w # w =>
                      \A t \in Owned(w) \cap Alone : Scheduled(w, t)'
               /\ adm'.w = w /\ adm'.pc = "register" =>
                      \A j \in 1..Len(TriggersOf[w]) :
                          j < adm'.i /\ TriggersOf[w][j] \in Alone => Scheduled(w, TriggersOf[w][j])'
    <2>1. adm'.w = w /\ adm'.pc = "register" => adm'.i = 1
      BY <1>0, <1>1 DEF ScheduleInv, Written
    <2>2. ASSUME w \notin boot', wf'[w] = "enabled", adm'.w # w
          PROVE  \A t \in Owned(w) \cap Alone : Scheduled(w, t)'
      <3>1. w # adm.w
        BY <1>0, <1>3, <2>2 DEF ScheduleInv, Written
      <3>2. \A t \in Owned(w) \cap Alone : Scheduled(w, t)
        BY <1>0, <1>3, <2>2, <3>1 DEF ScheduleInv, KeptSo
      <3>. QED
        BY <3>1, <3>2, AdminKeepsOthers
    <2>3. \A j \in 1..Len(TriggersOf[w]) : ~(j < 1)
      OBVIOUS
    <2>. QED
      BY <2>1, <2>2, <2>3
  <1>4. KeptSo'
    BY <1>3 DEF KeptSo
  <1>. QED
    BY <1>2, <1>4 DEF ScheduleInv

\* One trigger more is scheduled.
LEMMA AdmRegisterSchedule ==
  ASSUME ShapeInv, ScheduleInv, AdmRegister, \A w \in Workflows : Unharmed(w)' => Unharmed(w)
  PROVE  ScheduleInv'
  <1>0. PICK v \in Workflows, i \in Int, s \in Triggers :
        /\ i \in 1..Len(TriggersOf[v]) /\ s \in Owned(v)
        /\ adm.pc = "register" /\ adm.then = "register" /\ adm.w = v /\ adm.i = i /\ s = TriggersOf[v][i]
        /\ adm'.pc = "register" /\ adm'.w = v /\ adm'.then = "register" /\ adm'.i = i + 1
        /\ \A w \in Workflows : wf'[w] = wf[w] \/ (w \in Blockable /\ w = v /\ wf'[w] = "enabled")
        /\ \A r \in Rows : r # Row[s] => rows'[r] = rows[r]
        /\ \/ s \notin Recurring /\ UNCHANGED <<rows, fired>>
           \/ rows'[Row[s]].status = "pending" /\ rows'[Row[s]].wf = v
    <2>1. adm.w \in Workflows /\ adm.i \in 1..Len(TriggersOf[adm.w]) /\ TriggersOf[adm.w][adm.i] \in Triggers
      BY AdmRegisterFacts
    <2>2. PICK v \in Workflows : v = adm.w
      BY <2>1
    <2>3. PICK i \in Int : i = adm.i
      BY <2>1
    <2>4. PICK s \in Triggers : s = TriggersOf[v][i]
      BY <2>1, <2>2, <2>3
    <2>. DEFINE Moved(w, k, x) ==
           /\ k \in 1..Len(TriggersOf[w]) /\ x \in Owned(w)
           /\ adm.pc = "register" /\ adm.then = "register" /\ adm.w = w /\ adm.i = k /\ x = TriggersOf[w][k]
           /\ adm'.pc = "register" /\ adm'.w = w /\ adm'.then = "register" /\ adm'.i = k + 1
           /\ \A u \in Workflows : wf'[u] = wf[u] \/ (u \in Blockable /\ u = w /\ wf'[u] = "enabled")
           /\ \A r \in Rows : r # Row[x] => rows'[r] = rows[r]
           /\ \/ x \notin Recurring /\ UNCHANGED <<rows, fired>>
              \/ rows'[Row[x]].status = "pending" /\ rows'[Row[x]].wf = w
    <2>5. Moved(adm.w, adm.i, TriggersOf[adm.w][adm.i])
      BY AdmRegisterFacts, Zenon
    <2>. HIDE DEF Moved
    <2>6. Moved(v, i, s)
      BY SMTT(60), <2>2, <2>3, <2>4, <2>5
    <2>. QED
      BY SMTT(60), <2>6 DEF Moved
  <1>1. UNCHANGED <<fire, boot>> /\ TypeOK
    BY DEF AdmRegister, ShapeInv
  <1>2. Written'
    BY <1>0 DEF ScheduleInv, Written
  <1>3. s \in Recurring => Scheduled(v, s)'
    BY <1>0 DEF Scheduled
  <1>4. ASSUME NEW t \in Owned(v), t \in Alone, t # s, Scheduled(v, t)
        PROVE  Scheduled(v, t)'
    <2>1. Row[t] \in Rows /\ t \in Triggers /\ Owned(v) \subseteq Triggers
      BY <1>0, <1>1, <1>4, RecurringFacts, OwnedFacts DEF Alone
    <2>2. Row[s] # Row[t]
      BY <1>0, <1>4, TriggerAssumption
    <2>3. rows'[Row[t]] = rows[Row[t]]
      BY <1>0, <2>1, <2>2
    <2>. QED
      BY <1>1, <1>4, <2>3 DEF Scheduled, InFlight
  <1>5. ASSUME NEW w \in Workflows \ Blockable, Unharmed(w)', w \notin boot', wf'[w] = "enabled", adm'.w # w
        PROVE  \A t \in Owned(w) \cap Alone : Scheduled(w, t)'
    <2>1. w # adm.w /\ \A t \in Owned(w) \cap Alone : Scheduled(w, t)
      BY <1>0, <1>1, <1>5 DEF ScheduleInv, KeptSo
    <2>. QED
      BY <2>1, AdminKeepsOthers
  <1>6. ASSUME v \notin Blockable, Unharmed(v)', NEW j \in 1..Len(TriggersOf[v]), j < i + 1,
               TriggersOf[v][j] \in Alone
        PROVE  Scheduled(v, TriggersOf[v][j])'
    <2>1. CASE TriggersOf[v][j] = s
      BY <1>3, <1>6, <2>1 DEF Alone
    <2>2. CASE TriggersOf[v][j] # s
      <3>1. j < i
        BY <1>0, <1>6, <2>2
      <3>2. Scheduled(v, TriggersOf[v][j]) /\ TriggersOf[v][j] \in Owned(v)
        BY <1>0, <1>6, <3>1, OwnedFacts DEF ScheduleInv, KeptSo
      <3>. QED
        BY <1>4, <1>6, <2>2, <3>2
    <2>. QED
      BY <2>1, <2>2
  <1>7. KeptSo'
    BY <1>0, <1>5, <1>6 DEF KeptSo
  <1>. QED
    BY SMTT(60), <1>2, <1>7 DEF ScheduleInv

\* When the last trigger is registered, all are scheduled.
LEMMA AdmEndSchedule ==
  ASSUME ShapeInv, ScheduleInv, AdmRegistered \/ AdmUndo \/ AdmFault,
         \A w \in Workflows : Unharmed(w)' => Unharmed(w),
         faults' > 0 => \A w \in Workflows : ~Unharmed(w)'
  PROVE  ScheduleInv'
  <1>0. /\ adm'.pc \in {"idle", "list", "undo"}
        /\ adm'.pc # "idle" => adm'.then = "undo"
        /\ AdmUndo \/ AdmFault => faults' > 0
        /\ UNCHANGED <<rows, fire, boot>>
    BY AdmEndFacts DEF AdmRegistered, AdmUndo, AdmFault, tables
  <1>1. Written'
    BY <1>0 DEF Written
  <1>2. CASE AdmUndo \/ AdmFault
    <2>1. KeptSo'
      BY <1>0, <1>2 DEF KeptSo
    <2>. QED
      BY <1>1, <2>1 DEF ScheduleInv
  <1>3. CASE AdmRegistered
    <2>1. /\ adm.pc = "register" /\ adm.w \in Workflows /\ adm'.pc = "idle" /\ wf' = wf
          /\ \A j \in 1..Len(TriggersOf[adm.w]) : j < adm.i
      BY <1>3, AdmEndFacts, IdleFacts
    <2>2. \A w, t : Scheduled(w, t)' <=> Scheduled(w, t)
      BY <1>0 DEF Scheduled, InFlight
    <2>3. ASSUME NEW w \in Workflows \ Blockable, Unharmed(w)', w \notin boot', wf'[w] = "enabled"
          PROVE  \A t \in Owned(w) \cap Alone : Scheduled(w, t)
      <3>1. CASE adm.w = w
        <4>1. \A j \in 1..Len(TriggersOf[w]) : TriggersOf[w][j] \in Alone => Scheduled(w, TriggersOf[w][j])
          BY <2>1, <2>3, <3>1 DEF ScheduleInv, KeptSo
        <4>. QED
          BY <4>1 DEF Owned
      <3>2. CASE adm.w # w
        BY <1>0, <2>1, <2>3, <3>2 DEF ScheduleInv, KeptSo
      <3>. QED
        BY <3>1, <3>2
    <2>4. KeptSo'
      BY <2>1, <2>2, <2>3 DEF KeptSo
    <2>. QED
      BY <1>1, <2>4 DEF ScheduleInv
  <1>. QED
    BY <1>2, <1>3

LEMMA ScheduleInit == ASSUME Init PROVE ScheduleInv
  <1>1. adm.pc = "idle" /\ adm.w = NoWorkflow /\ \A w \in Workflows : wf[w] = "absent"
    BY IdleFacts DEF Init
  <1>. QED
    BY <1>1, TriggerAssumption DEF ScheduleInv, Written, KeptSo

LEMMA ScheduleStep ==
  ASSUME ShapeInv, ShapeInv', ScheduleInv, [Next]_vars
  PROVE  ScheduleInv'
  <1>0. /\ \A w \in Workflows : Unharmed(w)' => Unharmed(w)
        /\ faults' > 0 => \A w \in Workflows : ~Unharmed(w)'
    BY UnharmedBack
  <1>1. CASE FireDue
    <2>1. UNCHANGED <<adm, boot>>
      BY Zenon, <1>1 DEF FireDue, FireList, FireClaim, FireGet, FireStart, FireReschedule, FireWaits, FireResume,
                  FireTicked
    <2>2. \A w \in Workflows : wf'[w] = wf[w] \/ (w \in Blockable /\ wf'[w] = "enabled")
      <3>1. CASE FireStart
        BY SMTT(60), <3>1, FireStartFacts
      <3>2. CASE ~FireStart
        BY Zenon, <1>1, <3>2 DEF FireDue, FireList, FireClaim, FireGet, FireReschedule, FireWaits, FireResume,
                          FireTicked, tables
      <3>. QED
        BY <3>1, <3>2
    <2>. QED
      BY SMTT(60), <1>0, <1>1, <2>1, <2>2, FireKeepsScheduled, ScheduleCalm
  <1>2. CASE FireFault
    <2>1. UNCHANGED <<adm, wf, boot>> /\ faults' > 0
      <3>1. UNCHANGED <<adm, wf, boot>> /\ AFault
        BY <1>2, Zenon DEF FireFault, tables
      <3>2. faults \in 0..MaxHarms
        BY DEF ShapeInv, TypeOK
      <3>. QED
        BY <3>1, <3>2, BoundAssumption DEF AFault
    <2>2. Written' /\ KeptSo'
      BY <1>0, <2>1 DEF ScheduleInv, Written, KeptSo
    <2>. QED
      BY <2>2 DEF ScheduleInv
  <1>3. CASE Crash
    <2>1. boot' = Files /\ adm'.pc = "idle" /\ adm'.w = NoWorkflow
      BY <1>3, IdleFacts DEF Crash
    <2>2. crashes' # 0
      BY <1>3, BoundAssumption DEF Crash, ShapeInv, TypeOK
    <2>3. \A w \in Workflows : Unharmed(w)' => w \in boot'
      BY <2>1, <2>2 DEF Unharmed
    <2>4. Written' /\ KeptSo'
      BY <2>1, <2>3, TriggerAssumption DEF Written, KeptSo
    <2>. QED
      BY <2>4 DEF ScheduleInv
  <1>4. CASE Admin \/ CallUser \/ AdmFault
    BY <1>0, <1>4, CallerSchedule, AdmPutSchedule, AdmCancelSchedule, AdmRegisterSchedule, AdmEndSchedule
         DEF Admin
  <1>5. CASE Advance \/ UNCHANGED vars
    <2>1. UNCHANGED <<adm, boot, wf, rows, fire>>
      BY <1>5 DEF Advance, vars, tables
    <2>2. \A w, t : Scheduled(w, t) => Scheduled(w, t)'
      BY <2>1 DEF Scheduled, InFlight
    <2>. QED
      BY <1>0, <2>1, <2>2, ScheduleCalm
  <1>6. ASSUME NEW g \in Ingests, IngestList(g) \/ IngestEvent(g) \/ IngestStartFails(g) \/ IngestFault(g)
        PROVE  ScheduleInv'
    <2>1. UNCHANGED <<adm, boot, rows, fire>>
      BY <1>6 DEF IngestList, IngestEvent, IngestCheck, IngestRecord, IngestStart, IngestRollback, IngestTouch,
                  IngestStartFails, IngestFault, tables
    <2>2. wf' = wf \/ \E w \in Blockable : wf' = [wf EXCEPT ![w] = "enabled"]
      BY <1>6 DEF IngestList, IngestEvent, IngestCheck, IngestRecord, IngestStart, IngestRollback, IngestTouch,
                  IngestStartFails, IngestFault, tables
    <2>3. \A w \in Workflows : wf'[w] = wf[w] \/ (w \in Blockable /\ wf'[w] = "enabled")
      BY <2>2 DEF ShapeInv, TypeOK
    <2>4. \A w, t : Scheduled(w, t) => Scheduled(w, t)'
      BY <2>1 DEF Scheduled, InFlight
    <2>. QED
      BY <1>0, <2>1, <2>3, <2>4, ScheduleCalm
  <1>. QED
    BY <1>1, <1>2, <1>3, <1>4, <1>5, <1>6 DEF Next

\* FireDue, EnableWorkflow, DisableWorkflow and DiscoverPipelines do not lose, between them,
\* the schedule of a trigger with a row of its own while its workflow is enabled, whenever
\* users call, whatever other triggers share, and across a crash for the workflows of the
\* pipeline directory.
THEOREM EnabledAlwaysScheduled == Spec => []EnabledStaysScheduled
  <1>1. Init => ScheduleInv
    BY ScheduleInit
  <1>2. ScheduleInv /\ ShapeInv /\ ShapeInv' /\ [Next]_vars => ScheduleInv'
    BY ScheduleStep
  <1>3. ShapeInv /\ ScheduleInv => EnabledStaysScheduled
    BY DEF ShapeInv, AdminOf, ScheduleInv, KeptSo, EnabledStaysScheduled, Settled, Alone
  <1>. QED
    BY <1>1, <1>2, <1>3, ShapeInvariance, PTL DEF Spec

-----------------------------------------------------------------------------
(* The next instant is the one the policy names.                           *)

LEMMA MulFacts ==
  ASSUME NEW p \in Nat \ {0}, NEW j \in Int, NEW k \in Int
  PROVE  /\ k * p \in Int /\ k * p = p * k /\ p * (j + 1) = p * j + p
         /\ j * p < k * p => j < k
         /\ j <= k => j * p <= k * p
         /\ j \in Nat => j * p \in Nat /\ j <= j * p
  OBVIOUS

\* The first occurrence that is not over.
LEMMA FirstFromLeast ==
  ASSUME NEW base \in Nat, NEW p \in Nat \ {0}, NEW n \in Nat
  PROVE  \E q \in Nat \ {0} :
            /\ FirstFrom(base, p, n) = base + q * p /\ FirstFrom(base, p, n) >= n
            /\ \A k \in Nat \ {0} : base + k * p >= n => q <= k
  <1>1. CASE base + p >= n
    <2>1. FirstFrom(base, p, n) = base + 1 * p
      BY <1>1 DEF FirstFrom
    <2>. QED
      BY <1>1, <2>1
  <1>2. CASE base + p < n
    <2>1. PICK q \in Nat : /\ q = (n - base + p - 1) \div p
                           /\ p * q <= n - base + p - 1 /\ n - base + p - 1 < p * q + p
      <3>1. n - base + p - 1 \in Nat
        BY <1>2
      <3>. QED
        BY <3>1, DivFacts
    <2>2. q * p \in Int /\ q * p = p * q
      BY MulFacts
    <2>3. FirstFrom(base, p, n) = base + q * p /\ base + q * p >= n
      BY <1>2, <2>1, <2>2 DEF FirstFrom
    <2>4. q # 0
      BY <1>2, <2>1, <2>2, <2>3
    <2>5. ASSUME NEW k \in Nat \ {0}, base + k * p >= n
          PROVE  q <= k
      <3>1. k * p \in Int /\ k * p = p * k /\ p * (k + 1) = p * k + p /\ (k + 1) * p = p * (k + 1)
        BY MulFacts
      <3>2. q * p < (k + 1) * p
        BY <2>1, <2>2, <2>5, <3>1
      <3>3. q < k + 1
        BY <3>2, MulFacts
      <3>. QED
        BY <3>3
    <2>. QED
      BY <2>3, <2>4, <2>5
  <1>. QED
    BY <1>1, <1>2

\* The first calendar match behind an instant.
LEMMA CronLeast ==
  ASSUME NEW p \in Nat \ {0}, NEW n \in Nat
  PROVE  \E q \in Nat : /\ CronNext(p, n) = q * p /\ CronNext(p, n) > n /\ q <= n + 1
                        /\ \A k \in Nat : k * p > n => q <= k
  <1>1. PICK d \in Nat : d = n \div p /\ p * d <= n /\ n < p * d + p
    BY DivFacts
  <1>2. d * p = p * d /\ (d + 1) * p = p * (d + 1) /\ p * (d + 1) = p * d + p /\ d <= d * p /\ d * p \in Nat
    BY MulFacts
  <1>3. CronNext(p, n) = (d + 1) * p /\ (d + 1) * p > n /\ d + 1 <= n + 1
    BY <1>1, <1>2 DEF CronNext
  <1>4. ASSUME NEW k \in Nat, k * p > n
        PROVE  d + 1 <= k
    <2>1. d * p < k * p
      BY <1>1, <1>2, <1>4, MulFacts
    <2>2. d < k
      BY <2>1, MulFacts
    <2>. QED
      BY <2>2
  <1>5. PICK q \in Nat : q = d + 1
    BY <1>1
  <1>6. CronNext(p, n) = q * p /\ q * p > n /\ q <= n + 1 /\ \A k \in Nat : k * p > n => q <= k
    BY <1>3, <1>4, <1>5
  <1>. QED
    BY <1>6

\* The next instant of a recurring trigger whose last one is not ahead is the one that its
\* policy names, for every period: skip takes the first occurrence that is not over, once the
\* present for all that were missed, all leaves out none.
THEOREM NextOccurrence ==
  ASSUME NEW p \in Nat \ {0}, NEW n \in Nat, NEW last \in Nat, last <= n
  PROVE  NamedBy(p, n, last)
  <1>. DEFINE Every == {last + k * p : k \in 1..(n + 1)}
              Calendar == {k * p : k \in 0..(n + last + 1)}
  <1>1. last # Never
    BY DEF Never
  <1>2. \A x \in Every : \E k \in 1..(n + 1) : x = last + k * p
    OBVIOUS
  <1>3. \A k \in 1..(n + 1) : last + k * p \in Every
    OBVIOUS
  <1>4. \A x \in Calendar : \E k \in 0..(n + last + 1) : x = k * p
    OBVIOUS
  <1>5. \A k \in 0..(n + last + 1) : k * p \in Calendar
    OBVIOUS
  <1>6. Every \in SUBSET Int /\ Calendar \in SUBSET Int
    BY MulFacts
  <1>. HIDE DEF Every, Calendar
  <1>7. NextFire("interval", p, n, last, "skip") =
            CHOOSE x \in {z \in Every : z >= n} : \A y \in {z \in Every : z >= n} : x <= y
    <2>. DEFINE v == FirstFrom(last, p, n)
                S == {z \in Every : z >= n}
    <2>1. NextFire("interval", p, n, last, "skip") = v
      BY <1>1 DEF NextFire
    <2>2. PICK q \in Nat \ {0} : /\ v = last + q * p /\ v >= n
                                 /\ \A k \in Nat \ {0} : last + k * p >= n => q <= k
      BY FirstFromLeast
    <2>3. q <= n + 1
      <3>1. n + 1 <= (n + 1) * p /\ (n + 1) * p \in Int
        BY MulFacts
      <3>2. last + (n + 1) * p >= n
        BY <3>1
      <3>. QED
        BY <2>2, <3>2
    <2>4. q \in 1..(n + 1)
      BY <2>3
    <2>5. v \in S
      BY <1>3, <2>2, <2>4
    <2>6. ASSUME NEW y \in S PROVE v <= y
      <3>1. PICK k \in 1..(n + 1) : y = last + k * p
        BY <1>2
      <3>2. q <= k
        BY <2>2, <2>6, <3>1
      <3>3. q * p <= k * p /\ q * p \in Int /\ k * p \in Int
        BY <3>2, MulFacts
      <3>. QED
        BY <2>2, <3>1, <3>3
    <2>7. S \in SUBSET Int
      BY <1>6
    <2>. HIDE DEF v, S
    <2>8. (CHOOSE x \in S : \A y \in S : x <= y) = v
      BY <2>5, <2>6, <2>7, LeastIs
    <2>. QED
      BY <2>1, <2>8 DEF S
  <1>8. /\ last + p \in Every /\ \A y \in Every : last + p <= y
        /\ (CHOOSE x \in Every : \A y \in Every : x <= y) = last + p
    <2>1. last + 1 * p \in Every /\ 1 * p = p
      BY <1>3
    <2>2. ASSUME NEW y \in Every PROVE last + p <= y
      <3>1. PICK k \in 1..(n + 1) : y = last + k * p
        BY <1>2
      <3>2. 1 * p <= k * p /\ k * p \in Int
        BY MulFacts
      <3>. QED
        BY <2>1, <3>1, <3>2
    <2>3. last + p \in Every
      BY <2>1
    <2>. QED
      BY <1>6, <2>2, <2>3, LeastIs
  <1>9. NextFire("interval", p, n, last, "all") = last + p
    BY <1>1 DEF NextFire
  <1>10. NextFire("interval", p, n, last, "once") = IF \E x \in Every : x < n THEN n ELSE last + p
    <2>1. NextFire("interval", p, n, last, "once") = IF last + p < n THEN n ELSE last + p
      BY <1>1 DEF NextFire
    <2>2. last + p < n <=> \E x \in Every : x < n
      BY <1>6, <1>8
    <2>. QED
      BY <2>1, <2>2
  <1>11. ASSUME NEW m \in Nat, m <= n
         PROVE  CronNext(p, m) = CHOOSE x \in {z \in Calendar : z > m} : \A y \in {z \in Calendar : z > m} : x <= y
    <2>. DEFINE S == {z \in Calendar : z > m}
    <2>1. PICK q \in Nat : /\ CronNext(p, m) = q * p /\ CronNext(p, m) > m /\ q <= m + 1
                           /\ \A k \in Nat : k * p > m => q <= k
      BY CronLeast
    <2>2. CronNext(p, m) \in S
      <3>1. q \in 0..(n + last + 1)
        BY <1>11, <2>1
      <3>. QED
        BY <1>5, <2>1, <3>1
    <2>3. ASSUME NEW y \in S PROVE CronNext(p, m) <= y
      <3>1. PICK k \in 0..(n + last + 1) : y = k * p
        BY <1>4
      <3>2. q <= k
        BY <2>1, <2>3, <3>1
      <3>. QED
        BY <2>1, <3>1, <3>2, MulFacts
    <2>4. S \in SUBSET Int
      BY <1>6
    <2>. HIDE DEF S
    <2>5. (CHOOSE x \in S : \A y \in S : x <= y) = CronNext(p, m)
      BY <2>2, <2>3, <2>4, LeastIs
    <2>. QED
      BY <2>5 DEF S
  <1>12. /\ \A policy \in {"skip", "once"} : NextFire("cron", p, n, last, policy) = CronNext(p, n)
         /\ NextFire("cron", p, n, last, "all") = CronNext(p, last)
    BY <1>1 DEF NextFire
  <1>. DEFINE Least(S) == CHOOSE x \in S : \A y \in S : x <= y
  <1>13. /\ NextFire("interval", p, n, last, "skip") = Least({x \in Every : x >= n})
         /\ NextFire("interval", p, n, last, "all") = Least(Every)
         /\ NextFire("interval", p, n, last, "once") = IF \E x \in Every : x < n THEN n ELSE Least(Every)
    BY <1>7, <1>8, <1>9, <1>10
  <1>14. /\ CronNext(p, n) = Least({x \in Calendar : x > n})
         /\ CronNext(p, last) = Least({x \in Calendar : x > last})
    BY <1>11
  <1>. QED
    BY <1>12, <1>13, <1>14, Zenon DEF NamedBy, Every, Calendar

\* At every instant of the clock the next instants are the ones the policies name.
THEOREM NextInstant == Spec => []NextFireSound
  <1>1. ShapeInv => NextFireSound
    <2>1. ShapeInv => now + 2 \in Nat
      BY BoundAssumption DEF ShapeInv, TypeOK
    <2>. QED
      BY <2>1, NextOccurrence DEF NextFireSound
  <1>. QED
    BY <1>1, ShapeInvariance, PTL

=============================================================================
