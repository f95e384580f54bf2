-------------------------- MODULE TriggerScheduler --------------------------
(***************************************************************************)
(* The trigger scheduler of application/automation/scheduler.go: what      *)
(* starts a workflow run.  A ticker goroutine calls FireDue, which claims  *)
(* due schedule rows, starts runs, puts the next occurrence back and then  *)
(* resumes waiting runs.  Every event is ingested by a goroutine of its    *)
(* own.  Users enable, disable and delete workflows meanwhile, and at boot *)
(* DiscoverPipelines enables every pipeline file before anything else      *)
(* runs.  All of them share the SQLite tables; an action is what one of    *)
(* them does with one statement.                                           *)
(*                                                                         *)
(* Definitions are fixed and valid.  Instants are whole minutes.           *)
(***************************************************************************)
EXTENDS Integers, Sequences, FiniteSets

CONSTANTS
    Workflows,      \* workflow ids
    Triggers,       \* all triggers of all workflows
    TriggersOf,     \* [Workflows -> Seq(Triggers)], in the order of the definition
    Kind,           \* [Triggers -> {"once", "interval", "cron", "event"}]
    Row,            \* [Triggers -> the id of the trigger's row in "schedules"]: the id of
                    \*   the trigger, its own only among the triggers of one workflow
    Period,         \* [Triggers -> minutes]: instant (once), interval, cron or debounce
    Missed,         \* [Workflows -> missed-run policy]
    Files,          \* workflows that come from the pipeline directory
    Blockable,      \* workflows using a capability whose provider may be disabled
    Events,         \* event ids; every event matches every event trigger
    Ingests,        \* goroutines that ingest events
    Waits,          \* ids of wait records, all parked before the model starts
    MaxTime,        \* bound on the clock
    MaxCalls,       \* bound on the calls of users
    MaxIngests,     \* bound on the events ingested, repetitions included
    MaxHarms,       \* bound on failing statements, failing starts and crashes together
    MaxOutside      \* bound on all of these together, a call counting twice

Rows == {Row[t] : t \in Triggers}
Policies == {"skip", "once", "all"}
Kinds == {"once", "interval", "cron", "event"}
Owned(w) == {TriggersOf[w][i] : i \in 1..Len(TriggersOf[w])}
EventTriggers == {t \in Triggers : Kind[t] = "event"}
Recurring == {t \in Triggers : Kind[t] \in {"interval", "cron"}}
Never == -1
NoWorkflow == "none"

ASSUME TriggerAssumption ==
    /\ TriggersOf \in [Workflows -> Seq(Triggers)]
    /\ \A t \in Triggers : \E w \in Workflows : t \in Owned(w)
    /\ \A v, w \in Workflows : v # w => Owned(v) \cap Owned(w) = {}
    /\ Kind \in [Triggers -> Kinds]
    /\ Row \in [Triggers -> Rows]
    /\ \A w \in Workflows : \A s, t \in Owned(w) : Row[s] = Row[t] => s = t
    /\ Period \in [Triggers -> Nat]
    /\ \A t \in Recurring : Period[t] > 0
    /\ Missed \in [Workflows -> Policies]
    /\ Files \subseteq Workflows /\ Blockable \subseteq Workflows
    /\ NoWorkflow \notin Workflows

ASSUME BoundAssumption ==
    /\ MaxTime \in Nat /\ MaxCalls \in Nat /\ MaxIngests \in Nat
    /\ MaxHarms \in Nat /\ MaxOutside \in Nat

Owner(t) == CHOOSE w \in Workflows : t \in Owned(w)

VARIABLES
    now,        \* the clock
    wf,         \* workflows table: absent, disabled or enabled
    rows,       \* schedules table
    delivered,  \* deliveries table: pairs of event and trigger
    cooled,     \* debounce table: when the trigger last fired
    waits,      \* waits table: pending or fired
    up,         \* false from process start until DiscoverPipelines returns
    boot,       \* pipeline files DiscoverPipelines has not reached
    fire,       \* the ticker goroutine inside FireDue
    adm,        \* the goroutine inside EnableWorkflow or DisableWorkflow
    ing,        \* the goroutines inside IngestEvent
    fired,      \* history: per time trigger the instants a run was created for,
                \*   of a recurring one since it was last registered
    runs,       \* history: per delivery key the number of runs created
    calls, ingests, faults, crashes

tables == <<wf, rows, delivered, cooled, waits>>
history == <<fired, runs>>
bounds == <<calls, ingests, crashes>>
vars == <<now, tables, up, boot, fire, adm, ing, history, faults, bounds>>

-----------------------------------------------------------------------------
(* NextFire.                                                               *)

\* The first calendar match, a multiple of p, strictly after an instant.
CronNext(p, after) == p * (after \div p + 1)

\* Mutant: an occurrence at the very instant is passed over.
FirstFromLate(base, p, n) ==
    IF base + p > n THEN base + p ELSE base + p * ((n - base) \div p + 1)

\* The first of base + p, base + 2p, ... that is not before n.
FirstFrom(base, p, n) ==
    IF base + p >= n THEN base + p ELSE base + p * ((n - base + p - 1) \div p)

\* The next instant of a trigger of that kind and period (instant, if once), seen
\* at n; last is Never when it has not fired, the result when there is none.
NextFire(kind, p, n, last, policy) ==
    LET base == IF last = Never THEN n ELSE last
        next == base + p
        from == IF last # Never /\ policy = "all" THEN last ELSE n
    IN  CASE kind = "once" -> IF n >= p /\ policy = "skip" THEN Never ELSE p
          [] kind = "cron" -> CronNext(p, from)
          [] kind = "interval" /\ policy = "skip" -> FirstFrom(base, p, n)
          [] kind = "interval" /\ policy = "once" -> IF next < n THEN n ELSE next
          [] OTHER -> next

-----------------------------------------------------------------------------
(* State.                                                                  *)

RowRec == [status : {"none", "pending", "fired", "cancelled"},
           wf : Workflows \cup {NoWorkflow}, at : Nat]
NoRow == [status |-> "none", wf |-> NoWorkflow, at |-> 0]

\* A row as Due returned it.
DueRec == [row : Rows, wf : Workflows, at : Nat]
NoRec == [row |-> NoWorkflow, wf |-> NoWorkflow, at |-> 0]

IdleFire == [pc |-> "idle", now |-> 0, due |-> {}, rec |-> NoRec, waits |-> {}]
IdleAdm == [pc |-> "idle", w |-> NoWorkflow, todo |-> {}, i |-> 1, then |-> "idle", now |-> 0]
IdleIng == [pc |-> "idle", e |-> NoWorkflow, todo |-> {}, t |-> NoWorkflow]

FireRec == [pc : {"idle", "loop", "get", "start", "resched", "waits", "tick"},
            now : Nat, due : SUBSET DueRec, rec : DueRec \cup {NoRec}, waits : SUBSET Waits]
AdmRec == [pc : {"idle", "put", "list", "cancel", "register", "undo"},
           w : Workflows \cup {NoWorkflow}, todo : SUBSET DueRec, i : Nat \ {0},
           then : {"idle", "register", "undo"}, now : Nat]
IngRec == [pc : {"idle", "check", "record", "start", "rollback", "touch"},
           e : Events \cup {NoWorkflow}, todo : SUBSET EventTriggers,
           t : EventTriggers \cup {NoWorkflow}]

TypeOK ==
    /\ now \in 0..MaxTime
    /\ wf \in [Workflows -> {"absent", "disabled", "enabled"}]
    /\ rows \in [Rows -> RowRec]
    /\ delivered \subseteq Events \X EventTriggers
    /\ cooled \in [EventTriggers -> Int]
    /\ waits \in [Waits -> {"pending", "fired"}]
    /\ up \in BOOLEAN /\ boot \subseteq Files
    /\ fire \in FireRec /\ adm \in AdmRec /\ ing \in [Ingests -> IngRec]
    /\ fired \in [Triggers \ EventTriggers -> Seq(Nat)]
    /\ runs \in [Events \X EventTriggers -> Nat]
    /\ calls \in 0..MaxCalls /\ ingests \in 0..MaxIngests
    /\ faults \in 0..MaxHarms /\ crashes \in 0..MaxHarms

Init ==
    /\ now = 0
    /\ wf = [w \in Workflows |-> "absent"]
    /\ rows = [r \in Rows |-> NoRow]
    /\ delivered = {}
    /\ cooled = [t \in EventTriggers |-> Never]
    /\ waits = [x \in Waits |-> "pending"]
    /\ up = FALSE /\ boot = Files
    /\ fire = IdleFire /\ adm = IdleAdm /\ ing = [g \in Ingests |-> IdleIng]
    /\ fired = [t \in Triggers \ EventTriggers |-> <<>>]
    /\ runs = [d \in Events \X EventTriggers |-> 0]
    /\ calls = 0 /\ ingests = 0 /\ faults = 0 /\ crashes = 0

Load == 2 * calls + ingests + faults + crashes
Harm == faults + crashes < MaxHarms /\ Load < MaxOutside
NoFault == faults' = faults
AFault == Harm /\ faults' = faults + 1

-----------------------------------------------------------------------------
(* EnableWorkflow and DisableWorkflow, at boot for every pipeline file.    *)

PendingOf(w) == {[row |-> r, wf |-> w, at |-> rows[r].at] :
                    r \in {x \in Rows : rows[x].status = "pending" /\ rows[x].wf = w}}

Enabling(w) == [IdleAdm EXCEPT !.pc = "put", !.w = w, !.then = "register"]
Disabling(w) == [IdleAdm EXCEPT !.pc = "put", !.w = w]

Discover ==
    /\ ~up /\ adm.pc = "idle"
    /\ \/ \E w \in boot : boot' = boot \ {w} /\ adm' = Enabling(w) /\ up' = up
       \/ boot = {} /\ up' = TRUE /\ UNCHANGED <<boot, adm>>
    /\ NoFault /\ UNCHANGED <<now, tables, fire, ing, history, bounds>>

\* A user saves, enables, disables or deletes a workflow.
CallUser ==
    /\ up /\ adm.pc = "idle" /\ calls < MaxCalls /\ Load + 2 <= MaxOutside
    /\ calls' = calls + 1
    /\ \E w \in Workflows :
          \/ adm' \in {Enabling(w), Disabling(w)} /\ wf' = wf
          \/ wf' = [wf EXCEPT ![w] = "absent"] /\ adm' = adm
    /\ NoFault
    /\ UNCHANGED <<now, rows, delivered, cooled, waits, up, boot, fire, ing, history,
                   ingests, crashes>>

AdmPut ==
    /\ adm.pc = "put"
    /\ wf' = [wf EXCEPT ![adm.w] = IF adm.then = "register" THEN "enabled" ELSE "disabled"]
    /\ adm' = [adm EXCEPT !.pc = "list", !.now = now]
    /\ NoFault
    /\ UNCHANGED <<now, rows, delivered, cooled, waits, up, boot, fire, ing, history, bounds>>

\* cancelWorkflowSchedules reads all rows, then writes the pending ones back.
AdmList ==
    /\ adm.pc = "list"
    /\ adm' = [adm EXCEPT !.pc = "cancel", !.todo = PendingOf(adm.w)]
    /\ NoFault /\ UNCHANGED <<now, tables, up, boot, fire, ing, history, bounds>>

AdmCancel ==
    /\ adm.pc = "cancel"
    /\ \/ \E d \in adm.todo :
            /\ rows' = [rows EXCEPT ![d.row] =
                            [status |-> "cancelled", wf |-> d.wf, at |-> d.at]]
            /\ adm' = [adm EXCEPT !.todo = @ \ {d}]
       \/ adm.todo = {} /\ rows' = rows
          /\ adm' = IF adm.then = "idle" THEN IdleAdm ELSE [adm EXCEPT !.pc = adm.then]
    /\ NoFault
    /\ UNCHANGED <<now, wf, delivered, cooled, waits, up, boot, fire, ing, history, bounds>>

\* The next trigger of the definition is registered.  An event trigger has no row;
\* if its provider is disabled, blockWorkflow writes the enabled workflow again.
AdmRegister ==
    /\ adm.pc = "register" /\ adm.i <= Len(TriggersOf[adm.w])
    /\ adm' = [adm EXCEPT !.i = @ + 1]
    /\ LET w == adm.w
           t == TriggersOf[w][adm.i]
           next == NextFire(Kind[t], Period[t], adm.now, Never, Missed[w])
       IN  \/ /\ Kind[t] = "event" /\ UNCHANGED <<rows, fired>>
              /\ \/ wf' = wf
                 \/ w \in Blockable /\ wf' = [wf EXCEPT ![w] = "enabled"]
           \/ /\ Kind[t] # "event" /\ next = Never /\ UNCHANGED <<wf, rows, fired>>
           \/ /\ Kind[t] # "event" /\ next # Never /\ wf' = wf
              /\ rows' = [rows EXCEPT ![Row[t]] = [status |-> "pending", wf |-> w, at |-> next]]
              /\ fired' = IF t \in Recurring THEN [fired EXCEPT ![t] = <<>>] ELSE fired
    /\ NoFault
    /\ UNCHANGED <<now, delivered, cooled, waits, up, boot, fire, ing, runs, bounds>>

AdmRegistered ==
    /\ adm.pc = "register" /\ adm.i > Len(TriggersOf[adm.w])
    /\ adm' = IdleAdm
    /\ NoFault /\ UNCHANGED <<now, tables, up, boot, fire, ing, history, bounds>>

AdmUndo ==
    /\ adm.pc = "undo"
    /\ wf' = [wf EXCEPT ![adm.w] = "disabled"] /\ adm' = IdleAdm
    /\ NoFault
    /\ UNCHANGED <<now, rows, delivered, cooled, waits, up, boot, fire, ing, history, bounds>>

\* An error of a statement: activationFailure cancels what was registered and
\* writes the workflow back disabled; its own errors do not stop it.
AdmFault ==
    /\ adm.pc # "idle" /\ AFault
    /\ adm' = CASE adm.pc \in {"list", "cancel", "register"} /\ adm.then = "register" ->
                      [adm EXCEPT !.pc = "list", !.then = "undo"]
                [] adm.pc \in {"list", "cancel"} /\ adm.then = "undo" -> [adm EXCEPT !.pc = "undo"]
                [] OTHER -> IdleAdm
    /\ UNCHANGED <<now, tables, up, boot, fire, ing, history, bounds>>

-----------------------------------------------------------------------------
(* FireDue and resumeWaits, on the ticker goroutine.                       *)

\* Mutant: a row is due only after its instant.
FireListLate ==
    /\ up /\ fire.pc = "idle"
    /\ fire' = [IdleFire EXCEPT !.pc = "loop", !.now = now,
                  !.due = {[row |-> r, wf |-> rows[r].wf, at |-> rows[r].at] :
                     r \in {x \in Rows : rows[x].status = "pending" /\ rows[x].at < now}}]
    /\ NoFault /\ UNCHANGED <<now, tables, up, boot, adm, ing, history, bounds>>

FireList ==
    /\ up /\ fire.pc = "idle"
    /\ fire' = [IdleFire EXCEPT !.pc = "loop", !.now = now,
                  !.due = {[row |-> r, wf |-> rows[r].wf, at |-> rows[r].at] :
                     r \in {x \in Rows : rows[x].status = "pending" /\ rows[x].at <= now}}]
    /\ NoFault /\ UNCHANGED <<now, tables, up, boot, adm, ing, history, bounds>>

\* Claim flips pending to fired and nothing else; Due sorted by instant.
FireClaim ==
    /\ fire.pc = "loop"
    /\ \E d \in fire.due :
          /\ \A o \in fire.due : d.at <= o.at
          /\ \/ /\ rows[d.row].status = "pending"
                /\ rows' = [rows EXCEPT ![d.row].status = "fired"]
                /\ fire' = [fire EXCEPT !.pc = "get", !.rec = d, !.due = @ \ {d}]
             \/ /\ rows[d.row].status # "pending" /\ rows' = rows
                /\ fire' = [fire EXCEPT !.due = @ \ {d}]
    /\ NoFault
    /\ UNCHANGED <<now, wf, delivered, cooled, waits, up, boot, adm, ing, history, bounds>>

\* A workflow that is gone is an error, which ends the pass.
FireGet ==
    /\ fire.pc = "get"
    /\ fire' = CASE wf[fire.rec.wf] = "absent"   -> IdleFire
                 [] wf[fire.rec.wf] = "disabled" -> [fire EXCEPT !.pc = "loop", !.rec = NoRec]
                 [] OTHER                        -> [fire EXCEPT !.pc = "start"]
    /\ NoFault /\ UNCHANGED <<now, tables, up, boot, adm, ing, history, bounds>>

\* The trigger a row of a workflow stands for.
TriggerOf(w, row) == CHOOSE t \in Owned(w) : Row[t] = row

\* startFromTrigger: a run is created; or the policy of the key drops it; or a
\* capability is blocked and blockWorkflow writes the workflow it was given.
FireStart ==
    /\ fire.pc = "start"
    /\ LET w == fire.rec.wf  t == TriggerOf(w, fire.rec.row)
       IN  \/ fired' = [fired EXCEPT ![t] = Append(@, fire.rec.at)] /\ wf' = wf
           \/ UNCHANGED <<fired, wf>>
           \/ w \in Blockable /\ wf' = [wf EXCEPT ![w] = "enabled"] /\ fired' = fired
    /\ fire' = [fire EXCEPT !.pc = "resched"]
    /\ NoFault
    /\ UNCHANGED <<now, rows, delivered, cooled, waits, up, boot, adm, ing, runs, bounds>>

\* Mutant: a dropped start is not put back.
FireRescheduleStarted ==
    /\ fire.pc = "resched"
    /\ LET w == fire.rec.wf  t == TriggerOf(w, fire.rec.row)
           next == NextFire(Kind[t], Period[t], fire.now, fire.rec.at, Missed[w])
       IN  rows' = IF Kind[t] = "once" \/ fired[t] = <<>> THEN rows ELSE
               [rows EXCEPT ![fire.rec.row] = [status |-> "pending", wf |-> w, at |-> next]]
    /\ fire' = [fire EXCEPT !.pc = "loop", !.rec = NoRec]
    /\ NoFault
    /\ UNCHANGED <<now, wf, delivered, cooled, waits, up, boot, adm, ing, history, bounds>>

\* Mutant: the row is put back as it was claimed.
FireRescheduleSame ==
    /\ fire.pc = "resched"
    /\ LET w == fire.rec.wf  t == TriggerOf(w, fire.rec.row)
       IN  rows' = IF Kind[t] = "once" THEN rows ELSE
               [rows EXCEPT ![fire.rec.row] = [status |-> "pending", wf |-> w, at |-> fire.rec.at]]
    /\ fire' = [fire EXCEPT !.pc = "loop", !.rec = NoRec]
    /\ NoFault
    /\ UNCHANGED <<now, wf, delivered, cooled, waits, up, boot, adm, ing, history, bounds>>

FireReschedule ==
    /\ fire.pc = "resched"
    /\ LET w == fire.rec.wf  t == TriggerOf(w, fire.rec.row)
           next == NextFire(Kind[t], Period[t], fire.now, fire.rec.at, Missed[w])
       IN  rows' = IF Kind[t] = "once" THEN rows ELSE
               [rows EXCEPT ![fire.rec.row] = [status |-> "pending", wf |-> w, at |-> next]]
    /\ fire' = [fire EXCEPT !.pc = "loop", !.rec = NoRec]
    /\ NoFault
    /\ UNCHANGED <<now, wf, delivered, cooled, waits, up, boot, adm, ing, history, bounds>>

FireWaits ==
    /\ fire.pc = "loop" /\ fire.due = {}
    /\ fire' = [fire EXCEPT !.pc = "waits", !.waits = {x \in Waits : waits[x] = "pending"}]
    /\ NoFault /\ UNCHANGED <<now, tables, up, boot, adm, ing, history, bounds>>

\* A claimed wait resumes its run on this goroutine, until the run ends or parks.
FireResume ==
    /\ fire.pc = "waits"
    /\ \/ \E x \in fire.waits :
            /\ waits' = [waits EXCEPT ![x] = "fired"]
            /\ fire' = [fire EXCEPT !.pc = "tick", !.waits = @ \ {x}]
       \/ fire.waits = {} /\ waits' = waits /\ fire' = IdleFire
    /\ NoFault
    /\ UNCHANGED <<now, wf, rows, delivered, cooled, up, boot, adm, ing, history, bounds>>

FireTicked ==
    /\ fire.pc = "tick"
    /\ fire' = [fire EXCEPT !.pc = "waits"]
    /\ NoFault /\ UNCHANGED <<now, tables, up, boot, adm, ing, history, bounds>>

\* Any error ends the pass; the claimed row stays fired, and the run may have
\* been created when its start failed.
FireFault ==
    /\ fire.pc # "idle" /\ AFault
    /\ \/ fired' = fired
       \/ /\ fire.pc = "start"
          /\ fired' = [fired EXCEPT ![TriggerOf(fire.rec.wf, fire.rec.row)] = Append(@, fire.rec.at)]
    /\ fire' = IdleFire
    /\ UNCHANGED <<now, tables, up, boot, adm, ing, runs, bounds>>

-----------------------------------------------------------------------------
(* IngestEvent, on a goroutine per event.                                  *)

\* Stores the event and reads the enabled workflows.
IngestList(g) ==
    /\ up /\ ing[g].pc = "idle"
    /\ ingests < MaxIngests /\ Load < MaxOutside /\ ingests' = ingests + 1
    /\ \E e \in Events :
          ing' = [ing EXCEPT ![g] = [pc |-> "check", e |-> e, t |-> NoWorkflow,
                    todo |-> {t \in EventTriggers : wf[Owner(t)] = "enabled"}]]
    /\ NoFault
    /\ UNCHANGED <<now, tables, up, boot, fire, adm, history, calls, crashes>>

Cooling(t) == Period[t] > 0 /\ cooled[t] # Never /\ now - cooled[t] < Period[t]

\* The debounce window, then the provider of the event.
IngestCheck(g) ==
    /\ ing[g].pc = "check"
    /\ \/ \E t \in ing[g].todo : LET w == Owner(t) IN
            \/ /\ ~Cooling(t) /\ wf' = wf
               /\ ing' = [ing EXCEPT ![g].pc = "record", ![g].t = t, ![g].todo = @ \ {t}]
            \/ /\ Cooling(t) \/ w \in Blockable
               /\ wf' = IF Cooling(t) THEN wf ELSE [wf EXCEPT ![w] = "enabled"]
               /\ ing' = [ing EXCEPT ![g].todo = @ \ {t}]
       \/ ing[g].todo = {} /\ wf' = wf /\ ing' = [ing EXCEPT ![g] = IdleIng]
    /\ NoFault
    /\ UNCHANGED <<now, rows, delivered, cooled, waits, up, boot, fire, adm, history, bounds>>

\* RecordDelivery inserts the key (event, trigger, workflow) or ignores it.
IngestRecord(g) ==
    /\ ing[g].pc = "record"
    /\ LET d == <<ing[g].e, ing[g].t>> IN
          /\ delivered' = delivered \cup {d}
          /\ ing' = [ing EXCEPT ![g].pc = IF d \in delivered THEN "check" ELSE "start"]
    /\ NoFault
    /\ UNCHANGED <<now, wf, rows, cooled, waits, up, boot, fire, adm, history, bounds>>

Created(g) == runs' = [runs EXCEPT ![<<ing[g].e, ing[g].t>>] = @ + 1]

IngestStart(g) ==
    /\ ing[g].pc = "start"
    /\ LET w == Owner(ing[g].t) IN
          \/ Created(g) /\ wf' = wf
          \/ UNCHANGED <<runs, wf>>
          \/ w \in Blockable /\ wf' = [wf EXCEPT ![w] = "enabled"] /\ runs' = runs
    /\ ing' = [ing EXCEPT ![g].pc = "touch"]
    /\ NoFault
    /\ UNCHANGED <<now, rows, delivered, cooled, waits, up, boot, fire, adm, fired, bounds>>

\* Mutant: every failed start is rolled back.
IngestStartRollsBack(g) ==
    /\ ing[g].pc = "start" /\ AFault
    /\ ing' = [ing EXCEPT ![g].pc = "rollback"]
    /\ \/ runs' = runs
       \/ Created(g)
    /\ UNCHANGED <<now, tables, up, boot, fire, adm, fired, bounds>>

\* A start that fails before the run was stored is rolled back; one that fails
\* after it (created) is not.
IngestStartFails(g) ==
    /\ ing[g].pc = "start" /\ AFault
    /\ \/ ing' = [ing EXCEPT ![g].pc = "rollback"] /\ runs' = runs
       \/ ing' = [ing EXCEPT ![g] = IdleIng] /\ Created(g)
    /\ UNCHANGED <<now, tables, up, boot, fire, adm, fired, bounds>>

IngestRollback(g) ==
    /\ ing[g].pc = "rollback"
    /\ delivered' = delivered \ {<<ing[g].e, ing[g].t>>}
    /\ ing' = [ing EXCEPT ![g] = IdleIng]
    /\ NoFault
    /\ UNCHANGED <<now, wf, rows, cooled, waits, up, boot, fire, adm, history, bounds>>

IngestTouch(g) ==
    /\ ing[g].pc = "touch"
    /\ cooled' = [cooled EXCEPT ![ing[g].t] = now]
    /\ ing' = [ing EXCEPT ![g].pc = "check"]
    /\ NoFault
    /\ UNCHANGED <<now, wf, rows, delivered, waits, up, boot, fire, adm, history, bounds>>

\* Any other error ends the ingestion, with the delivery left as it is.
IngestFault(g) ==
    /\ ing[g].pc \in {"check", "record", "rollback", "touch"} /\ AFault
    /\ ing' = [ing EXCEPT ![g] = IdleIng]
    /\ UNCHANGED <<now, tables, up, boot, fire, adm, history, bounds>>

-----------------------------------------------------------------------------
(* Environment.                                                            *)

Advance ==
    /\ now < MaxTime /\ now' = now + 1
    /\ NoFault /\ UNCHANGED <<tables, up, boot, fire, adm, ing, history, bounds>>

\* The process dies between two statements and starts again.
Crash ==
    /\ Harm /\ crashes' = crashes + 1
    /\ up' = FALSE /\ boot' = Files
    /\ fire' = IdleFire /\ adm' = IdleAdm /\ ing' = [g \in Ingests |-> IdleIng]
    /\ NoFault /\ UNCHANGED <<now, tables, history, calls, ingests>>

FireDue == FireList \/ FireClaim \/ FireGet \/ FireStart \/ FireReschedule \/ FireWaits
           \/ FireResume \/ FireTicked
Admin == Discover \/ AdmPut \/ AdmList \/ AdmCancel \/ AdmRegister \/ AdmRegistered
         \/ AdmUndo
IngestEvent(g) == IngestCheck(g) \/ IngestRecord(g) \/ IngestStart(g) \/ IngestRollback(g)
                  \/ IngestTouch(g)

Next ==
    \/ FireDue \/ FireFault
    \/ Admin \/ CallUser \/ AdmFault
    \/ \E g \in Ingests : IngestList(g) \/ IngestEvent(g) \/ IngestStartFails(g) \/ IngestFault(g)
    \/ Advance \/ Crash

Spec == Init /\ [][Next]_vars

\* The ticker and DiscoverPipelines keep running; the rest is free.
FairSpec == Spec /\ WF_vars(FireDue) /\ WF_vars(Admin)

-----------------------------------------------------------------------------
(* Properties.                                                             *)

\* IngestEvent creates at most one run per event, trigger and workflow, however
\* often the event arrives, whatever fails and wherever the process dies.
DeliveredOnce == \A d \in Events \X EventTriggers : runs[d] <= 1

\* From one registration to the next FireDue starts a recurring trigger at most
\* once per occurrence and never goes back to an earlier one, whatever missed-run
\* policy computes the next, whatever fails or dies in the middle of a pass, and
\* also where triggers of several workflows have the same row.
\* Excluded: a pass that is cut short while a user enables the workflow again.
OccurrenceOnce ==
    calls = 0 \/ faults + crashes = 0 =>
        \A t \in Recurring : \A i \in 1..(Len(fired[t]) - 1) : fired[t][i] < fired[t][i + 1]

\* The instant the missed-run policy names, where the trigger last fired at last: skip
\* takes the first occurrence that is not over, once takes the present for all that were
\* missed, all leaves out none.
NamedBy(p, n, last) ==
    LET Every == {last + k * p : k \in 1..(n + 1)}
        Calendar == {k * p : k \in 0..(n + last + 1)}
        Least(S) == CHOOSE x \in S : \A y \in S : x <= y
    IN  /\ NextFire("interval", p, n, last, "skip") = Least({x \in Every : x >= n})
        /\ NextFire("interval", p, n, last, "all") = Least(Every)
        /\ NextFire("interval", p, n, last, "once") =
               IF \E x \in Every : x < n THEN n ELSE Least(Every)
        /\ \A policy \in {"skip", "once"} :
               NextFire("cron", p, n, last, policy) = Least({x \in Calendar : x > n})
        /\ NextFire("cron", p, n, last, "all") = Least({x \in Calendar : x > last})

\* The next instant of a recurring trigger is a later occurrence, and the one its
\* missed-run policy names (NextFire, CronSpec.Next).
NextFireSound == \A p \in 1..2 : \A last \in 0..(now + 2) : NamedBy(p, now + 2, last)

InFlight(r) == fire.pc \in {"get", "start", "resched"} /\ fire.rec.row = r
Unharmed(w) == faults = 0 /\ (crashes = 0 \/ w \in Files)

\* The workflow is enabled and nobody is registering it or taking it back.
Settled(w) == up /\ wf[w] = "enabled" /\ adm.w # w /\ Unharmed(w)

\* No other time trigger has the row of t.
HasOwnRow(t) == \A s \in Triggers : Row[s] = Row[t] /\ Kind[s] # "event" => s = t

Scheduled(w, t) ==
    \/ rows[Row[t]].status = "pending" /\ rows[Row[t]].wf = w
    \/ InFlight(Row[t])

\* A recurring trigger of an enabled workflow has a pending row, or FireDue is
\* about to put one back: FireDue, EnableWorkflow and DisableWorkflow do not lose
\* it between them.  Excluded: failed statements, a crash for a workflow that is
\* not in the pipeline directory (FireDue claims before it reschedules),
\* workflows blockWorkflow may write back as enabled after they were disabled,
\* and triggers that share their row, as the first ones of two pipeline files do
\* (the YAML loader numbers the triggers of every file from trg_1) and all those
\* of the schedule tools (t1): see EnabledIsScheduled.
EnabledStaysScheduled ==
    \A w \in Workflows \ Blockable :
        Settled(w) => \A t \in Owned(w) \cap Recurring : HasOwnRow(t) => Scheduled(w, t)

\* "Creating a schedule through a dispatcher persists it" (docs/design/
\* automation-engine.md): the same of every recurring trigger.  EnableWorkflow
\* writes a row whose id is the trigger's, also over the row of another workflow, so
\* that this claim fails where two have the same.
EnabledIsScheduled ==
    \A w \in Workflows \ Blockable :
        Settled(w) => \A t \in Owned(w) \cap Recurring : Scheduled(w, t)

\* Every due row and every wait is served, although a pass ends at its first
\* error and resumes runs on the ticker's own goroutine.
DueServed ==
    /\ \A r \in {Row[t] : t \in Triggers \ EventTriggers} :
          (rows[r].status = "pending" /\ rows[r].at <= now)
              ~> (rows[r].status # "pending" \/ rows[r].at > now)
    /\ \A x \in Waits : waits[x] = "pending" ~> waits[x] = "fired"
=============================================================================
