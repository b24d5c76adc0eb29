----------------------------- MODULE AgentRuns -----------------------------
(***************************************************************************)
(* The runs of one agent (app/jobs/handlers/agent_workflow.py) and the     *)
(* memory they share (app/core/agent_memory.py).                           *)
(*                                                                         *)
(* A run asks a planner for steps, drops those the memory says to avoid,   *)
(* executes the rest, and goes round again, at most MaxIterations times;   *)
(* at its end it reads the memory, adds its outcome and writes it back.    *)
(* The memory is one row in Redis, and every process keeps a copy of the   *)
(* last row it wrote, which it uses when Redis has none.  An operator may  *)
(* reset the memory through the API and approve sensitive commands.        *)
(*                                                                         *)
(* The planner is the language model: it may propose anything, see the     *)
(* final message as reached, or fail.  A run that is retried is a new run  *)
(* here.  Accounts, servers and command prefixes are taken as present: a   *)
(* step that lacks one is asked for exactly as a sensitive command is.     *)
(***************************************************************************)
EXTENDS Naturals, Sequences, FiniteSets, SequencesExt

CONSTANTS
    Slots,            \* worker slots
    Processes,        \* processes that keep a copy of the memory
    Api,              \* the one of them that serves the operator
    ProcessOf,        \* the process of each slot
    Steps,            \* action steps the planner may propose
    Rebased,          \* those whose base URL has a path of its own
    Sensitive,        \* those that are sensitive commands
    Plans,            \* the sequences of steps the planner may propose
    MustAsk,          \* require_approval_for_missing of each slot's job
    MaxIterations,    \* iterasi_maks, 5 in the code
    MaxSteps,         \* MAX_STEPS, 5 in the code
    AvoidAt,          \* failures from which a signature is avoided, 2
    Note,             \* a step that only carries a text
    None,             \* no row, no copy
    MaxRuns,          \* bounds: runs started,
    MaxResets,        \*   resets by the operator,
    MaxMishaps        \*   commands Redis refuses and processes that die

ASSUME AgentAssumption ==
    /\ Api \in Processes /\ ProcessOf \in [Slots -> Processes]
    /\ Rebased \subseteq Steps /\ Sensitive \subseteq Steps
    /\ Rebased \cap Sensitive = {}
    /\ Note \notin Steps
    /\ Plans \subseteq Seq(Steps)
    /\ MustAsk \in [Slots -> BOOLEAN]
    /\ MaxIterations \in Nat \ {0} /\ MaxSteps \in Nat \ {0}
    /\ AvoidAt \in Nat \ {0}
    /\ MaxRuns \in Nat /\ MaxResets \in Nat /\ MaxMishaps \in Nat

VARIABLES
    row,        \* agent:memory:<agent>, or None
    copy,       \* _fallback_agent_memory of each process
    run,        \* what each slot is doing
    asked,      \* sensitive commands an approval was requested for
    approved,   \* those an operator approved
    issued,     \* number of runs started
    deleting,   \* reset_agent_memory has deleted the row, not yet its copy
    resets,
    faults, restarts,   \* refused commands and dead processes so far
    executed,   \* history: steps that really ran
    overtaken   \* history: whether a run was recorded since the slot read it

agentVars == <<row, copy, run, asked, approved, issued, deleting, resets,
               faults, restarts, executed, overtaken>>

-----------------------------------------------------------------------------
(* Signatures and the memory *)

(* The signature of a proposed step is made of the path it names, the one  *)
(* of its result of the path of the URL that was called: they differ when  *)
(* the base URL has a path, as those of openai and notion have.            *)
PlanSignature(step) == <<step, "path">>

ResultSignature(step) ==
    <<step, IF step \in Rebased THEN "base and path" ELSE "path">>

Signatures == {PlanSignature(s) : s \in Steps} \cup
              {ResultSignature(s) : s \in Steps}

(* runs is run_history and score is failure_signatures; streak is not in   *)
(* the code: for each step, how often it failed since it last succeeded.   *)
DefaultMemory ==
    [runs   |-> {},
     score  |-> [g \in Signatures |-> 0],
     streak |-> [s \in Steps |-> 0]]

(* Mutant: A signature is avoided only above the limit.                    *)
Avoided_Late(memory) ==
    {g \in Signatures : memory.score[g] > AvoidAt}

Avoided(memory) == {g \in Signatures : memory.score[g] >= AvoidAt}

AddResult(memory, result) ==
    LET g == ResultSignature(result.step)
    IN  IF result.success
        THEN [memory EXCEPT !.score[g] = IF @ > 0 THEN @ - 1 ELSE 0,
                            !.streak[result.step] = 0]
        ELSE [memory EXCEPT !.score[g] = @ + 1,
                            !.streak[result.step] = IF @ < AvoidAt THEN @ + 1
                                                    ELSE @]

Recorded(memory, id, results) ==
    LET scored == FoldLeft(AddResult, memory, results)
    IN  [scored EXCEPT !.runs = @ \cup {id}]

(* get_agent_memory in process p: the row, else the copy, else an empty    *)
(* memory; refused says that Redis does not answer.                        *)
Loaded(p, refused) ==
    IF row # None /\ ~refused THEN row
    ELSE IF copy[p] # None THEN copy[p]
    ELSE DefaultMemory

(* A command either succeeds or is refused; mishaps are bounded.           *)
Command(refused) ==
    /\ refused => faults + restarts < MaxMishaps
    /\ faults' = IF refused THEN faults + 1 ELSE faults

-----------------------------------------------------------------------------
(* Plans *)

(* Mutant: The plan is not cut after MaxSteps steps.                       *)
Sanitised_Untrimmed(plan) == IF plan = <<>> THEN <<Note>> ELSE plan

(* _sanitasi_rencana: a plan without a valid step becomes a note.          *)
Sanitised(plan) ==
    IF plan = <<>> THEN <<Note>>
    ELSE SubSeq(plan, 1, Min({Len(plan), MaxSteps}))

(* The steps that a signature to avoid does not exclude.                   *)
Allowed(avoid) == {Note} \cup {s \in Steps : PlanSignature(s) \notin avoid}
Kept(plan, steps) ==
    FoldLeft(LAMBDA kept, step : IF step \in steps THEN Append(kept, step)
                                                   ELSE kept, <<>>, plan)

(* Mutant: The guardrail leaves an empty plan.                             *)
Guarded_Empty(plan, avoid) == Kept(plan, Allowed(avoid))

(* _terapkan_guardrail_memori *)
Guarded(plan, avoid) ==
    LET kept == Kept(plan, Allowed(avoid))
    IN  IF kept = <<>> THEN <<Note>> ELSE kept

(* _kumpulkan_request_izin_dari_rencana *)
Requests(plan, known) == (Range(plan) \cap Sensitive) \ known
-----------------------------------------------------------------------------
(* Runs *)

Phases == {"idle", "plan", "act", "conclude", "save"}

Idle ==
    [phase |-> "idle", id |-> 0, ask |-> FALSE, known |-> {}, iteration |-> 0,
     avoid |-> {}, streaky |-> {}, todo |-> <<>>, results |-> <<>>,
     ending |-> "none", memory |-> None]

(* The context a run takes from a memory; streaky is its counterpart in    *)
(* the history: the steps whose last AvoidAt executions failed.            *)
WithContext(r, memory) ==
    [r EXCEPT !.avoid = Avoided(memory),
              !.streaky = {s \in Steps : memory.streak[s] >= AvoidAt}]

Init ==
    /\ row = None
    /\ copy = [p \in Processes |-> None]
    /\ run = [s \in Slots |-> Idle]
    /\ asked = {} /\ approved = {}
    /\ issued = 0
    /\ deleting = FALSE
    /\ resets = 0 /\ faults = 0 /\ restarts = 0
    /\ executed = {}
    /\ overtaken = [s \in Slots |-> FALSE]

(* The head of run(): the memory is loaded and the approved commands are   *)
(* listed.  A run without a key for the planner, or that asks for command  *)
(* prefixes outside the allowlist, ends at once; one without a prompt or   *)
(* an HTTP tool ends before it touches the memory and is left out.         *)
Begin(s) ==
    /\ run[s].phase = "idle"
    /\ issued < MaxRuns
    /\ issued' = issued + 1
    /\ \E refused, ready \in BOOLEAN :
        /\ Command(refused)
        /\ run' = [run EXCEPT ![s] =
               WithContext([Idle EXCEPT !.phase = IF ready THEN "plan"
                                                  ELSE "conclude",
                                        !.ending = IF ready THEN "none"
                                                   ELSE "refused",
                                        !.id = issued', !.ask = MustAsk[s],
                                        !.known = approved],
                           Loaded(ProcessOf[s], refused))]
    /\ UNCHANGED <<row, copy, asked, approved, deleting, resets, restarts,
                   executed, overtaken>>

(* The planner fails: fatal if nothing was executed yet.                   *)
PlannerFails(s) ==
    /\ run[s].phase = "plan"
    /\ run' = [run EXCEPT ![s].phase = "conclude",
                          ![s].ending = IF run[s].results = <<>>
                                        THEN "no plan" ELSE "message"]
    /\ UNCHANGED <<row, copy, asked, approved, issued, deleting, resets,
                   faults, restarts, executed, overtaken>>

(* The planner has a final message; the steps beside it are not executed.  *)
PlannerFinishes(s) ==
    /\ run[s].phase = "plan"
    /\ run' = [run EXCEPT ![s].phase = "conclude", ![s].ending = "message"]
    /\ UNCHANGED <<row, copy, asked, approved, issued, deleting, resets,
                   faults, restarts, executed, overtaken>>

(* Mutant: An iteration that executes nothing does not count.              *)
Iterated_ActionsOnly(r, steps) ==
    IF Range(steps) \cap Steps = {} THEN r.iteration ELSE r.iteration + 1

(* iterasi_sekarang: every round counts, whatever it does.                 *)
Iterated(r, steps) == r.iteration + 1

(* The planner proposes steps.  Those avoided are dropped; no step at all  *)
(* ends the run; a step that needs an approval ends it with a request,     *)
(* unless the job goes without asking.                                     *)
Plan(s) ==
    /\ run[s].phase = "plan"
    /\ \E plan \in Plans :
        LET steps    == Guarded(Sanitised(plan), run[s].avoid)
            requests == Requests(steps, run[s].known)
            asks     == requests # {} /\ run[s].ask
            round    == Iterated(run[s], steps)
        IN  \/ /\ steps = <<>> \/ asks
               /\ asked' = asked \cup requests
               /\ run' = [run EXCEPT ![s].phase = "conclude",
                                     ![s].ending = IF asks THEN "asked"
                                         ELSE IF round < MaxIterations
                                         THEN "none" ELSE "message"]
            \/ /\ steps # <<>> /\ ~asks
               /\ run' = [run EXCEPT ![s].phase = "act", ![s].todo = steps,
                                     ![s].iteration = round]
               /\ UNCHANGED asked
    /\ UNCHANGED <<row, copy, approved, issued, deleting, resets, faults,
                   restarts, executed, overtaken>>

(* Mutant: The tool ignores the approvals if the job goes without asking.  *)
Permitted_WithoutAsking(r, step) ==
    (step \in Sensitive /\ r.ask) => step \in r.known

(* The command tool runs a sensitive command only if the run knew it to be *)
(* approved.                                                               *)
Permitted(r, step) == step \in Sensitive => step \in r.known

(* One step of the plan.  A step that fails ends the plan.                 *)
Act(s) ==
    /\ run[s].phase = "act"
    /\ run[s].todo # <<>>
    /\ LET step == Head(run[s].todo)
       IN  \/ /\ step = Note
              /\ run' = [run EXCEPT ![s].todo = Tail(@)]
              /\ UNCHANGED executed
           \/ /\ step # Note
              /\ \E success \in BOOLEAN :
                  /\ success => Permitted(run[s], step)
                  /\ run' = [run EXCEPT
                        ![s].results = Append(@, [step    |-> step,
                                                  success |-> success]),
                        ![s].todo = IF success THEN Tail(@) ELSE <<>>]
              /\ executed' = IF Permitted(run[s], step)
                             THEN executed \cup {step} ELSE executed
    /\ UNCHANGED <<row, copy, asked, approved, issued, deleting, resets,
                   faults, restarts, overtaken>>

(* _muat_konteks_memori_terbaru at the end of an iteration                 *)
Refresh(s) ==
    /\ run[s].phase = "act"
    /\ run[s].todo = <<>>
    /\ \E refused \in BOOLEAN :
        /\ Command(refused)
        /\ run' = [run EXCEPT ![s] =
               WithContext([@ EXCEPT
                   !.phase = IF run[s].iteration < MaxIterations
                             THEN "plan" ELSE "conclude",
                   !.ending = IF run[s].iteration < MaxIterations
                              THEN "none" ELSE "message"],
                           Loaded(ProcessOf[s], refused))]
    /\ UNCHANGED <<row, copy, asked, approved, issued, deleting, resets,
                   restarts, executed, overtaken>>

(* Mutant: The outcome is added to the copy of the process.                *)
MemoryToRecord_FromCopy(s, refused) == Loaded(ProcessOf[s], TRUE)

(* The memory an outcome is added to: the one there is now.                *)
MemoryToRecord(s, refused) == Loaded(ProcessOf[s], refused)

(* record_agent_workflow_outcome reads the memory ...                      *)
ReadMemory(s) ==
    /\ run[s].phase = "conclude"
    /\ \E refused \in BOOLEAN :
        /\ Command(refused)
        /\ run' = [run EXCEPT ![s].phase = "save",
                              ![s].memory = MemoryToRecord(s, refused)]
    /\ overtaken' = [overtaken EXCEPT ![s] = FALSE]
    /\ UNCHANGED <<row, copy, asked, approved, issued, deleting, resets,
                   restarts, executed>>

(* ... and writes it back with the outcome; what was written in between is *)
(* overwritten.  The process keeps a copy, whether Redis took it or not.   *)
(* The set agent:memory:all, which serves only the list, is left out.      *)
SaveMemory(s) ==
    /\ run[s].phase = "save"
    /\ LET memory == Recorded(run[s].memory, run[s].id, run[s].results)
       IN  /\ \E refused \in BOOLEAN :
               /\ Command(refused)
               /\ row' = IF refused THEN row ELSE memory
           /\ copy' = [copy EXCEPT ![ProcessOf[s]] = memory]
    /\ run' = [run EXCEPT ![s] = Idle]
    /\ overtaken' = [t \in Slots |-> TRUE]
    /\ UNCHANGED <<asked, approved, issued, deleting, resets, restarts,
                   executed>>

(* The handler's time is up, or a tool raises: the run ends unrecorded.    *)
TimeOut(s) ==
    /\ run[s].phase # "idle"
    /\ run' = [run EXCEPT ![s] = Idle]
    /\ UNCHANGED <<row, copy, asked, approved, issued, deleting, resets,
                   faults, restarts, executed, overtaken>>

SlotStep(s) ==
    \/ PlannerFails(s) \/ PlannerFinishes(s) \/ Plan(s) \/ Act(s)
    \/ Refresh(s) \/ ReadMemory(s) \/ SaveMemory(s)

-----------------------------------------------------------------------------
(* The operator, and processes that die *)

Approve ==
    /\ \E c \in asked \ approved : approved' = approved \cup {c}
    /\ UNCHANGED <<row, copy, run, asked, issued, deleting, resets, faults,
                   restarts, executed, overtaken>>

(* reset_agent_memory deletes the row ...                                  *)
DeleteRow ==
    /\ ~deleting
    /\ resets < MaxResets
    /\ resets' = resets + 1
    /\ deleting' = TRUE
    /\ \E refused \in BOOLEAN :
        /\ Command(refused)
        /\ row' = IF refused THEN row ELSE None
    /\ UNCHANGED <<copy, run, asked, approved, issued, restarts, executed,
                   overtaken>>

(* ... and then the copy of its own process.                               *)
DropCopy ==
    /\ deleting
    /\ deleting' = FALSE
    /\ copy' = [copy EXCEPT ![Api] = None]
    /\ UNCHANGED <<row, run, asked, approved, issued, resets, faults, restarts,
                   executed, overtaken>>

(* A process dies with its copy and its runs, and is started again.        *)
Restart(p) ==
    /\ faults + restarts < MaxMishaps
    /\ restarts' = restarts + 1
    /\ copy' = [copy EXCEPT ![p] = None]
    /\ run' = [s \in Slots |-> IF ProcessOf[s] = p THEN Idle ELSE run[s]]
    /\ deleting' = IF p = Api THEN FALSE ELSE deleting
    /\ UNCHANGED <<row, asked, approved, issued, resets, faults, executed,
                   overtaken>>

Next ==
    \/ \E s \in Slots : Begin(s) \/ SlotStep(s) \/ TimeOut(s)
    \/ Approve \/ DeleteRow \/ DropCopy
    \/ \E p \in Processes : Restart(p)

Spec == Init /\ [][Next]_agentVars

(* A slot goes on with its run: the planner and the tools have timeouts.   *)
FairSpec == Spec /\ \A s \in Slots : WF_agentVars(SlotStep(s))
-----------------------------------------------------------------------------
(* Properties *)

(* Types, the bound on iterations and on results.                          *)
Memories(m) ==
    /\ m.runs \subseteq 1..issued
    /\ m.score \in [Signatures -> 0..(MaxRuns * MaxIterations * MaxSteps)]
    /\ m.streak \in [Steps -> 0..AvoidAt]

TypeOK ==
    /\ row # None => Memories(row)
    /\ \A p \in Processes : copy[p] # None => Memories(copy[p])
    /\ \A s \in Slots :
        /\ run[s].phase \in Phases
        /\ run[s].iteration \in 0..MaxIterations
        /\ Len(run[s].results) <= run[s].iteration * MaxSteps
        /\ Range(run[s].todo) \subseteq Steps \cup {Note}
        /\ run[s].memory # None => Memories(run[s].memory)
    /\ approved \subseteq asked /\ asked \subseteq Sensitive
    /\ issued \in 0..MaxRuns /\ deleting \in BOOLEAN

(* A step whose last AvoidAt recorded executions failed is not executed    *)
(* again by a run that has read so: what _signature_from_step_result makes *)
(* of a result must be what _terapkan_guardrail_memori looks for, the      *)
(* score must not fall below the failures since the last success, and the  *)
(* context must be read again in every iteration.                          *)
NotRepeated(steps) ==
    \A s \in Slots :
        run[s].phase = "act" =>
            Range(run[s].todo) \cap run[s].streaky \cap steps = {}

(* It holds of the steps whose base URL has no path of its own, ...        *)
GuardrailHolds == NotRepeated(Steps \ Rebased)

(* ... and is claimed of all: docs/AGENT_CANNOT_SOLVE.md:97, "Agent TIDAK  *)
(* BOLEH mengulang pattern yang sudah gagal" (the agent must not repeat a  *)
(* pattern that has failed).                                               *)
NoPatternRepeated == NotRepeated(Steps)

(* The memory loses outcomes by a write only if another run had read and   *)
(* written it since it was read (record_agent_workflow_outcome reads,      *)
(* changes and writes), unless Redis refused a command.                    *)
OutcomesKept ==
    [][(row # None /\ row' # None /\ row' # row /\ faults = 0) =>
          \E s \in Slots :
              /\ run[s].phase = "save" /\ run'[s].phase = "idle"
              /\ ~overtaken[s] => row.runs \subseteq row'.runs]_agentVars

(* A run that stops has a reason to give: a request, an error, or a final  *)
(* message.  The loop has a break for a plan without steps that sets none, *)
(* so neither _sanitasi_rencana nor the guardrail may empty a plan.        *)
ConcludesWithReason ==
    \A s \in Slots : run[s].phase \in {"conclude", "save"} =>
                         run[s].ending # "none"

(* The guardrail keeps failed steps out of a plan and empties none.        *)
GuardedPlans == TypeOK /\ GuardrailHolds /\ ConcludesWithReason

(* A sensitive command runs only if an operator has approved it, whether   *)
(* or not the job asks, and although the list of approved commands is read *)
(* once at the start of a run.                                             *)
OnlyApproved == executed \cap Sensitive \subseteq approved

(* Every run comes to its end.                                             *)
RunsConclude ==
    \A s \in Slots : run[s].phase # "idle" ~> run[s].phase = "idle"
=============================================================================
