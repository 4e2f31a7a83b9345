------------------------------ MODULE Scheduler ------------------------------
(***************************************************************************)
(* The task scheduler of the 64-bit kernel (scheduler.zig), the timer      *)
(* interrupt that calls it, the fast system call path (isr64.S and         *)
(* zig_syscall_handler in hal.zig) and the exception path that kills a     *)
(* faulting user task, on one CPU.                                         *)
(*                                                                         *)
(* Task 0 is kernel_main.  A kernel stack top is modelled by the task it   *)
(* belongs to, a stack pointer by the stack it points into, a saved frame  *)
(* by whose context it is and the stack it lies on, and a page-table root  *)
(* by the task it belongs to, 0 being the kernel's.  Interrupts can come   *)
(* between any two steps except between syscall_entry and the sti of its   *)
(* handler.  A context that faults in ring 0, is resumed from a frame that *)
(* was never built or no longer stands, or pushes onto a stack its page    *)
(* tables do not map, stops the machine: nothing is on the CPU from then   *)
(* on.                                                                     *)
(***************************************************************************)
EXTENDS Integers, FiniteSets

CONSTANTS
  MAX_TASKS,
  TimerCallbackRegistered  \* does anything assign hal.timerTickCallback?

ASSUME TasksAssumption == MAX_TASKS \in Nat \ {0, 1}
ASSUME CallbackAssumption == TimerCallbackRegistered \in BOOLEAN

Task == 0 .. MAX_TASKS - 1
NoTask == -1    \* a TSS.rsp0 that was never set
Nobody == -1    \* the CPU after it loaded an rsp that was never set
Halted == -2    \* the CPU in the cli; hlt loop of a kernel fault
Astray == -3    \* the CPU after it lost its stack or loaded a frame written over

\* Every task has a kernel stack in its slot (that of task 0 is the boot stack, which
\* the linker script places around 0x10b000) and a ring 3 task one in its own memory.
Stack == [kind : {"kernel", "user"}, of : Task]
Kernel(t) == [kind |-> "kernel", of |-> t]
User(t) == [kind |-> "user", of |-> t]
NoStack == [kind |-> "none", of |-> NoTask]
Frame == [of : Task, on : Stack]
NoFrame == [of |-> NoTask, on |-> NoStack]  \* an rsp that was never set

VARIABLES
  task_count, current_task_id,
  state, privilege, rsp, cr3,                  \* the fields of tasks[]
  current_kernel_stack, tss_rsp0, current_cr3, \* what schedule sets for the task
  user_rsp,                                    \* the one word syscall_entry saves to
  running,    \* whose context the CPU executes
  pc,         \* where each context stands
  ustack,     \* the stack each context runs on in ring 3
  creating,   \* [id, stage] of a createTask in progress in kernel_main, or NotCreating
  smashed,    \* history: kernel stacks onto which something was pushed from a place
              \* other than the end of the frames they hold
  overwritten, \* tasks whose saved frame has been written over
  waited      \* history: switches to others since the task could have run

slots == <<task_count, state, privilege, rsp, cr3>>
cpu   == <<current_task_id, current_kernel_stack, tss_rsp0, current_cr3>>
vars  == <<slots, cpu, user_rsp, running, pc, ustack, creating, smashed, overwritten, waited>>

NotCreating == [id |-> 0, stage |-> "none"]

Ring3 == {"user"}
InSyscall == {"entry", "handler", "sysret", "returning"}
Places == Ring3 \cup InSyscall \cup
          {"main", "kernel", "exit_spin", "idle_after_fault", "unborn"}

------------------------------------------------------------------------------

\* scheduler.init, at the end of boot: tasks[] is zeroed memory beyond slot 0, which
\* reads as Ready, Kernel, no frame, no page tables of its own.
Init ==
  /\ task_count = 1
  /\ current_task_id = 0
  /\ state = [t \in Task |-> IF t = 0 THEN "Running" ELSE "Ready"]
  /\ privilege = [t \in Task |-> "Kernel"]
  /\ rsp = [t \in Task |-> NoFrame]
  /\ cr3 = [t \in Task |-> 0]
  /\ current_kernel_stack = 0
  /\ tss_rsp0 = NoTask
  /\ current_cr3 = 0
  /\ user_rsp = NoStack
  /\ running = 0
  /\ pc = [t \in Task |-> IF t = 0 THEN "main" ELSE "unborn"]
  /\ ustack = [t \in Task |-> User(t)]
  /\ creating = NotCreating
  /\ smashed = {}
  /\ overwritten = {}
  /\ waited = [t \in Task |-> 0]

\* createTask and createUserTask: the slot counts before it is filled, and is Ready
\* before its frame is built and its rsp points to it.

\* Definitions named Faulty... are not the code's: each is a plausible mistake in the
\* definition after it, put in its place to see that a property notices.

FaultyCreateReserve ==  \* no error.OutOfTasks
  /\ running = 0 /\ creating = NotCreating
  /\ creating' = [id |-> task_count, stage |-> "fill"]
  /\ task_count' = task_count + 1
  /\ UNCHANGED <<cpu, state, privilege, rsp, cr3, user_rsp, running, pc, ustack, smashed,
                 overwritten, waited>>

CreateReserve ==
  /\ running = 0 /\ creating = NotCreating
  /\ task_count < MAX_TASKS
  /\ creating' = [id |-> task_count, stage |-> "fill"]
  /\ task_count' = task_count + 1
  /\ UNCHANGED <<cpu, state, privilege, rsp, cr3, user_rsp, running, pc, ustack, smashed,
                 overwritten, waited>>

CreateFill(kind) ==
  /\ running = 0 /\ creating.stage = "fill"
  /\ state' = [state EXCEPT ![creating.id] = "Ready"]
  /\ privilege' = [privilege EXCEPT ![creating.id] = kind]
  /\ cr3' = [cr3 EXCEPT ![creating.id] = IF kind = "User" THEN creating.id ELSE 0]
  /\ creating' = [id |-> creating.id, stage |-> "frame"]
  /\ UNCHANGED <<cpu, task_count, rsp, user_rsp, running, pc, ustack, smashed,
                 overwritten, waited>>

CreateFrame ==
  /\ running = 0 /\ creating.stage = "frame"
  /\ rsp' = [rsp EXCEPT ![creating.id] = [of |-> creating.id, on |-> Kernel(creating.id)]]
  /\ pc' = [pc EXCEPT ![creating.id] =
              IF privilege[creating.id] = "User" THEN "user" ELSE "kernel"]
  /\ creating' = NotCreating
  /\ UNCHANGED <<cpu, task_count, state, privilege, cr3, user_rsp, running, ustack, smashed,
                 overwritten, waited>>

\* killTask, from kernel code; task 0 and slots not in use are refused.
KillTask(t) ==
  /\ running = 0 /\ creating = NotCreating
  /\ t # 0 /\ t < task_count
  /\ state' = [state EXCEPT ![t] = "Killed"]
  /\ UNCHANGED <<cpu, task_count, privilege, rsp, cr3, user_rsp, running, pc, ustack,
                 creating, smashed,
                 overwritten, waited>>

exitCurrentTask ==
  state' = IF current_task_id = 0 THEN state
           ELSE [state EXCEPT ![current_task_id] = "Killed"]

------------------------------------------------------------------------------

\* schedule, called by the timer interrupt with the interrupted context's frame.

InUse(t) == t < task_count
FaultySaved == [state EXCEPT ![current_task_id] = "Ready"]  \* even if it was Killed
Saved == [state EXCEPT ![current_task_id] = IF @ = "Running" THEN "Ready" ELSE @]
FaultyCanRun(st, t) == t < task_count - 1 /\ st[t] \in {"Ready", "Running"}
CanRun(st, t) == InUse(t) /\ st[t] \in {"Ready", "Running"}

\* The round-robin loop looks at the slots after the current one in cyclic order.
FaultyLooks(t) == (t - current_task_id) % task_count  \* begins with the current one
Looks(t) == (t - current_task_id - 1) % task_count

Picks(st, next) ==
  IF \E t \in Task : CanRun(st, t)
  THEN CanRun(st, next) /\ \A t \in Task : CanRun(st, t) => Looks(next) <= Looks(t)
  ELSE next = 0

\* Where the frame of an interrupted context lands: on the stack of TSS.rsp0 if it was
\* in ring 3, inside the boot stack (at 0x10b000) from the loop idle_after_fault, on the
\* stack it has just gone back to between the last two instructions of syscall_entry,
\* else on its own kernel stack.
FrameStack(t) ==
  CASE pc[t] \in Ring3 -> Kernel(tss_rsp0)
    [] pc[t] = "idle_after_fault" -> Kernel(0)
    [] pc[t] = "returning" -> ustack[t]
    [] OTHER -> Kernel(t)

FrameSmashes(t) ==
  CASE pc[t] \in Ring3 -> IF privilege[t] = "User" THEN {tss_rsp0} \ {t} ELSE {tss_rsp0}
    [] pc[t] = "idle_after_fault" -> {0}
    [] pc[t] = "returning" /\ ustack[t].kind = "kernel" -> {ustack[t].of} \ {t}
    [] OTHER -> {}

\* The frames of others on the stacks that a context has used when it is interrupted:
\* whether it reached down to them depends on how much each holds.
Threatened(t) ==
  {u \in Task \ {t} : rsp[u] # NoFrame /\ rsp[u].on \in {Kernel(t), FrameStack(t)}}

\* The kernel's page tables map no user stack, and another task's may or may not have
\* memory at the same address; every root maps the kernel stacks.
MayHold(stack) == stack.kind = "kernel" \/ current_cr3 # 0
MayLack(stack) == stack.kind = "user" /\ current_cr3 # cr3[stack.of]

\* schedule itself runs on the stack the frame is on: if that is a user stack, loading
\* another root takes it away.
LosesStack(next) == FrameStack(running).kind = "user" /\ cr3[next] # current_cr3

FaultySavedRsp(next) ==  \* current_task_id set too early
  [rsp EXCEPT ![next] = [of |-> running, on |-> FrameStack(running)]]
SavedRsp(next) == [rsp EXCEPT ![current_task_id] = [of |-> running, on |-> FrameStack(running)]]
FaultyKernelStackFor(next) == current_kernel_stack  \* not switched
KernelStackFor(next) == next
FaultyInterruptStackFor(next) == current_task_id  \* TSS set before current_task_id
InterruptStackFor(next) == next

Switch(next) ==
  /\ rsp' = SavedRsp(next)
  /\ current_task_id' = next
  /\ state' = [Saved EXCEPT ![next] = "Running"]
  /\ tss_rsp0' = InterruptStackFor(next)
  /\ current_kernel_stack' = KernelStackFor(next)
  /\ current_cr3' = cr3[next]
  /\ running' = IF LosesStack(next) \/ next \in overwritten' THEN Astray
                ELSE IF SavedRsp(next)[next] = NoFrame THEN Nobody
                ELSE SavedRsp(next)[next].of
  /\ waited' = [t \in Task |->
                  IF t # next /\ CanRun(Saved, t) /\ SavedRsp(next)[t] # NoFrame
                  THEN waited[t] + 1 ELSE 0]

schedule ==
  IF task_count <= 1 THEN UNCHANGED <<slots, cpu, running, waited>>
  ELSE /\ \E next \in Task : Picks(Saved, next) /\ Switch(next)
       /\ UNCHANGED <<task_count, privilege, cr3>>

TimerTick ==
  /\ running \in Task
  /\ pc[running] # "entry"
  /\ MayHold(FrameStack(running))
  /\ \E hit \in SUBSET Threatened(running) : overwritten' = overwritten \cup hit
  /\ IF TimerCallbackRegistered
     THEN schedule ELSE UNCHANGED <<slots, cpu, running, waited>>
  /\ smashed' = smashed \cup FrameSmashes(running)
  /\ UNCHANGED <<user_rsp, pc, ustack, creating>>

\* The frame cannot be pushed: a fault in ring 0 without a stack.
TickWithoutStack ==
  /\ running \in Task
  /\ pc[running] # "entry"
  /\ MayLack(FrameStack(running))
  /\ running' = Astray
  /\ UNCHANGED <<slots, cpu, user_rsp, pc, ustack, creating, smashed, overwritten, waited>>

------------------------------------------------------------------------------

\* A task executes the syscall instruction: the stack pointer goes to the one
\* user_rsp, the kernel stack of the current task is entered from its top, and
\* interrupts are off.  A ring 0 task lives on that very stack.
SyscallEntry(t) ==
  /\ running = t
  /\ pc[t] \in {"user", "kernel"}
  /\ pc' = [pc EXCEPT ![t] = "entry"]
  /\ user_rsp' = IF pc[t] = "user" THEN ustack[t] ELSE Kernel(t)
  /\ smashed' = smashed \cup
       (IF pc[t] = "kernel" THEN {current_kernel_stack} ELSE {current_kernel_stack} \ {t})
  /\ UNCHANGED <<slots, cpu, running, ustack, creating, overwritten,
                 waited>>

\* zig_syscall_handler turns interrupts on before it does anything.
HandlerStarts(t) ==
  /\ running = t /\ pc[t] = "entry"
  /\ pc' = [pc EXCEPT ![t] = "handler"]
  /\ UNCHANGED <<slots, cpu, user_rsp, running, ustack, creating, smashed,
                 overwritten, waited>>

\* Print, read a key, clear the screen, yield (which does nothing) and unknown numbers.
HandlerReturns(t) ==
  /\ running = t /\ pc[t] = "handler"
  /\ pc' = [pc EXCEPT ![t] = "sysret"]
  /\ UNCHANGED <<slots, cpu, user_rsp, running, ustack, creating, smashed,
                 overwritten, waited>>

\* Exit marks the task Killed and spins until a tick takes the CPU away.
HandlerExits(t) ==
  /\ running = t /\ pc[t] = "handler"
  /\ exitCurrentTask
  /\ pc' = [pc EXCEPT ![t] = "exit_spin"]
  /\ UNCHANGED <<task_count, privilege, rsp, cr3, cpu, user_rsp, running, ustack, creating,
                 smashed, overwritten, waited>>

\* The tail of syscall_entry: the stack pointer is reloaded from user_rsp while still in
\* ring 0, with the interrupts the handler turned on.
SwitchBack(t) ==
  /\ running = t /\ pc[t] = "sysret"
  /\ pc' = [pc EXCEPT ![t] = "returning"]
  /\ ustack' = [ustack EXCEPT ![t] = user_rsp]
  /\ UNCHANGED <<slots, cpu, user_rsp, running, creating, smashed, overwritten, waited>>

\* sysretq always goes to ring 3.
SyscallReturn(t) ==
  /\ running = t /\ pc[t] = "returning"
  /\ pc' = [pc EXCEPT ![t] = "user"]
  /\ UNCHANGED <<slots, cpu, user_rsp, running, ustack, creating, smashed, overwritten, waited>>

\* handleException in ring 3: the task is killed and its frame is redirected to an
\* idle loop in ring 0 whose stack pointer is the top of the boot stack.
UserFault(t) ==
  /\ running = t /\ pc[t] = "user"
  /\ exitCurrentTask
  /\ pc' = [pc EXCEPT ![t] = "idle_after_fault"]
  /\ smashed' = smashed \cup FrameSmashes(t)
  /\ UNCHANGED <<task_count, privilege, rsp, cr3, cpu, user_rsp, running, ustack, creating,
                 overwritten, waited>>

\* handleException in ring 0: the CPU stops for good.
KernelFault(t) ==
  /\ running = t
  /\ pc[t] \in {"main", "kernel", "handler"}
  /\ running' = Halted
  /\ UNCHANGED <<slots, cpu, user_rsp, pc, ustack, creating, smashed,
                 overwritten, waited>>

Create == CreateReserve \/ (\E kind \in {"Kernel", "User"} : CreateFill(kind)) \/ CreateFrame

TaskStep(t) ==
  \/ SyscallEntry(t) \/ HandlerStarts(t) \/ HandlerReturns(t) \/ HandlerExits(t)
  \/ SwitchBack(t) \/ SyscallReturn(t) \/ UserFault(t) \/ KernelFault(t)

Next ==
  \/ TimerTick
  \/ TickWithoutStack
  \/ Create
  \/ \E t \in Task : KillTask(t)
  \/ \E t \in Task : TaskStep(t)

Spec == Init /\ [][Next]_vars

\* The local APIC keeps a tick that comes while interrupts are off pending and delivers
\* it once they are on; the CPU goes on executing kernel code that has been entered.
Fairness ==
  /\ SF_vars(TimerTick \/ TickWithoutStack)
  /\ \A t \in Task : WF_vars(HandlerStarts(t))
  /\ WF_vars(Create /\ creating # NotCreating)

FairSpec == Spec /\ Fairness

------------------------------------------------------------------------------
(***************************************************************************)
(* Properties.                                                             *)
(***************************************************************************)

Built(t) == InUse(t) /\ ~ (creating # NotCreating /\ creating.id = t)

\* Every variable has its type.
TypeOK ==
  /\ task_count \in 1 .. MAX_TASKS
  /\ current_task_id \in Task
  /\ state \in [Task -> {"Ready", "Running", "Killed"}]
  /\ privilege \in [Task -> {"Kernel", "User"}]
  /\ rsp \in [Task -> Frame \cup {NoFrame}]
  /\ cr3 \in [Task -> Task]
  /\ current_kernel_stack \in Task
  /\ tss_rsp0 \in Task \cup {NoTask}
  /\ current_cr3 \in Task
  /\ user_rsp \in Stack \cup {NoStack}
  /\ running \in Task \cup {Nobody, Halted, Astray}
  /\ pc \in [Task -> Places]
  /\ ustack \in [Task -> Stack]
  /\ creating \in [id : Task, stage : {"none", "fill", "frame"}]
  /\ smashed \in SUBSET (Task \cup {NoTask})
  /\ overwritten \in SUBSET Task
  /\ waited \in [Task -> Nat]

\* What the CPU executes and what the scheduler believes agree: the context on the CPU
\* is the current task's, in its page tables, with its kernel stack ready for a system
\* call and, in ring 3, for an interrupt; no other task is Running and task 0, the
\* net under the round-robin loop, is never Killed.
CpuFollowsTask ==
  /\ running \in Task =>
       /\ running = current_task_id
       /\ current_kernel_stack = current_task_id
       /\ current_cr3 = cr3[current_task_id]
       /\ pc[running] \in Ring3 => tss_rsp0 = running
  /\ \A t \in Task : state[t] = "Running" => t = current_task_id
  /\ state[0] # "Killed"

\* Where the frame of a task that is not on the CPU was pushed when it lost it.
InterruptedOn(t) ==
  CASE pc[t] = "idle_after_fault" -> Kernel(0)
    [] pc[t] = "returning" -> ustack[t]
    [] OTHER -> Kernel(t)

\* The saved frame of a task that is fully created and not on the CPU is its own and
\* lies where the task was interrupted, on a kernel stack as long as the machine runs;
\* only frames on the boot stack and on the kernel stacks of ring 0 tasks are ever
\* written over.  So the CPU resumes a context that is not the task's, or loses its
\* stack, in three ways only: a tick between the lines of createTask that count the slot
\* and that set its rsp, such a written-over frame, and a tick between the last two
\* instructions of syscall_entry on a user stack.
FramesOwned ==
  /\ \A t \in Task : Built(t) /\ t # current_task_id =>
       /\ rsp[t] = [of |-> t, on |-> InterruptedOn(t)]
       /\ running \in Task => rsp[t].on.kind = "kernel"
  /\ \A t \in overwritten :
       rsp[t] # NoFrame /\ rsp[t].on.kind = "kernel" /\ privilege[rsp[t].on.of] = "Kernel"
  /\ running = Nobody => creating # NotCreating /\ current_task_id = creating.id
  /\ running = Astray =>
       \/ current_task_id \in overwritten
       \/ \E t \in Task : pc[t] = "returning" /\ ustack[t].kind = "user"

\* The kernel stack of a task that runs in ring 3 by construction is written by no
\* other task's interrupts and system calls.
UserStacksPrivate == \A t \in Task : t \in smashed => privilege[t] = "Kernel"

\* A killed task stays killed: no tick, however it meets exit, fault or killTask,
\* brings it back ("prevent resurrection").
NoResurrection ==
  [][\A t \in Task : state[t] = "Killed" => state'[t] = "Killed"]_vars

\* Round robin passes nobody over: a task that can run waits for at most one turn of
\* every other slot, also while tasks are created and killed.
BoundedWait == \A t \in Task : waited[t] < MAX_TASKS

\* A created task gets the CPU (or is killed, or the machine stops: a kernel fault, or
\* one of the ways FramesOwned lists to lose the CPU).
CreatedTaskRuns ==
  \A t \in Task :
    (Built(t) /\ state[t] = "Ready") ~>
      (running = t \/ state[t] = "Killed" \/ running \notin Task)

\* isr64.S "Switch back to user RSP": a task returns from a system call on the stack
\* it made the call on.
SysretOwnStack ==
  \A t \in Task :
    pc[t] = "user" => ustack[t] = IF privilege[t] = "User" THEN User(t) ELSE Kernel(t)

==============================================================================
