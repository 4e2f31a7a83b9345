--------------------------- MODULE SchedulerProofs ---------------------------
(***************************************************************************)
(* Proofs about the scheduler, for every number of task slots and with or  *)
(* without the timer callback.                                             *)
(***************************************************************************)
EXTENDS Scheduler, TLAPS

\* A slot that is not fully created has no frame, no context and was never killed; the
\* slot being filled is the last one counted.
SlotsInOrder ==
  /\ \A t \in Task : Built(t) => pc[t] # "unborn"
  /\ \A t \in Task : ~ Built(t) =>
       /\ rsp[t] = NoFrame /\ pc[t] = "unborn" /\ state[t] # "Killed"
       /\ t \notin smashed /\ t \notin overwritten
  /\ creating # NotCreating =>
       creating.id = task_count - 1 /\ creating.id # 0 /\ creating.stage # "none"

\* kernel_main stays in ring 0; a context that is in a ring 0 task's code is that of a
\* ring 0 task; a task other than kernel_main has the interrupt stack of its own
\* whenever it is on the CPU.
ContextsInOrder ==
  /\ pc[0] = "main" /\ privilege[0] = "Kernel"
  /\ \A t \in Task : pc[t] = "kernel" => privilege[t] = "Kernel"
  /\ running \in Task => Built(running)
  /\ running \in Task /\ running # 0 => tss_rsp0 = running
  /\ running \in Task => running \notin overwritten

\* Only ring 0 tasks leave a kernel stack pointer where a system call returns to, and
\* only frames on the stacks of ring 0 tasks are written over; a task has the kernel's
\* page tables or its own.
Ring0(t) == Built(t) /\ privilege[t] = "Kernel"
StacksInOrder ==
  /\ \A t \in Task : ustack[t].kind = "kernel" => Ring0(ustack[t].of)
  /\ user_rsp.kind = "kernel" => Ring0(user_rsp.of)
  /\ \A t \in Task : pc[t] \in {"entry", "handler", "sysret"} => user_rsp # NoStack
  /\ \A t \in overwritten : Ring0(rsp[t].on.of)
  /\ \A t \in Task : cr3[t] \in {0, t}

IInv ==
  /\ TypeOK
  /\ CpuFollowsTask
  /\ FramesOwned
  /\ UserStacksPrivate
  /\ SlotsInOrder
  /\ ContextsInOrder
  /\ StacksInOrder

\* Slot 0 exists, and no task number is one of the two marks of a stopped CPU.
LEMMA Slots ==
  /\ 0 \in Task /\ NoTask \notin Task
  /\ Nobody \notin Task /\ Halted \notin Task /\ Astray \notin Task
  /\ Nobody # Halted /\ Nobody # Astray /\ Halted # Astray
BY TasksAssumption DEF Task, NoTask, Nobody, Halted, Astray

\* Stacks and frames by their parts; the marks of what was never set are neither.
LEMMA Stacks ==
  /\ \A t \in Task : /\ Kernel(t) \in Stack /\ Kernel(t).kind = "kernel" /\ Kernel(t).of = t
                     /\ User(t) \in Stack /\ User(t).kind = "user"
  /\ \A t, u \in Task : Kernel(t) = Kernel(u) => t = u
  /\ NoStack \notin Stack /\ NoStack.kind = "none" /\ NoFrame \notin Frame
  /\ \A stack \in Stack : stack.kind \in {"kernel", "user"} /\ stack.of \in Task
<1>1. NoStack \notin Stack /\ NoStack.kind = "none"
  BY DEF NoStack, Stack
<1>2. NoFrame \notin Frame
  BY <1>1 DEF NoFrame, Frame
<1>3. \A t \in Task : /\ Kernel(t) \in Stack /\ Kernel(t).kind = "kernel" /\ Kernel(t).of = t
                      /\ User(t) \in Stack /\ User(t).kind = "user"
  BY DEF Kernel, User, Stack
<1>4. \A t, u \in Task : Kernel(t) = Kernel(u) => t = u
  BY <1>3
<1>5. \A stack \in Stack : stack.kind \in {"kernel", "user"} /\ stack.of \in Task
  BY DEF Stack
<1> QED
  BY <1>1, <1>2, <1>3, <1>4, <1>5

\* Boot leaves the invariant true.
LEMMA InitInvariant == Init => IInv
<1> SUFFICES ASSUME Init PROVE IInv
  OBVIOUS
<1> USE Slots
<1>1. TypeOK
  <2>1. Init => ustack \in [Task -> Stack]
    BY Stacks DEF Init
  <2> QED
    BY <2>1, TasksAssumption DEF Init, TypeOK, Task, Places, Ring3, InSyscall, NotCreating
<1>2. CpuFollowsTask
  BY DEF Init, CpuFollowsTask, Ring3
<1>3. FramesOwned
  BY DEF Init, FramesOwned, Built, InUse, Task
<1>4. UserStacksPrivate
  BY DEF Init, UserStacksPrivate
<1>5. SlotsInOrder
  BY DEF Init, SlotsInOrder, Built, InUse, Task, NotCreating
<1>6. ContextsInOrder
  BY DEF Init, ContextsInOrder, Built, InUse, NotCreating
<1>7. StacksInOrder
  BY Stacks DEF Init, StacksInOrder
<1> QED
  BY <1>1, <1>2, <1>3, <1>4, <1>5, <1>6, <1>7 DEF IInv

------------------------------------------------------------------------------
(* createTask and killTask: kernel_main is on the CPU. *)

\* A frame that has been written over is a frame, on a stack of a task.
LEMMA OverwrittenFrames ==
  ASSUME IInv, NEW t \in overwritten
  PROVE  t \in Task /\ Built(t) /\ rsp[t] \in Frame /\ rsp[t].on \in Stack /\ rsp[t].on.of \in Task
<1>1. t \in Task /\ Built(t) /\ rsp[t] # NoFrame
  BY DEF IInv, TypeOK, SlotsInOrder, FramesOwned
<1>2. rsp[t] \in Frame
  BY <1>1 DEF IInv, TypeOK
<1> QED
  BY <1>1, <1>2 DEF Frame, Stack

\* What a step leaves in order that moves no stack pointer.
LEMMA StacksStay ==
  ASSUME IInv, UNCHANGED <<ustack, user_rsp, overwritten>>,
         \A t \in Task : Ring0(t) => Ring0(t)',
         \A t \in Task : cr3'[t] \in {0, t},
         \A t \in overwritten : rsp'[t] = rsp[t],
         \A t \in Task : pc'[t] \in {"entry", "handler", "sysret"} =>
                           pc[t] \in {"entry", "handler", "sysret"}
  PROVE  StacksInOrder'
<1>1. \A t \in Task : ustack[t] \in Stack /\ ustack[t].of \in Task
  BY Stacks DEF IInv, TypeOK
<1>2. \A t \in Task : ustack'[t].kind = "kernel" => Ring0(ustack[t].of)'
  BY <1>1 DEF IInv, StacksInOrder
<1>3. user_rsp'.kind = "kernel" => Ring0(user_rsp.of)'
  <2>1. user_rsp.kind = "kernel" => user_rsp.of \in Task
    BY Stacks DEF IInv, TypeOK
  <2> QED
    BY <2>1 DEF IInv, StacksInOrder
<1>4. \A t \in overwritten' : Ring0(rsp[t].on.of)'
  BY OverwrittenFrames DEF IInv, StacksInOrder
<1>5. \A t \in Task : pc'[t] \in {"entry", "handler", "sysret"} => user_rsp' # NoStack
  BY DEF IInv, StacksInOrder
<1> QED
  BY <1>2, <1>3, <1>4, <1>5 DEF StacksInOrder

\* A slot that is counted and not yet filled has no frame and no context.
LEMMA CreateReserveKeeps == ASSUME IInv, CreateReserve PROVE IInv'
<1> USE Slots, TasksAssumption DEF IInv, CreateReserve, cpu
<1> DEFINE new == [id |-> task_count, stage |-> "fill"]
<1>0. /\ task_count \in Task \ {0} /\ task_count' \in 1 .. MAX_TASKS
      /\ new \in [id : Task, stage : {"none", "fill", "frame"}] /\ new # NotCreating
  BY DEF TypeOK, Task, NotCreating
<1> HIDE DEF new
<1>1. TypeOK'
  <2>1. creating' = new
    BY DEF new
  <2> QED
    BY <1>0, <2>1 DEF TypeOK
<1>2. CpuFollowsTask'
  BY DEF TypeOK, CpuFollowsTask
<1>3. /\ \A t \in Task : Built(t)' <=> Built(t)
      /\ creating'.id = task_count' - 1 /\ creating'.id # 0 /\ creating'.stage # "none"
  <2>1. creating' # NotCreating /\ creating'.id = task_count /\ creating'.stage = "fill"
    BY <1>0 DEF new
  <2>2. ASSUME NEW t \in Task PROVE Built(t)' <=> Built(t)
    <3>1. Built(t) <=> t < task_count
      BY DEF Built, InUse
    <3>2. Built(t)' <=> t < task_count + 1 /\ t # task_count
      BY <2>1 DEF Built, InUse
    <3> QED
      BY <1>0, <3>1, <3>2 DEF Task
  <2> QED
    BY <1>0, <2>1, <2>2 DEF Task
<1>4. FramesOwned'
  BY <1>3 DEF TypeOK, FramesOwned, InterruptedOn
<1>5. UserStacksPrivate'
  BY DEF UserStacksPrivate
<1>6. SlotsInOrder'
  BY <1>3 DEF SlotsInOrder
<1>7. ContextsInOrder'
  BY <1>3 DEF TypeOK, ContextsInOrder
<1>8. StacksInOrder'
  BY <1>3, StacksStay DEF Ring0, StacksInOrder
<1> QED
  BY <1>1, <1>2, <1>4, <1>5, <1>6, <1>7, <1>8

\* Its fields are written while nothing schedules it.
LEMMA CreateFillKeeps ==
  ASSUME IInv, NEW kind \in {"Kernel", "User"}, CreateFill(kind) PROVE IInv'
<1> USE Slots, TasksAssumption DEF IInv, CreateFill, cpu
<1>1. TypeOK'
  BY DEF TypeOK
<1>2. creating # NotCreating /\ creating.id \in Task \ {0} /\ ~ Built(creating.id)
  BY DEF TypeOK, SlotsInOrder, Built, NotCreating
<1>3. CpuFollowsTask'
  BY <1>2 DEF TypeOK, CpuFollowsTask
<1>4. creating' # NotCreating /\ \A t \in Task : Built(t)' <=> Built(t)
  BY <1>2 DEF TypeOK, Built, InUse, NotCreating
<1>5. FramesOwned'
  <2>1. \A t \in Task : privilege[t] = "Kernel" /\ Built(t) => privilege'[t] = "Kernel"
    BY <1>2 DEF TypeOK
  <2>2. \A t \in overwritten : privilege'[rsp'[t].on.of] = "Kernel"
    BY <2>1, OverwrittenFrames DEF StacksInOrder, Ring0
  <2> QED
    BY <1>2, <1>4, <2>2 DEF TypeOK, FramesOwned, InterruptedOn
<1>6. UserStacksPrivate'
  BY <1>2 DEF TypeOK, UserStacksPrivate, SlotsInOrder
<1>7. SlotsInOrder'
  BY <1>2, <1>4 DEF TypeOK, SlotsInOrder
<1>8. ContextsInOrder'
  BY <1>2, <1>4 DEF TypeOK, ContextsInOrder, SlotsInOrder
<1>9. StacksInOrder'
  <2>1. \A t \in Task : Ring0(t) => Ring0(t)'
    BY <1>2, <1>4 DEF Ring0, TypeOK
  <2>2. \A t \in Task : cr3'[t] \in {0, t}
    BY <1>2 DEF TypeOK, StacksInOrder
  <2> QED
    BY <2>1, <2>2, StacksStay
<1> QED
  BY <1>1, <1>3, <1>5, <1>6, <1>7, <1>8, <1>9

\* Its frame is the last thing it gets.
LEMMA CreateFrameKeeps == ASSUME IInv, CreateFrame PROVE IInv'
<1> USE Slots, TasksAssumption DEF IInv, CreateFrame, cpu
<1> DEFINE new == [of |-> creating.id, on |-> Kernel(creating.id)]
<1>0. creating.id \in Task /\ Kernel(creating.id) \in Stack /\ new \in Frame
  BY Stacks DEF TypeOK, Frame
<1>1. TypeOK'
  BY <1>0 DEF TypeOK, NotCreating, Places, Ring3
<1>2. creating # NotCreating /\ creating.id \in Task \ {0} /\ ~ Built(creating.id)
  BY DEF TypeOK, SlotsInOrder, Built, NotCreating
<1>3. CpuFollowsTask'
  BY <1>2 DEF TypeOK, CpuFollowsTask
<1>4. /\ creating' = NotCreating
      /\ \A t \in Task : Built(t)' <=> Built(t) \/ t = creating.id
  BY <1>2 DEF TypeOK, Built, InUse, NotCreating, SlotsInOrder
<1>5. FramesOwned'
  <2>1. \A t \in Task : t # creating.id => rsp'[t] = rsp[t] /\ pc'[t] = pc[t]
    BY DEF TypeOK
  <2>2. /\ rsp'[creating.id] = new /\ pc'[creating.id] \in {"user", "kernel"}
        /\ creating.id \notin overwritten /\ new.on.kind = "kernel"
    BY <1>2, Stacks DEF TypeOK, SlotsInOrder
  <2>3. \A t \in overwritten : t \in Task /\ t # creating.id
    BY <2>2 DEF TypeOK
  <2>4. \A t \in Task : Built(t)' /\ t # current_task_id =>
          /\ rsp'[t] = [of |-> t, on |-> InterruptedOn(t)']
          /\ rsp'[t].on.kind = "kernel"
    BY <1>4, <2>1, <2>2 DEF FramesOwned, InterruptedOn
  <2>5. running' # Nobody /\ running' # Astray
    BY DEF Nobody, Astray
  <2> QED
    BY <2>1, <2>3, <2>4, <2>5 DEF FramesOwned
<1>6. UserStacksPrivate'
  BY DEF UserStacksPrivate
<1>7. SlotsInOrder'
  <2>1. ASSUME NEW t \in Task, Built(t)' PROVE pc'[t] # "unborn"
    BY <1>2, <1>4, <2>1 DEF TypeOK, SlotsInOrder
  <2>2. ASSUME NEW t \in Task, ~ Built(t)'
        PROVE  /\ rsp'[t] = NoFrame /\ pc'[t] = "unborn" /\ state'[t] # "Killed"
               /\ t \notin smashed' /\ t \notin overwritten'
    <3>1. t # creating.id /\ ~ Built(t)
      BY <1>4, <2>2
    <3>2. rsp'[t] = rsp[t] /\ pc'[t] = pc[t]
      BY <3>1 DEF TypeOK
    <3> QED
      BY <3>1, <3>2 DEF SlotsInOrder
  <2> QED
    BY <1>4, <2>1, <2>2 DEF SlotsInOrder
<1>8. ContextsInOrder'
  BY <1>2, <1>4 DEF TypeOK, ContextsInOrder, SlotsInOrder
<1>9. StacksInOrder'
  <2>1. \A t \in Task : Ring0(t) => Ring0(t)'
    BY <1>4 DEF Ring0
  <2>2. \A t \in overwritten : rsp'[t] = rsp[t]
    BY <1>2 DEF TypeOK, SlotsInOrder
  <2>3. \A t \in Task : pc'[t] \in {"entry", "handler", "sysret"} => pc'[t] = pc[t]
    BY DEF TypeOK
  <2> QED
    BY <2>1, <2>2, <2>3, StacksStay DEF StacksInOrder
<1> QED
  BY <1>1, <1>3, <1>5, <1>6, <1>7, <1>8, <1>9

\* A killed slot is passed over from now on; what it holds stays.
LEMMA KillTaskKeeps == ASSUME IInv, NEW t \in Task, KillTask(t) PROVE IInv'
<1> USE Slots DEF IInv, KillTask, cpu
<1>1. TypeOK'
  BY DEF TypeOK
<1>2. CpuFollowsTask'
  BY DEF TypeOK, CpuFollowsTask
<1>3. Built(t) /\ \A u \in Task : Built(u)' <=> Built(u)
  BY DEF Built, InUse
<1>4. FramesOwned'
  BY <1>3 DEF FramesOwned, InterruptedOn
<1>5. UserStacksPrivate'
  BY DEF UserStacksPrivate
<1>6. SlotsInOrder'
  BY <1>3 DEF TypeOK, SlotsInOrder
<1>7. ContextsInOrder'
  BY <1>3 DEF ContextsInOrder
<1>8. StacksInOrder'
  BY <1>3, StacksStay DEF Ring0, StacksInOrder
<1> QED
  BY <1>1, <1>2, <1>4, <1>5, <1>6, <1>7, <1>8

------------------------------------------------------------------------------
(* The tick. *)

\* The round-robin loop ends on a task that can run: task 0 always can.
LEMMA PickRuns ==
  ASSUME IInv, NEW next \in Task, Picks(Saved, next)
  PROVE  CanRun(Saved, next)
<1>1. CanRun(Saved, 0)
  BY Slots DEF IInv, TypeOK, CpuFollowsTask, CanRun, InUse, Saved
<1> QED
  BY <1>1, Slots DEF Picks

\* What schedule leaves: either the fields untouched, or a switch to a task that can run.
LEMMA TickCases ==
  ASSUME IInv, TimerTick
  PROVE  \/ UNCHANGED <<slots, cpu, running, waited>>
         \/ \E next \in Task : /\ CanRun(Saved, next) /\ Switch(next)
                               /\ UNCHANGED <<task_count, privilege, cr3>>
BY PickRuns DEF TimerTick, schedule

\* No frame of an interrupt lands on the stack of another user task.
LEMMA InterruptSmashes ==
  ASSUME IInv, running \in Task, NEW t \in FrameSmashes(running)
  PROVE  t \in Task /\ Built(t) /\ privilege[t] = "Kernel"
<1>1. running \in Task /\ Built(running)
  BY DEF IInv, ContextsInOrder
<1>2. Built(0)
  BY Slots DEF IInv, TypeOK, SlotsInOrder, Built, InUse
<1>3. CASE pc[running] \in Ring3
  <2>1. tss_rsp0 = running
    BY <1>1, <1>3 DEF IInv, ContextsInOrder, Ring3
  <2>2. FrameSmashes(running) =
          IF privilege[running] = "User" THEN {tss_rsp0} \ {running} ELSE {tss_rsp0}
    BY <1>3 DEF FrameSmashes, Ring3
  <2> QED
    BY <1>1, <2>1, <2>2 DEF IInv, TypeOK
<1>4. CASE pc[running] = "idle_after_fault"
  BY <1>2, <1>4, Slots DEF FrameSmashes, Ring3, IInv, ContextsInOrder
<1>5. CASE pc[running] = "returning" /\ ustack[running].kind = "kernel"
  BY <1>1, <1>5, Stacks DEF FrameSmashes, Ring3, IInv, TypeOK, StacksInOrder, Ring0
<1>6. CASE /\ pc[running] \notin Ring3 \cup {"idle_after_fault"}
           /\ ~ (pc[running] = "returning" /\ ustack[running].kind = "kernel")
  BY <1>6 DEF FrameSmashes
<1> QED
  BY <1>3, <1>4, <1>5, <1>6

\* The stack a frame of the running context lands on; it is not on a kernel stack only
\* when the context is about to leave a system call.
LEMMA FrameStackIs ==
  ASSUME IInv, running \in Task
  PROVE  /\ FrameStack(running) = InterruptedOn(running)
         /\ FrameStack(running) \in Stack
         /\ FrameStack(running).kind = "user" =>
              pc[running] = "returning" /\ ustack[running].kind = "user"
         /\ FrameStack(running).kind = "kernel" =>
              FrameStack(running) = Kernel(running) \/ Ring0(FrameStack(running).of)
<1>1. CASE pc[running] \in Ring3
  <2>1. tss_rsp0 = running
    BY <1>1 DEF IInv, ContextsInOrder, Ring3
  <2>2. FrameStack(running) = Kernel(running) /\ InterruptedOn(running) = Kernel(running)
    BY <1>1, <2>1 DEF FrameStack, InterruptedOn, Ring3
  <2> QED
    BY <2>2, Stacks
<1>2. CASE pc[running] = "idle_after_fault"
  <2>1. FrameStack(running) = Kernel(0) /\ InterruptedOn(running) = Kernel(0)
    BY <1>2 DEF FrameStack, InterruptedOn, Ring3
  <2>2. Ring0(0)
    BY Slots DEF IInv, TypeOK, SlotsInOrder, ContextsInOrder, Built, InUse, Ring0
  <2> QED
    BY <2>1, <2>2, Stacks, Slots
<1>3. CASE pc[running] = "returning"
  <2>1. FrameStack(running) = ustack[running] /\ InterruptedOn(running) = ustack[running]
    BY <1>3 DEF FrameStack, InterruptedOn, Ring3
  <2> QED
    BY <1>3, <2>1 DEF IInv, TypeOK, StacksInOrder
<1>4. CASE pc[running] \notin Ring3 \cup {"idle_after_fault", "returning"}
  <2>1. FrameStack(running) = Kernel(running) /\ InterruptedOn(running) = Kernel(running)
    BY <1>4 DEF FrameStack, InterruptedOn
  <2> QED
    BY <2>1, Stacks
<1> QED
  BY <1>1, <1>2, <1>3, <1>4

\* A frame in the way of a tick is on the kernel stack of a ring 0 task.
LEMMA ThreatenedFrames ==
  ASSUME IInv, running \in Task, NEW t \in Threatened(running)
  PROVE  /\ t \in Task /\ t # running /\ Built(t) /\ rsp[t] # NoFrame
         /\ rsp[t].on.kind = "kernel" /\ Ring0(rsp[t].on.of)
<1>1. /\ t \in Task /\ t # running /\ rsp[t] # NoFrame
      /\ rsp[t].on \in {Kernel(running), FrameStack(running)}
  BY DEF Threatened
<1>2. running = current_task_id
  BY DEF IInv, CpuFollowsTask
<1>3. /\ Built(t) /\ rsp[t] = [of |-> t, on |-> InterruptedOn(t)]
      /\ rsp[t].on = InterruptedOn(t) /\ rsp[t].on.kind = "kernel"
  BY <1>1, <1>2 DEF IInv, SlotsInOrder, FramesOwned
<1>4. CASE pc[t] = "idle_after_fault"
  <2>1. rsp[t].on.of = 0
    BY <1>3, <1>4, Stacks, Slots DEF InterruptedOn
  <2>2. Ring0(0)
    BY Slots DEF IInv, TypeOK, SlotsInOrder, ContextsInOrder, Built, InUse, Ring0
  <2> QED
    BY <1>1, <1>3, <2>1, <2>2
<1>5. CASE pc[t] = "returning"
  <2>1. rsp[t].on = ustack[t]
    BY <1>3, <1>5 DEF InterruptedOn
  <2> QED
    BY <1>1, <1>3, <2>1 DEF IInv, StacksInOrder
<1>6. CASE pc[t] \notin {"idle_after_fault", "returning"}
  <2>1. rsp[t].on = Kernel(t)
    BY <1>3, <1>6 DEF InterruptedOn
  <2>2. Kernel(t) = FrameStack(running) /\ Kernel(t) # Kernel(running)
    BY <1>1, <2>1, Stacks
  <2>3. Ring0(FrameStack(running).of)
    BY <1>1, <2>2, FrameStackIs, Stacks
  <2> QED
    BY <1>1, <1>3, <2>1, <2>2, <2>3
<1> QED
  BY <1>4, <1>5, <1>6

\* A tick leaves the stacks in order.
LEMMA TickKeepsStacks ==
  ASSUME IInv, TimerTick,
         \A t \in Task : Built(t)' <=> Built(t),
         UNCHANGED <<privilege, cr3>>,
         \A t \in Task \ {running} : rsp'[t] = rsp[t]
  PROVE  /\ StacksInOrder'
         /\ running \notin overwritten'
         /\ \A t \in overwritten' : /\ t \in Task /\ Built(t)
                                   /\ rsp'[t] # NoFrame /\ rsp'[t].on.kind = "kernel"
                                   /\ Ring0(rsp'[t].on.of)
<1>1. /\ running \in Task /\ pc' = pc /\ user_rsp' = user_rsp /\ ustack' = ustack
      /\ running \notin overwritten
  BY DEF TimerTick, IInv, ContextsInOrder
<1>2. PICK hit \in SUBSET Threatened(running) : overwritten' = overwritten \cup hit
  BY DEF TimerTick
<1>3. running \notin overwritten'
  BY <1>1, <1>2, ThreatenedFrames
<1>4. ASSUME NEW t \in overwritten'
      PROVE  /\ t \in Task /\ Built(t) /\ rsp'[t] # NoFrame /\ rsp'[t].on.kind = "kernel"
             /\ Ring0(rsp'[t].on.of)
  <2>1. CASE t \in overwritten
    <3>1. t \in Task /\ Built(t) /\ t # running /\ rsp'[t] = rsp[t]
      BY <1>1, <2>1, OverwrittenFrames
    <3> QED
      BY <2>1, <3>1 DEF IInv, FramesOwned, StacksInOrder
  <2>2. CASE t \in Threatened(running)
    <3>1. t \in Task /\ t # running /\ rsp'[t] = rsp[t]
      BY <1>1, <2>2, ThreatenedFrames
    <3> QED
      BY <1>1, <2>2, <3>1, ThreatenedFrames
  <2> QED
    BY <1>2, <2>1, <2>2
<1>5. \A stack \in Stack : Ring0(stack.of) => Ring0(stack.of)'
  BY Stacks DEF Ring0
<1>6. \A t \in overwritten' : Ring0(rsp[t].on.of)'
  <2>1. ASSUME NEW t \in overwritten' PROVE rsp'[t].on \in Stack
    <3>1. t \in Task /\ t # running /\ rsp'[t] = rsp[t] /\ rsp[t] # NoFrame
      BY <1>3, <1>4
    <3> QED
      BY <3>1 DEF IInv, TypeOK, Frame
  <2> QED
    BY <1>4, <1>5, <2>1
<1>7. StacksInOrder'
  <2>1. \A t \in Task : ustack'[t].kind = "kernel" => Ring0(ustack[t].of)'
    BY <1>1, <1>5 DEF IInv, TypeOK, StacksInOrder
  <2>2. user_rsp'.kind = "kernel" => Ring0(user_rsp.of)'
    BY <1>1, <1>5, Stacks DEF IInv, TypeOK, StacksInOrder
  <2> QED
    BY <1>1, <1>6, <2>1, <2>2 DEF IInv, StacksInOrder
<1> QED
  BY <1>3, <1>4, <1>7

\* The frame of who is interrupted goes to its own slot, and the next task returns
\* to the frame of its own.
LEMMA TimerTickKeeps == ASSUME IInv, TimerTick PROVE IInv'
<1>1. /\ running \in Task /\ running = current_task_id
      /\ creating' = creating /\ pc' = pc /\ user_rsp' = user_rsp /\ ustack' = ustack
      /\ smashed' = smashed \cup FrameSmashes(running)
  BY DEF TimerTick, IInv, CpuFollowsTask
<1>2. smashed' \in SUBSET (Task \cup {NoTask})
  BY <1>1, InterruptSmashes DEF IInv, TypeOK
<1>3. /\ task_count' = task_count /\ privilege' = privilege /\ cr3' = cr3
      /\ \A t \in Task : Built(t)' <=> Built(t)
  BY <1>1, TickCases DEF slots, Built, InUse
<1>4. UserStacksPrivate'
  BY <1>1, <1>3, InterruptSmashes DEF IInv, UserStacksPrivate
<1>5. CASE UNCHANGED <<slots, cpu, running, waited>>
  <2>1. /\ StacksInOrder' /\ running \notin overwritten'
        /\ \A t \in overwritten' : /\ t \in Task /\ Built(t)
                                  /\ rsp'[t] # NoFrame /\ rsp'[t].on.kind = "kernel"
                                  /\ Ring0(rsp'[t].on.of)
    BY <1>3, <1>5, TickKeepsStacks DEF slots
  <2> USE <1>1, <1>2, <1>3, <1>5, <2>1 DEF IInv, slots, cpu
  <2>2. TypeOK'
    BY DEF TypeOK
  <2>3. CpuFollowsTask'
    BY DEF CpuFollowsTask
  <2>4. FramesOwned'
    <3>1. running' # Nobody /\ running' # Astray
      BY Slots
    <3>2. \A t \in overwritten' : privilege'[rsp'[t].on.of] = "Kernel"
      BY DEF Ring0
    <3> QED
      BY <3>1, <3>2 DEF FramesOwned, InterruptedOn
  <2>5. SlotsInOrder'
    BY InterruptSmashes DEF SlotsInOrder
  <2>6. ContextsInOrder'
    BY DEF ContextsInOrder
  <2> QED
    BY <1>4, <2>1, <2>2, <2>3, <2>4, <2>5, <2>6
<1>6. ASSUME NEW next \in Task, CanRun(Saved, next), Switch(next)
      PROVE  IInv'
  <2> DEFINE saved == SavedRsp(next)
             frame == [of |-> running, on |-> FrameStack(running)]
  <2>0. /\ FrameStack(running) = InterruptedOn(running)
        /\ FrameStack(running) \in Stack
        /\ FrameStack(running).kind = "user" =>
             pc[running] = "returning" /\ ustack[running].kind = "user"
        /\ frame \in Frame
    BY <1>1, FrameStackIs DEF Frame
  <2>1. /\ saved \in [Task -> Frame \cup {NoFrame}] /\ rsp' = saved
        /\ Saved \in [Task -> {"Ready", "Running", "Killed"}]
    BY <1>6, <2>0 DEF IInv, TypeOK, SavedRsp, Saved, Switch
  <2>2. \A t \in Task : saved[t] = IF t = current_task_id THEN frame ELSE rsp[t]
    BY DEF IInv, TypeOK, SavedRsp
  <2> HIDE DEF saved
  <2>21. /\ StacksInOrder' /\ running \notin overwritten'
         /\ \A t \in overwritten' : /\ t \in Task /\ Built(t)
                                   /\ rsp'[t] # NoFrame /\ rsp'[t].on.kind = "kernel"
                                   /\ Ring0(rsp'[t].on.of)
    BY <1>1, <1>3, <2>1, <2>2, TickKeepsStacks
  <2> USE <1>1, <1>2, <1>3, <1>6, Slots DEF IInv
  <2>3. Built(next) => saved[next].of = next /\ saved[next] # NoFrame
    <3>1. frame.of = running /\ frame # NoFrame
      BY <2>0, Stacks
    <3>2. ASSUME Built(next), next # current_task_id PROVE rsp[next].of = next /\ rsp[next] # NoFrame
      <4>1. rsp[next] = [of |-> next, on |-> InterruptedOn(next)]
        BY <3>2 DEF FramesOwned
      <4>2. NoFrame.of = NoTask
        BY DEF NoFrame
      <4> QED
        BY <4>1, <4>2
    <3> QED
      BY <2>2, <3>1, <3>2
  <2>4. /\ ~ Built(next) => saved[next] = NoFrame
        /\ ~ Built(next) => creating # NotCreating /\ next = creating.id
    BY <2>2 DEF SlotsInOrder, ContextsInOrder, CanRun, Built
  <2> DEFINE lost == LosesStack(next) \/ next \in overwritten'
  <2>5. running' = IF lost THEN Astray ELSE IF Built(next) THEN next ELSE Nobody
    BY <2>3, <2>4 DEF Switch, saved
  <2>51. lost => \/ next \in overwritten'
                 \/ pc[running] = "returning" /\ ustack[running].kind = "user"
    BY <2>0 DEF LosesStack
  <2>52. ~ lost => next \notin overwritten' /\ ~ LosesStack(next)
    OBVIOUS
  <2> HIDE DEF lost
  <2>6. TypeOK'
    <3>1. state' \in [Task -> {"Ready", "Running", "Killed"}] /\ rsp' \in [Task -> Frame \cup {NoFrame}]
      BY <2>1 DEF Switch
    <3>2. waited' \in [Task -> Nat]
      BY DEF Switch, TypeOK
    <3>3. /\ current_task_id' \in Task /\ current_kernel_stack' \in Task
          /\ tss_rsp0' \in Task \cup {NoTask} /\ current_cr3' \in Task
          /\ running' \in Task \cup {Nobody, Halted, Astray}
      BY <2>5 DEF Switch, TypeOK, KernelStackFor, InterruptStackFor
    <3>4. overwritten' \in SUBSET Task
      BY <2>21
    <3> QED
      BY <3>1, <3>2, <3>3, <3>4 DEF TypeOK
  <2>7. \A t \in Task : state'[t] = IF t = next THEN "Running" ELSE Saved[t]
    BY <2>1 DEF Switch
  <2>8. \A t \in Task : Saved[t] = IF t = current_task_id /\ state[t] = "Running"
                                   THEN "Ready" ELSE state[t]
    BY DEF Saved, TypeOK
  <2>9. CpuFollowsTask'
    BY <2>5, <2>7, <2>8 DEF Switch, CpuFollowsTask, KernelStackFor, InterruptStackFor
  <2>10. FramesOwned'
    <3>1. ASSUME NEW t \in Task, Built(t), t # next
          PROVE  /\ rsp'[t] = [of |-> t, on |-> InterruptedOn(t)]
                 /\ running' \in Task => rsp'[t].on.kind = "kernel"
      <4>1. CASE t # current_task_id
        BY <2>1, <2>2, <3>1, <4>1 DEF FramesOwned
      <4>2. CASE t = current_task_id
        <5>1. rsp'[t] = frame
          BY <2>1, <2>2, <4>2
        <5>2. ASSUME running' \in Task PROVE FrameStack(running).kind = "kernel"
          <6>1. ~ LosesStack(next)
            BY <2>5, <2>52, <5>2
          <6>2. ASSUME FrameStack(running).kind = "user" PROVE FALSE
            <7>1. cr3[next] = current_cr3 /\ current_cr3 = cr3[running]
              BY <6>1, <6>2 DEF LosesStack, CpuFollowsTask
            <7>2. current_cr3 # 0
              BY <6>2 DEF TimerTick, MayHold
            <7> QED
              BY <3>1, <4>2, <7>1, <7>2 DEF StacksInOrder
          <6> QED
            BY <2>0, <6>2, Stacks
        <5> QED
          BY <2>0, <4>2, <5>1, <5>2
      <4> QED
        BY <4>1, <4>2
    <3>2. \A t \in overwritten' : privilege'[rsp'[t].on.of] = "Kernel"
      BY <2>21 DEF Ring0
    <3>3. current_task_id' = next
      BY DEF Switch
    <3>4. running' = Nobody => creating' # NotCreating /\ current_task_id' = creating'.id
      BY <2>4, <2>5, <3>3
    <3>5. running' = Astray =>
            \/ current_task_id' \in overwritten'
            \/ \E t \in Task : pc'[t] = "returning" /\ ustack'[t].kind = "user"
      BY <2>5, <2>51, <3>3
    <3> QED
      BY <2>21, <3>1, <3>2, <3>3, <3>4, <3>5 DEF FramesOwned, InterruptedOn
  <2>11. SlotsInOrder'
    <3>1. ASSUME NEW t \in Task, ~ Built(t)
          PROVE  /\ rsp'[t] = NoFrame /\ state'[t] # "Killed" /\ t \notin smashed'
                 /\ t \notin overwritten'
      <4>1. t # current_task_id /\ rsp[t] = NoFrame /\ state[t] # "Killed" /\ t \notin smashed
        BY <3>1 DEF SlotsInOrder, ContextsInOrder
      <4>2. rsp'[t] = NoFrame
        BY <2>1, <2>2, <4>1
      <4>3. state'[t] # "Killed"
        BY <2>7, <2>8, <4>1
      <4>4. t \notin smashed' /\ t \notin overwritten'
        BY <2>21, <3>1, <4>1, InterruptSmashes
      <4> QED
        BY <4>2, <4>3, <4>4
    <3> QED
      BY <3>1 DEF SlotsInOrder
  <2>12. ContextsInOrder'
    BY <2>5, <2>52 DEF ContextsInOrder, Switch, InterruptStackFor
  <2> QED
    BY <1>4, <2>6, <2>9, <2>10, <2>11, <2>12, <2>21
<1> QED
  BY <1>5, <1>6, TickCases

\* A tick that finds no stack stops the CPU.
LEMMA TickWithoutStackKeeps == ASSUME IInv, TickWithoutStack PROVE IInv'
<1> USE Slots DEF IInv, TickWithoutStack, slots, cpu
<1>1. TypeOK'
  BY DEF TypeOK
<1>2. CpuFollowsTask' /\ UserStacksPrivate'
  BY DEF CpuFollowsTask, UserStacksPrivate
<1>3. \A t \in Task : Built(t)' <=> Built(t)
  BY DEF Built, InUse
<1>4. FramesOwned'
  <2>1. pc'[running] = "returning" /\ ustack'[running].kind = "user"
    BY FrameStackIs DEF MayLack
  <2> QED
    BY <1>3, <2>1 DEF FramesOwned, InterruptedOn
<1>5. SlotsInOrder' /\ ContextsInOrder'
  BY <1>3 DEF SlotsInOrder, ContextsInOrder
<1>6. StacksInOrder'
  BY <1>3, StacksStay DEF Ring0, StacksInOrder
<1> QED
  BY <1>1, <1>2, <1>4, <1>5, <1>6

------------------------------------------------------------------------------
(* System calls and faults: one context moves, no slot is counted or filled. *)

\* A step that moves the context of the running task within kernel or user code, and
\* pushes nothing onto the stack of another user task, keeps the invariant.
LEMMA ContextStep ==
  ASSUME IInv, NEW t \in Task, running = t,
         NEW place \in Places \ {"unborn", "main", "kernel"},
         pc[t] # "main",
         pc' = [pc EXCEPT ![t] = place],
         state' = state \/ exitCurrentTask,
         user_rsp' = user_rsp \/ user_rsp' \in Stack,
         user_rsp'.kind = "kernel" => Ring0(user_rsp'.of),
         place \in {"entry", "handler", "sysret"} => user_rsp' # NoStack,
         NEW stack \in Stack, ustack' = [ustack EXCEPT ![t] = stack],
         stack.kind = "kernel" => Ring0(stack.of),
         NEW pushed \in SUBSET Task, smashed' = smashed \cup pushed,
         \A u \in pushed : Built(u) /\ privilege[u] = "Kernel",
         UNCHANGED <<task_count, privilege, rsp, cr3, cpu, running, creating, overwritten,
                     waited>>
  PROVE  IInv'
<1> USE Slots DEF IInv, cpu
<1>1. /\ state' \in [Task -> {"Ready", "Running", "Killed"}]
      /\ \A u \in Task : state'[u] = state[u] \/ (u = running /\ u # 0 /\ state'[u] = "Killed")
  BY DEF TypeOK, exitCurrentTask, CpuFollowsTask
<1>2. \A u \in Task : Built(u)' <=> Built(u)
  BY DEF Built, InUse
<1>3. t # 0 /\ Built(t) /\ tss_rsp0 = t
  BY DEF ContextsInOrder
<1>4. \A u \in Task : pc'[u] = IF u = t THEN place ELSE pc[u]
  BY DEF TypeOK
<1>5. TypeOK'
  BY <1>1 DEF TypeOK
<1>6. CpuFollowsTask'
  BY <1>1, <1>3, <1>4 DEF CpuFollowsTask
<1>7. FramesOwned'
  <2>1. \A u \in Task \ {t} : pc'[u] = pc[u] /\ ustack'[u] = ustack[u]
    BY DEF TypeOK
  <2>2. t = current_task_id /\ running' # Nobody /\ running' # Astray
    BY DEF CpuFollowsTask
  <2> QED
    BY <1>2, <2>1, <2>2 DEF FramesOwned, InterruptedOn
<1>8. UserStacksPrivate'
  BY DEF UserStacksPrivate
<1>9. SlotsInOrder'
  BY <1>1, <1>2, <1>3, <1>4 DEF SlotsInOrder
<1>10. ContextsInOrder'
  BY <1>2, <1>3, <1>4 DEF ContextsInOrder
<1>11. StacksInOrder'
  <2>1. \A u \in Task : Ring0(u)' <=> Ring0(u)
    BY <1>2 DEF Ring0
  <2>2. \A u \in Task : ustack'[u] \in Stack /\ (ustack'[u].kind = "kernel" => Ring0(ustack'[u].of))
    BY DEF TypeOK, StacksInOrder
  <2>3. \A u \in Task : ustack'[u].kind = "kernel" => Ring0(ustack[u].of)'
    BY <2>1, <2>2, Stacks
  <2>4. user_rsp'.kind = "kernel" => Ring0(user_rsp.of)'
    <3>1. user_rsp' \in Stack \cup {NoStack}
      BY DEF TypeOK
    <3> QED
      BY <2>1, <3>1, Stacks
  <2>5. \A u \in Task : pc'[u] \in {"entry", "handler", "sysret"} => user_rsp' # NoStack
    BY <1>4, Stacks DEF StacksInOrder
  <2>6. \A u \in overwritten' : Ring0(rsp[u].on.of)'
    BY <2>1, OverwrittenFrames DEF StacksInOrder
  <2> QED
    BY <2>3, <2>4, <2>5, <2>6 DEF StacksInOrder
<1> QED
  BY <1>5, <1>6, <1>7, <1>8, <1>9, <1>10, <1>11

\* A fault in ring 0 stops the CPU.
LEMMA KernelFaultKeeps == ASSUME IInv, NEW t \in Task, KernelFault(t) PROVE IInv'
<1> USE Slots DEF IInv, KernelFault, slots, cpu
<1>1. TypeOK'
  BY DEF TypeOK
<1>2. CpuFollowsTask' /\ UserStacksPrivate'
  BY DEF CpuFollowsTask, UserStacksPrivate
<1>3. \A u \in Task : Built(u)' <=> Built(u)
  BY DEF Built, InUse
<1>4. FramesOwned'
  BY <1>3 DEF FramesOwned, InterruptedOn
<1>5. SlotsInOrder' /\ ContextsInOrder'
  BY <1>3 DEF SlotsInOrder, ContextsInOrder
<1>6. StacksInOrder'
  BY <1>3, StacksStay DEF Ring0, StacksInOrder
<1> QED
  BY <1>1, <1>2, <1>4, <1>5, <1>6

\* A step that moves the running context and no stack pointer.
LEMMA PlaceStep ==
  ASSUME IInv, NEW t \in Task, running = t,
         NEW place \in Places \ {"unborn", "main", "kernel"},
         pc[t] # "main",
         pc' = [pc EXCEPT ![t] = place],
         state' = state \/ exitCurrentTask,
         place \in {"entry", "handler", "sysret"} => pc[t] \in {"entry", "handler", "sysret"},
         NEW pushed \in SUBSET Task, smashed' = smashed \cup pushed,
         \A u \in pushed : Built(u) /\ privilege[u] = "Kernel",
         UNCHANGED <<task_count, privilege, rsp, cr3, cpu, user_rsp, ustack, running, creating,
                     overwritten, waited>>
  PROVE  IInv'
<1>1. user_rsp.kind = "kernel" => Ring0(user_rsp.of)
  BY DEF IInv, StacksInOrder
<1>2. place \in {"entry", "handler", "sysret"} => user_rsp # NoStack
  BY DEF IInv, StacksInOrder
<1>3. /\ ustack[t] \in Stack /\ ustack' = [ustack EXCEPT ![t] = ustack[t]]
      /\ ustack[t].kind = "kernel" => Ring0(ustack[t].of)
  BY DEF IInv, TypeOK, StacksInOrder
<1> QED
  BY <1>1, <1>2, <1>3, ContextStep

\* What the running task does in ring 3 and in a system call.
LEMMA TaskStepKeeps == ASSUME IInv, NEW t \in Task, TaskStep(t) PROVE IInv'
<1> USE Slots
<1>1. CASE SyscallEntry(t)
  <2> DEFINE pushed == IF pc[t] = "kernel" THEN {current_kernel_stack}
                       ELSE {current_kernel_stack} \ {t}
             left == IF pc[t] = "user" THEN ustack[t] ELSE Kernel(t)
  <2>1. pushed \in SUBSET Task /\ \A u \in pushed : Built(u) /\ privilege[u] = "Kernel"
    BY <1>1 DEF SyscallEntry, IInv, TypeOK, CpuFollowsTask, ContextsInOrder
  <2>2. left \in Stack /\ (left.kind = "kernel" => Ring0(left.of)) /\ left # NoStack
    <3>1. ustack[t] \in Stack /\ (ustack[t].kind = "kernel" => Ring0(ustack[t].of))
      BY DEF IInv, TypeOK, StacksInOrder
    <3>2. pc[t] # "user" => Ring0(t)
      BY <1>1 DEF SyscallEntry, IInv, ContextsInOrder, Ring0
    <3> QED
      BY <3>1, <3>2, Stacks
  <2>3. /\ ustack[t] \in Stack /\ ustack' = [ustack EXCEPT ![t] = ustack[t]]
        /\ ustack[t].kind = "kernel" => Ring0(ustack[t].of)
    BY <1>1 DEF SyscallEntry, IInv, TypeOK, StacksInOrder
  <2>4. /\ pc' = [pc EXCEPT ![t] = "entry"] /\ pc[t] # "main" /\ running = t
        /\ user_rsp' = left /\ smashed' = smashed \cup pushed /\ state' = state
        /\ UNCHANGED <<task_count, privilege, rsp, cr3, cpu, running, creating, overwritten,
                       waited>>
    BY <1>1 DEF SyscallEntry, slots
  <2>5. "entry" \in Places \ {"unborn", "main", "kernel"}
    BY DEF Places, InSyscall
  <2> HIDE DEF pushed, left
  <2> QED
    BY <2>1, <2>2, <2>3, <2>4, <2>5, ContextStep
<1> DEFINE none == {}
<1>0. none \in SUBSET Task /\ smashed = smashed \cup none /\ \A u \in none : FALSE
  OBVIOUS
<1>2. CASE HandlerStarts(t)
  <2>1. "handler" \in Places \ {"unborn", "main", "kernel"}
    BY DEF Places, InSyscall
  <2> HIDE DEF none
  <2> QED
    BY <1>0, <1>2, <2>1, PlaceStep DEF HandlerStarts, slots
<1>3. CASE HandlerReturns(t)
  <2>1. "sysret" \in Places \ {"unborn", "main", "kernel"}
    BY DEF Places, InSyscall
  <2>2. pc[t] \in {"entry", "handler", "sysret"} /\ pc[t] # "main"
    BY <1>3 DEF HandlerReturns
  <2> HIDE DEF none
  <2> QED
    BY <1>0, <1>3, <2>1, <2>2, PlaceStep DEF HandlerReturns, slots
<1>4. CASE HandlerExits(t)
  <2>1. "exit_spin" \in Places \ {"unborn", "main", "kernel"}
    BY DEF Places
  <2> HIDE DEF none
  <2> QED
    BY <1>0, <1>4, <2>1, PlaceStep DEF HandlerExits, slots
<1>5. CASE SwitchBack(t)
  <2>1. "returning" \in Places \ {"unborn", "main", "kernel"}
    BY DEF Places, InSyscall
  <2>2. user_rsp \in Stack /\ (user_rsp.kind = "kernel" => Ring0(user_rsp.of))
    BY <1>5 DEF SwitchBack, IInv, TypeOK, StacksInOrder
  <2>3. /\ pc' = [pc EXCEPT ![t] = "returning"] /\ pc[t] # "main" /\ running = t
        /\ user_rsp' = user_rsp /\ ustack' = [ustack EXCEPT ![t] = user_rsp]
        /\ smashed' = smashed /\ state' = state
        /\ UNCHANGED <<task_count, privilege, rsp, cr3, cpu, running, creating, overwritten,
                       waited>>
    BY <1>5 DEF SwitchBack, slots
  <2> HIDE DEF none
  <2> QED
    BY <1>0, <2>1, <2>2, <2>3, ContextStep
<1>6. CASE SyscallReturn(t)
  <2>1. "user" \in Places \ {"unborn", "main", "kernel"}
    BY DEF Places, Ring3
  <2> HIDE DEF none
  <2> QED
    BY <1>0, <1>6, <2>1, PlaceStep DEF SyscallReturn, slots
<1>7. CASE UserFault(t)
  <2>1. "idle_after_fault" \in Places \ {"unborn", "main", "kernel"}
    BY DEF Places
  <2>2. FrameSmashes(t) \in SUBSET Task /\ \A u \in FrameSmashes(t) : Built(u) /\ privilege[u] = "Kernel"
    BY <1>7, InterruptSmashes DEF UserFault
  <2> QED
    BY <1>7, <2>1, <2>2, PlaceStep DEF UserFault
<1>8. CASE KernelFault(t)
  BY <1>8, KernelFaultKeeps
<1> QED
  BY <1>1, <1>2, <1>3, <1>4, <1>5, <1>6, <1>7, <1>8 DEF TaskStep

------------------------------------------------------------------------------
(* The theorems. *)

\* Every step keeps the invariant.
LEMMA NextInvariant == IInv /\ [Next]_vars => IInv'
<1> SUFFICES ASSUME IInv, [Next]_vars PROVE IInv'
  OBVIOUS
<1>1. CASE TimerTick
  BY <1>1, TimerTickKeeps
<1>2. CASE Create
  BY <1>2, CreateReserveKeeps, CreateFillKeeps, CreateFrameKeeps DEF Create
<1>3. CASE \E t \in Task : KillTask(t)
  BY <1>3, KillTaskKeeps
<1>4. CASE \E t \in Task : TaskStep(t)
  BY <1>4, TaskStepKeeps
<1>5. CASE TickWithoutStack
  BY <1>5, TickWithoutStackKeeps
<1>6. CASE UNCHANGED vars
  BY <1>6 DEF vars, slots, cpu, IInv, TypeOK, CpuFollowsTask, FramesOwned, UserStacksPrivate,
     SlotsInOrder, ContextsInOrder, StacksInOrder, Built, InUse, InterruptedOn, Ring0
<1> QED
  BY <1>1, <1>2, <1>3, <1>4, <1>5, <1>6 DEF Next

\* The inductive invariant.
THEOREM Invariant == Spec => []IInv
BY InitInvariant, NextInvariant, PTL DEF Spec

\* TypeOK: every variable has its type, so no slot, no stack and no page-table root
\* outside tasks[] is ever used.
THEOREM TypeCorrect == Spec => []TypeOK
BY Invariant, PTL DEF IInv

\* CpuFollowsTask: the CPU, the TSS, the kernel stack of system calls and the page tables
\* are those of the task scheduler.zig believes to be current.
THEOREM CpuFollowsTaskHolds == Spec => []CpuFollowsTask
BY Invariant, PTL DEF IInv

\* FramesOwned: every task off the CPU has its own frame, on the stack it was interrupted
\* on, whatever stack that was; a tick inside createTask, a frame written over on the stack
\* of a ring 0 task and a tick at the very end of syscall_entry are the only ways to lose
\* the CPU.
THEOREM FramesOwnedHolds == Spec => []FramesOwned
BY Invariant, PTL DEF IInv

\* UserStacksPrivate: nothing is pushed onto the kernel stack of a ring 3 task over its
\* frames.
THEOREM UserStacksPrivateHolds == Spec => []UserStacksPrivate
BY Invariant, PTL DEF IInv

\* A step leaves a killed task killed.
LEMMA StepKeepsKilled ==
  ASSUME IInv, [Next]_vars, NEW t \in Task, state[t] = "Killed"
  PROVE  state'[t] = "Killed"
<1>1. CASE TimerTick
  <2>1. CASE UNCHANGED <<slots, cpu, running, waited>>
    BY <2>1 DEF slots
  <2>2. ASSUME NEW next \in Task, CanRun(Saved, next), Switch(next)
        PROVE  state'[t] = "Killed"
    <3>1. Saved[t] = "Killed" /\ Saved \in [Task -> {"Ready", "Running", "Killed"}]
      BY DEF IInv, TypeOK, Saved
    <3>2. t # next
      BY <2>2, <3>1 DEF CanRun
    <3> QED
      BY <2>2, <3>1, <3>2 DEF Switch
  <2> QED
    BY <1>1, <2>1, <2>2, TickCases
<1>2. CASE Create
  <2>1. CASE CreateReserve \/ CreateFrame
    BY <2>1 DEF CreateReserve, CreateFrame
  <2>2. ASSUME NEW kind \in {"Kernel", "User"}, CreateFill(kind) PROVE state'[t] = "Killed"
    <3>1. t # creating.id
      BY <2>2 DEF CreateFill, NotCreating, IInv, SlotsInOrder, TypeOK, Built
    <3> QED
      BY <2>2, <3>1 DEF CreateFill, IInv, TypeOK
  <2> QED
    BY <1>2, <2>1, <2>2 DEF Create
<1>3. CASE \E u \in Task : KillTask(u)
  BY <1>3 DEF KillTask, IInv, TypeOK
<1>4. CASE \E u \in Task : TaskStep(u)
  BY <1>4 DEF TaskStep, SyscallEntry, HandlerStarts, HandlerReturns, HandlerExits, SwitchBack,
     SyscallReturn, UserFault, KernelFault, exitCurrentTask, slots, IInv, TypeOK
<1>5. CASE TickWithoutStack \/ UNCHANGED vars
  BY <1>5 DEF TickWithoutStack, vars, slots
<1> QED
  BY <1>1, <1>2, <1>3, <1>4, <1>5 DEF Next

\* NoResurrection: once Killed, always Killed.
THEOREM NoResurrectionHolds == Spec => NoResurrection
<1>1. IInv /\ [Next]_vars => [\A t \in Task : state[t] = "Killed" => state'[t] = "Killed"]_vars
  BY StepKeepsKilled
<1> QED
  BY <1>1, Invariant, PTL DEF Spec, NoResurrection

------------------------------------------------------------------------------
(* Nobody waits for ever longer. *)

\* The round-robin loop looks at slot t after as many others as t may still have to wait
\* for: a switch to another task brings t nearer, and a slot that comes to the end of the
\* table is created while kernel_main, the first, is on the CPU.
WaitInOrder ==
  /\ waited[current_task_id] = 0
  /\ \A t \in Task : ~ InUse(t) => waited[t] = 0
  /\ \A t \in Task : waited[t] + Looks(t) < MAX_TASKS

\* The remainder of what is at most one turn back.
LEMMA Around ==
  ASSUME NEW n \in Nat \ {0}, NEW x \in Int, - n <= x, x < n
  PROVE  x % n = IF x < 0 THEN x + n ELSE x
<1>1. CASE x >= 0
  BY <1>1
<1>2. CASE x < 0
  <2>1. x + n \in 0 .. n - 1 /\ x = (-1) * n + (x + n)
    BY <1>2
  <2> QED
    BY <1>2, <2>1
<1> QED
  BY <1>1, <1>2

\* A task that is passed over for one that is looked at before it is nearer to its turn.
LEMMA Nearer ==
  ASSUME NEW n \in Nat \ {0}, NEW c \in 0 .. n - 1, NEW next \in 0 .. n - 1,
         NEW t \in 0 .. n - 1, t # next, (next - c - 1) % n <= (t - c - 1) % n
  PROVE  (t - next - 1) % n < (t - c - 1) % n
<1>1. ASSUME NEW u \in 0 .. n - 1, NEW d \in 0 .. n - 1
      PROVE  (u - d - 1) % n = IF u - d - 1 < 0 THEN u - d - 1 + n ELSE u - d - 1
  <2>1. u - d - 1 \in Int /\ - n <= u - d - 1 /\ u - d - 1 < n
    OBVIOUS
  <2> QED
    BY <2>1, Around
<1> DEFINE Turn(u, d) == (u - d - 1) % n
<1>2. /\ Turn(next, c) = IF next - c - 1 < 0 THEN next - c - 1 + n ELSE next - c - 1
      /\ Turn(t, c) = IF t - c - 1 < 0 THEN t - c - 1 + n ELSE t - c - 1
      /\ Turn(t, next) = IF t - next - 1 < 0 THEN t - next - 1 + n ELSE t - next - 1
  BY <1>1
<1>3. Turn(next, c) <= Turn(t, c)
  OBVIOUS
<1> HIDE DEF Turn
<1>4. Turn(t, next) < Turn(t, c)
  BY <1>2, <1>3
<1> QED
  BY <1>4 DEF Turn

\* A switch to the next task.
LEMMA SwitchKeepsWait ==
  ASSUME IInv, WaitInOrder, running \in Task, UNCHANGED task_count,
         NEW next \in Task, Picks(Saved, next), Switch(next)
  PROVE  WaitInOrder'
<1>1. /\ task_count \in Nat \ {0} /\ task_count <= MAX_TASKS /\ MAX_TASKS \in Nat
      /\ current_task_id \in 0 .. task_count - 1
      /\ waited \in [Task -> Nat] /\ 0 \in Task
  <2>1. /\ task_count \in 1 .. MAX_TASKS /\ MAX_TASKS \in Nat
        /\ waited \in [Task -> Nat] /\ 0 \in Task
    BY TasksAssumption, Slots DEF IInv, TypeOK
  <2>2. current_task_id \in Task /\ current_task_id < task_count
    BY DEF IInv, CpuFollowsTask, ContextsInOrder, Built, InUse
  <2> QED
    BY <2>1, <2>2 DEF Task
<1>2. /\ current_task_id' = next /\ task_count' = task_count
      /\ waited' = [t \in Task |->
                      IF t # next /\ CanRun(Saved, t) /\ SavedRsp(next)[t] # NoFrame
                      THEN waited[t] + 1 ELSE 0]
  BY DEF Switch
<1>3. next \in 0 .. task_count - 1
  BY <1>1 DEF Picks, CanRun, InUse, Task
<1>4. ASSUME NEW t \in Task, t # next, CanRun(Saved, t)
      PROVE  /\ t \in 0 .. task_count - 1
             /\ Looks(next) <= Looks(t)
  BY <1>1, <1>4 DEF Picks, CanRun, InUse, Task
<1>5. ASSUME NEW t \in Task PROVE Looks(t)' \in 0 .. task_count - 1
  BY <1>1, <1>2, <1>3 DEF Looks, Task
<1>6. ASSUME NEW t \in Task PROVE waited'[t] + Looks(t)' < MAX_TASKS
  <2>1. CASE waited'[t] = 0
    BY <1>1, <1>5, <2>1
  <2>2. CASE waited'[t] # 0
    <3>1. t # next /\ CanRun(Saved, t) /\ waited'[t] = waited[t] + 1
      BY <1>2, <2>2
    <3>2. t \in 0 .. task_count - 1 /\ Looks(next) <= Looks(t)
      BY <1>4, <3>1
    <3>3. Looks(t)' < Looks(t)
      BY <1>1, <1>2, <1>3, <3>1, <3>2, Nearer DEF Looks
    <3>4. waited[t] + Looks(t) < MAX_TASKS /\ waited[t] \in Nat
      BY <1>1 DEF WaitInOrder
    <3>5. Looks(t) \in Int /\ Looks(t)' \in Int
      BY <1>1, <1>2, <1>3, <3>2 DEF Looks
    <3> QED
      BY <1>1, <3>1, <3>3, <3>4, <3>5
  <2> QED
    BY <2>1, <2>2
<1>7. waited'[next] = 0 /\ \A t \in Task : ~ InUse(t)' => waited'[t] = 0
  BY <1>2 DEF CanRun, InUse
<1> QED
  BY <1>2, <1>6, <1>7 DEF WaitInOrder

\* A new slot.
LEMMA ReserveKeepsWait ==
  ASSUME IInv, WaitInOrder, CreateReserve
  PROVE  WaitInOrder'
<1>1. /\ task_count \in Nat \ {0} /\ task_count < MAX_TASKS /\ MAX_TASKS \in Nat
      /\ task_count' = task_count + 1 /\ UNCHANGED <<current_task_id, waited>>
      /\ current_task_id = 0 /\ waited \in [Task -> Nat]
  BY TasksAssumption, Slots DEF IInv, TypeOK, CpuFollowsTask, CreateReserve, cpu
<1>2. ASSUME NEW t \in Task PROVE waited[t] + Looks(t)' < MAX_TASKS
  <2>1. Looks(t)' = (t - 1) % (task_count + 1) /\ Looks(t) = (t - 1) % task_count /\ t \in Nat
    BY <1>1 DEF Looks, Task
  <2>2. CASE t = 0 \/ t >= task_count
    <3>1. waited[t] = 0
      BY <1>1, <2>1, <2>2 DEF WaitInOrder, InUse
    <3> QED
      BY <1>1, <2>1, <3>1
  <2>3. CASE t \in 1 .. task_count - 1
    <3>1. Looks(t)' = t - 1 /\ Looks(t) = t - 1
      <4>1. t - 1 \in Int /\ - task_count <= t - 1 /\ t - 1 < task_count /\ ~ (t - 1 < 0)
        BY <1>1, <2>3
      <4>2. (t - 1) % task_count = t - 1
        BY <1>1, <4>1, Around
      <4>3. (t - 1) % (task_count + 1) = t - 1
        <5>1. - (task_count + 1) <= t - 1 /\ t - 1 < task_count + 1 /\ task_count + 1 \in Nat \ {0}
          BY <1>1, <4>1
        <5> QED
          BY <4>1, <5>1, Around
      <4> QED
        BY <2>1, <4>2, <4>3
    <3> QED
      BY <1>1, <3>1 DEF WaitInOrder
  <2> QED
    BY <1>1, <2>1, <2>2, <2>3
<1>3. \A t \in Task : ~ InUse(t)' => ~ InUse(t)
  BY <1>1 DEF InUse, Task
<1> QED
  BY <1>1, <1>2, <1>3 DEF WaitInOrder

\* Every step keeps it.
LEMMA StepKeepsWait == IInv /\ WaitInOrder /\ [Next]_vars => WaitInOrder'
<1> SUFFICES ASSUME IInv, WaitInOrder, [Next]_vars PROVE WaitInOrder'
  OBVIOUS
<1>1. ASSUME UNCHANGED <<task_count, current_task_id, waited>> PROVE WaitInOrder'
  BY <1>1 DEF WaitInOrder, InUse, Looks
<1>2. CASE TimerTick
  <2>1. CASE UNCHANGED <<slots, cpu, running, waited>>
    BY <1>1, <2>1 DEF slots, cpu
  <2>2. CASE schedule /\ ~ UNCHANGED <<slots, cpu, running, waited>>
    <3>1. PICK next \in Task : Picks(Saved, next) /\ Switch(next)
      BY <2>2 DEF schedule
    <3>2. UNCHANGED task_count /\ running \in Task
      BY <1>2, <2>2 DEF schedule, TimerTick
    <3> QED
      BY <3>1, <3>2, SwitchKeepsWait
  <2> QED
    BY <1>2, <2>1, <2>2 DEF TimerTick
<1>3. CASE Create
  <2>1. CASE CreateReserve
    BY <2>1, ReserveKeepsWait
  <2>2. CASE CreateFrame \/ \E kind \in {"Kernel", "User"} : CreateFill(kind)
    BY <1>1, <2>2 DEF CreateFrame, CreateFill, cpu
  <2> QED
    BY <1>3, <2>1, <2>2 DEF Create
<1>4. CASE \E t \in Task : KillTask(t)
  BY <1>1, <1>4 DEF KillTask, cpu
<1>5. CASE \E t \in Task : TaskStep(t)
  BY <1>1, <1>5 DEF TaskStep, SyscallEntry, HandlerStarts, HandlerReturns, HandlerExits,
     SwitchBack, SyscallReturn, UserFault, KernelFault, slots, cpu
<1>6. CASE TickWithoutStack \/ UNCHANGED vars
  BY <1>1, <1>6 DEF TickWithoutStack, vars, slots, cpu
<1> QED
  BY <1>2, <1>3, <1>4, <1>5, <1>6 DEF Next

\* BoundedWait: whatever is created and killed meanwhile, a task that can run waits for fewer
\* switches than there are slots.
THEOREM WaitBounded == Spec => []BoundedWait
<1>1. Init => WaitInOrder
  <2> SUFFICES ASSUME Init PROVE WaitInOrder
    OBVIOUS
  <2>1. /\ task_count = 1 /\ MAX_TASKS \in Nat /\ MAX_TASKS > 1 /\ 0 \in Task
        /\ current_task_id = 0 /\ waited = [t \in Task |-> 0]
    BY TasksAssumption, Slots DEF Init
  <2>2. ASSUME NEW t \in Task PROVE waited[t] + Looks(t) < MAX_TASKS
    BY <2>1 DEF Looks, Task
  <2> QED
    BY <2>1, <2>2 DEF WaitInOrder
<1>2. IInv /\ WaitInOrder => BoundedWait
  <2> SUFFICES ASSUME IInv, WaitInOrder, NEW t \in Task PROVE waited[t] < MAX_TASKS
    BY DEF BoundedWait
  <2>1. /\ task_count \in Nat \ {0} /\ current_task_id \in Nat /\ waited[t] \in Nat /\ t \in Nat
        /\ MAX_TASKS \in Nat
    BY TasksAssumption DEF IInv, TypeOK, Task
  <2>2. Looks(t) \in Nat
    BY <2>1 DEF Looks
  <2> QED
    BY <2>1, <2>2 DEF WaitInOrder
<1> QED
  BY <1>1, <1>2, StepKeepsWait, Invariant, PTL DEF Spec

==============================================================================
