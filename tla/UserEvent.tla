------------------------------ MODULE UserEvent -----------------------------
(***************************************************************************)
(* One user event: manual activation through its doorbell, its periodic    *)
(* timer, the coroutine that waits or sleeps on it, and its deletion.      *)
(*                                                                         *)
(* Three words are changed by compare-and-swap and form three protocols:   *)
(* header.tag (references, DELETE, WAITER_COMMITTED and the incarnation),  *)
(* timerControl (a new schedule or pending ticks, and the OWNER bit) and   *)
(* waiter (credits, a parked coroutine or "deleted").  Calls nest, so each *)
(* thread has a stack of frames and moves the top one.  A loop that        *)
(* retries a compare-and-swap and reads nothing else is one step.          *)
(***************************************************************************)
EXTENDS Integers, Sequences, FiniteSets, FiniteSetsExt, TLC

CONSTANTS
  Loops,   \* loop threads
  Scenes   \* kinds of events: callback # 0, isSemaphore and whether the timer may fail to
           \* start; and the bounds: maxInputs on the calls, the activations and the deletion
           \* together, maxExpired on the expirations a timerfd, or an owner, accumulates

VARIABLES
  scene,         \* one of Scenes
  refs, deleting, committed, incarnation,      \* header.tag
  timerControl,  \* [low, counter, gen, owner]; low is a period in a new schedule, else pending ticks
  armed, remaining,      \* aioTimerUserEventState, written by the owner only
  kernelTimer,   \* the timerfd and its published cell: [on, gen, life, expired]
  timerEdge,     \* generations whose readiness epoll_wait has yet to return
  signalState, bell,     \* manual activations; the eventfd's readiness
  waiter,        \* [kind, credits, seq]
  stack,         \* per thread
  woken,         \* who resumed the coroutine: <<>> until somebody does
  calls, acts,   \* inputs so far
  allowed, unlimited,    \* callbacks still allowed by activations and schedules
  fired, returned        \* ticks that reached the waiter word, and wakeups taken from it

vars == <<scene, refs, deleting, committed, incarnation, timerControl, armed, remaining, kernelTimer, timerEdge,
          signalState, bell, waiter, stack, woken, calls, acts, allowed, unlimited, fired, returned>>

Users == {"caller", "activator", "deleter"}
Threads == Users \cup Loops

tag == <<refs, deleting, committed, incarnation>>
timer == <<timerControl, armed, remaining, kernelTimer, timerEdge>>
manual == <<signalState, bell>>
history == <<calls, acts, allowed, unlimited, fired, returned>>

callback == scene.callback
isSemaphore == scene.isSemaphore

\* newUserEvent, and a reference for each thread that uses the event.
Init ==
  /\ scene \in Scenes
  /\ refs = 3 /\ deleting = FALSE /\ committed = FALSE /\ incarnation = 0
  /\ timerControl = [low |-> 0, counter |-> 0, gen |-> 0, owner |-> FALSE]
  /\ armed = FALSE /\ remaining = 0
  /\ kernelTimer = [on |-> FALSE, gen |-> 0, life |-> 0, expired |-> 0]
  /\ timerEdge = {}
  /\ signalState = 0 /\ bell = FALSE
  /\ waiter = [kind |-> "credits", credits |-> 0, seq |-> 0]
  /\ stack = [x \in Threads |-> <<[at |-> "idle"]>>]
  /\ woken = <<>>
  /\ calls = 0 /\ acts = 0 /\ allowed = 0 /\ unlimited = FALSE /\ fired = 0 /\ returned = 0

Top(x) == Head(stack[x])
At(x, pc) == stack[x] # <<>> /\ Top(x).at = pc
Set(x, frames) == stack' = [stack EXCEPT ![x] = frames]
Become(x, frame) == Set(x, <<frame>> \o Tail(stack[x]))
Return(x) == Set(x, Tail(stack[x]))
\* A call: the frame to continue with, below the frame of the callee.
CallThen(x, callee, after) == Set(x, <<callee, after>> \o Tail(stack[x]))

Publish(period, counter, required, terminal) ==
  [at |-> "publish", period |-> period, counter |-> counter, required |-> required, terminal |-> terminal]
-----------------------------------------------------------------------------
(* timerControl: whoever sets OWNER applies schedules and ticks for all.   *)

\* Only ioSleep uses the generation that eventTimerPublishConfig returns.
ReturnTo(x, generation) ==
  LET rest == Tail(stack[x])
  IN  Set(x, IF Head(rest).at = "install" THEN <<[Head(rest) EXCEPT !.gen = generation]>> \o Tail(rest) ELSE rest)

\* eventTimerPublishConfig reads the word, and refuses when the event is deleted or
\* the schedule is not the required one any more.
publishLoad(x) ==
  /\ At(x, "publish")
  /\ LET f == Top(x)
     IN  IF (~f.terminal /\ deleting) \/ (f.required # 0 /\ timerControl.gen # f.required)
         THEN ReturnTo(x, 0)
         ELSE Become(x, [f EXCEPT !.at = "publishCas"] @@ [old |-> timerControl])
  /\ UNCHANGED <<scene, tag, timer, manual, waiter, woken, history>>

\* A user owner returns the generation it published; a kernel owner delivers.
Owner(role, cur, applied) ==
  [at |-> "owner", role |-> role, cur |-> cur, applied |-> applied, count |-> 0,
   gen |-> IF role = "user" THEN cur.gen ELSE 0]

\* Slip: the publisher takes the ownership although a thread has it.
publishSteals(x) ==
  /\ At(x, "publishCas")
  /\ LET f == Top(x)
         new == [low |-> f.period, counter |-> f.counter, gen |-> f.old.gen + 1, owner |-> TRUE]
     IN  IF timerControl = f.old
         THEN timerControl' = new /\ Become(x, Owner("user", new, f.old.gen))
         ELSE Become(x, Publish(f.period, f.counter, f.required, f.terminal)) /\ UNCHANGED timerControl
  /\ UNCHANGED <<scene, tag, armed, remaining, kernelTimer, timerEdge, manual, waiter, woken, history>>

\* eventTimerPublishConfig: the next generation, owned by this thread if by nobody.
publishCas(x) ==
  /\ At(x, "publishCas")
  /\ LET f == Top(x)
         new == [low |-> f.period, counter |-> f.counter, gen |-> f.old.gen + 1, owner |-> TRUE]
     IN  IF timerControl = f.old
         THEN /\ timerControl' = new
              /\ IF f.old.owner THEN ReturnTo(x, new.gen) ELSE Become(x, Owner("user", new, f.old.gen))
         ELSE /\ Become(x, Publish(f.period, f.counter, f.required, f.terminal))
              /\ UNCHANGED timerControl
  /\ UNCHANGED <<scene, tag, armed, remaining, kernelTimer, timerEdge, manual, waiter, woken, history>>

StopTimer == kernelTimer' = [kernelTimer EXCEPT !.on = FALSE, !.expired = 0]

\* eventTimerApplyConfig: the old schedule is stopped first ...
ownerStop(x) ==
  /\ At(x, "owner")
  /\ Top(x).cur.gen # Top(x).applied
  /\ armed' = FALSE
  /\ IF armed THEN StopTimer ELSE UNCHANGED kernelTimer
  /\ Become(x, [Top(x) EXCEPT !.at = "apply"])
  /\ UNCHANGED <<scene, tag, timerControl, remaining, timerEdge, manual, waiter, woken, history>>

\* ... the word becomes active, unless a newer schedule landed ...
ownerApply(x) ==
  /\ At(x, "apply")
  /\ LET f == Top(x)
         active == [low |-> 0, counter |-> 0, gen |-> f.cur.gen, owner |-> TRUE]
     IN  IF timerControl = f.cur
         THEN /\ timerControl' = active
              /\ Become(x, IF f.cur.low = 0
                           THEN [f EXCEPT !.at = "owner", !.cur = active, !.applied = f.cur.gen]
                           ELSE [f EXCEPT !.at = "start"])
         ELSE /\ Become(x, [f EXCEPT !.at = "owner", !.cur = timerControl])
              /\ UNCHANGED timerControl
  /\ UNCHANGED <<scene, tag, armed, remaining, kernelTimer, timerEdge, manual, waiter, woken, history>>

\* ... and then the backend is armed for its generation, or fails to and is rolled back:
\* nobody is told.
ownerStart(x) ==
  /\ At(x, "start")
  /\ armed' \in IF scene.fails THEN BOOLEAN ELSE {TRUE}
  /\ LET f == Top(x)
     IN  /\ kernelTimer' = IF armed' THEN [on |-> TRUE, gen |-> f.cur.gen, life |-> incarnation, expired |-> 0]
                           ELSE [kernelTimer EXCEPT !.on = FALSE, !.expired = 0]
         /\ remaining' = f.cur.counter
         /\ Become(x, [f EXCEPT !.at = "owner", !.applied = f.cur.gen,
                                !.cur = [low |-> 0, counter |-> 0, gen |-> f.cur.gen, owner |-> TRUE]])
  /\ UNCHANGED <<scene, tag, timerControl, timerEdge, manual, waiter, woken, history>>

\* The owner drains the pending ticks from the word.
ownerDrain(x) ==
  /\ At(x, "owner")
  /\ Top(x).cur.gen = Top(x).applied /\ Top(x).cur.low > 0
  /\ LET f == Top(x)
         drained == [f.cur EXCEPT !.low = 0]
     IN  IF timerControl = f.cur
         THEN /\ timerControl' = drained
              /\ Become(x, [f EXCEPT !.cur = drained, !.at = IF armed THEN "consume" ELSE "owner"])
         ELSE /\ Become(x, [f EXCEPT !.cur = timerControl])
              /\ UNCHANGED timerControl
  /\ UNCHANGED <<scene, tag, armed, remaining, kernelTimer, timerEdge, manual, waiter, woken, history>>

MinOf(a, b) == IF a < b THEN a ELSE b

\* Slip: expirations beyond what remains of a finite schedule are counted, too.
ownerConsumeUnclamped(x) ==
  /\ At(x, "consume")
  /\ LET f == Top(x)
         count == kernelTimer.expired
         exhausted == remaining > 0 /\ remaining <= count
     IN  IF f.role = "user"
         THEN /\ Become(x, [f EXCEPT !.at = "owner"])
              /\ kernelTimer' = [kernelTimer EXCEPT !.expired = 0]
              /\ UNCHANGED <<armed, remaining>>
         ELSE /\ Become(x, [f EXCEPT !.at = "owner", !.count = @ + count, !.gen = IF count > 0 THEN f.applied ELSE @])
              /\ remaining' = IF exhausted \/ remaining = 0 THEN 0 ELSE remaining - count
              /\ kernelTimer' = [kernelTimer EXCEPT !.expired = 0, !.on = @ /\ ~exhausted]
              /\ armed' = ~exhausted
  /\ UNCHANGED <<scene, tag, timerControl, timerEdge, manual, waiter, woken, history>>

\* consumeEventTimerTick reads the timerfd.  A user owner discards what it reads; a
\* kernel owner counts it against the schedule, and stops an exhausted one.
ownerConsume(x) ==
  /\ At(x, "consume")
  /\ LET f == Top(x)
         count == IF remaining > 0 THEN MinOf(kernelTimer.expired, remaining) ELSE kernelTimer.expired
         kept == IF ~callback /\ f.gen # f.applied THEN 0 ELSE f.count
         exhausted == remaining > 0 /\ remaining = count
     IN  IF f.role = "user"
         THEN /\ Become(x, [f EXCEPT !.at = "owner"])
              /\ kernelTimer' = [kernelTimer EXCEPT !.expired = 0]
              /\ UNCHANGED <<armed, remaining>>
         ELSE /\ Become(x, IF count > 0 THEN [f EXCEPT !.at = "owner", !.count = kept + count, !.gen = f.applied]
                           ELSE [f EXCEPT !.at = "owner"])
              /\ remaining' = remaining - (IF remaining > 0 THEN count ELSE 0)
              /\ kernelTimer' = [kernelTimer EXCEPT !.expired = 0, !.on = @ /\ ~exhausted]
              /\ armed' = ~exhausted
  /\ UNCHANGED <<scene, tag, timerControl, timerEdge, manual, waiter, woken, history>>

\* eventTimerTryRelease: OWNER is dropped from the word exactly as it was seen.
ownerRelease(x) ==
  /\ At(x, "owner")
  /\ Top(x).cur.gen = Top(x).applied /\ Top(x).cur.low = 0
  /\ LET f == Top(x)
     IN  IF timerControl = f.cur
         THEN /\ timerControl' = [f.cur EXCEPT !.owner = FALSE]
              /\ IF f.role = "user" THEN ReturnTo(x, f.gen)
                 ELSE Become(x, [at |-> "deliver", count |-> f.count, gen |-> f.gen])
         ELSE /\ Become(x, [f EXCEPT !.cur = timerControl])
              /\ UNCHANGED timerControl
  /\ UNCHANGED <<scene, tag, armed, remaining, kernelTimer, timerEdge, manual, waiter, woken, history>>

ownerStep(x) ==
  ownerStop(x) \/ ownerApply(x) \/ ownerStart(x) \/ ownerDrain(x) \/ ownerConsume(x) \/ ownerRelease(x)
-----------------------------------------------------------------------------
(* References.                                                             *)

\* eventDecrementReference: the last release finalizes; the incarnation is bumped
\* and the backend lets go of the descriptors.
Decrement ==
  /\ refs' = refs - 1
  /\ IF refs = 1
     THEN /\ incarnation' = incarnation + 1
          /\ bell' = FALSE /\ timerEdge' = {}
     ELSE UNCHANGED <<incarnation, bell, timerEdge>>

eventDecrementReference(x) ==
  /\ At(x, "decrement")
  /\ Decrement
  /\ Return(x)
  /\ UNCHANGED <<scene, deleting, committed, timerControl, armed, remaining, kernelTimer, signalState, waiter, woken, history>>

\* newUserEvent takes the cell from the pool again: the generation of the schedules
\* survives, and the reference is published last.  Nobody uses the new event.
newUserEvent ==
  /\ refs = 0 /\ incarnation = 1
  /\ refs' = 1 /\ deleting' = FALSE /\ committed' = FALSE
  /\ timerControl' = [timerControl EXCEPT !.low = 0, !.counter = 0, !.owner = FALSE]
  /\ armed' = FALSE /\ remaining' = 0
  /\ waiter' = [kind |-> "credits", credits |-> 0, seq |-> 0]
  /\ signalState' = 0
  /\ UNCHANGED <<scene, incarnation, kernelTimer, timerEdge, bell, stack, woken, history>>
-----------------------------------------------------------------------------
(* The loop threads: readiness of the timerfd and of the eventfd.          *)

\* The timerfd expires: a fresh edge with the envelope of its publication.
expire ==
  /\ kernelTimer.on /\ kernelTimer.expired < scene.maxExpired
  /\ \A l \in Loops : At(l, "owner") \/ At(l, "consume") => Top(l).count <= scene.maxExpired
  /\ kernelTimer' = [kernelTimer EXCEPT !.expired = @ + 1]
  /\ timerEdge' = timerEdge \cup {kernelTimer.gen}
  /\ UNCHANGED <<scene, tag, timerControl, armed, remaining, manual, waiter, stack, woken, history>>

\* epoll_wait returns the timer's readiness; what follows may be arbitrarily late.
timerReady(l) ==
  /\ At(l, "idle")
  /\ \E g \in timerEdge :
       /\ timerEdge' = timerEdge \ {g}
       /\ Set(l, <<[at |-> "validate", gen |-> g]>> \o stack[l])
  /\ UNCHANGED <<scene, tag, timerControl, armed, remaining, kernelTimer, manual, waiter, woken, history>>

\* The published cell must still carry the generation of the envelope.
timerValidate(l) ==
  /\ At(l, "validate")
  /\ IF kernelTimer.on /\ kernelTimer.gen = Top(l).gen
     THEN Become(l, [at |-> "claim", gen |-> Top(l).gen, life |-> kernelTimer.life])
     ELSE Return(l)
  /\ UNCHANGED <<scene, tag, timer, manual, waiter, woken, history>>

\* Slip: a reference is claimed without comparing the incarnation.
timerClaimAnyLife(l) ==
  /\ At(l, "claim")
  /\ IF refs > 0 /\ ~deleting
     THEN refs' = refs + 1 /\ Become(l, [at |-> "signal", gen |-> Top(l).gen])
     ELSE Return(l) /\ UNCHANGED refs
  /\ UNCHANGED <<scene, deleting, committed, incarnation, timer, manual, waiter, woken, history>>

\* eventTimerTryClaimReference.
timerClaim(l) ==
  /\ At(l, "claim")
  /\ IF refs > 0 /\ ~deleting /\ incarnation = Top(l).life
     THEN refs' = refs + 1 /\ Become(l, [at |-> "signal", gen |-> Top(l).gen])
     ELSE Return(l) /\ UNCHANGED refs
  /\ UNCHANGED <<scene, deleting, committed, incarnation, timer, manual, waiter, woken, history>>

\* eventTimerSignal: one provisional tick, if the schedule is still that one; the
\* tick makes this thread the owner if there is none.
eventTimerSignal(l) ==
  /\ At(l, "signal")
  /\ IF timerControl.gen # Top(l).gen
     THEN Become(l, [at |-> "decrement"]) /\ UNCHANGED timerControl
     ELSE /\ timerControl' = [timerControl EXCEPT !.low = @ + 1, !.owner = TRUE]
          /\ Become(l, IF timerControl.owner THEN [at |-> "decrement"]
                       ELSE Owner("kernel", timerControl', timerControl.gen))
  /\ UNCHANGED <<scene, tag, armed, remaining, kernelTimer, timerEdge, manual, waiter, woken, history>>

Resume(count, byHand, gen) == [at |-> "resume", count |-> count, manual |-> byHand, gen |-> gen, old |-> waiter]

\* Callbacks are made: fewer remain allowed.
Deliver(count) == allowed' = IF unlimited THEN allowed ELSE allowed - count

\* The kernel owner delivers what it counted: callbacks, or the coroutine.
timerDeliver(l) ==
  /\ At(l, "deliver")
  /\ LET f == Top(l)
     IN  /\ IF callback THEN Deliver(f.count) ELSE UNCHANGED allowed
         /\ IF callback \/ f.count = 0 THEN Become(l, [at |-> "decrement"])
            ELSE CallThen(l, Resume(f.count, FALSE, f.gen), [at |-> "decrement"])
  /\ UNCHANGED <<scene, tag, timer, manual, waiter, woken, calls, acts, unlimited, fired, returned>>

\* epoll_wait returns the doorbell's edge.
bellReady(l) ==
  /\ At(l, "idle")
  /\ bell
  /\ bell' = FALSE
  /\ Set(l, <<[at |-> "bellClaim", life |-> incarnation]>> \o stack[l])
  /\ UNCHANGED <<scene, tag, timer, signalState, waiter, woken, history>>

\* eventManualTryClaimReference: a deleted event only for its committed waiter.
bellClaim(l) ==
  /\ At(l, "bellClaim")
  /\ IF refs > 0 /\ (deleting => committed) /\ incarnation = Top(l).life
     THEN refs' = refs + 1 /\ Become(l, [at |-> "manualReady"])
     ELSE Return(l) /\ UNCHANGED refs
  /\ UNCHANGED <<scene, deleting, committed, incarnation, timer, manual, waiter, woken, history>>

\* eventManualReady takes the whole count, and then looks whether the event is deleted.
eventManualReady(l) ==
  /\ At(l, "manualReady")
  /\ signalState' = 0
  /\ Become(l, IF signalState = 0 THEN [at |-> "decrement"] ELSE [at |-> "manualCount", count |-> signalState])
  /\ UNCHANGED <<scene, tag, timer, bell, waiter, woken, history>>

manualDispatch(l) ==
  /\ At(l, "manualCount")
  /\ LET n == Top(l).count
     IN  \/ /\ callback
            /\ Deliver(n)
            /\ Become(l, [at |-> "decrement"])
         \/ /\ ~callback
            /\ IF deleting THEN Become(l, [at |-> "cancel"])
               ELSE CallThen(l, Resume(n, TRUE, 0), [at |-> "decrement"])
            /\ UNCHANGED allowed
  /\ UNCHANGED <<scene, tag, timer, manual, waiter, woken, calls, acts, unlimited, fired, returned>>

\* eventProcessCancellation, eventCoroutineCancel: the waiter word becomes terminal,
\* and a coroutine that waited is resumed.
eventCoroutineCancel(l) ==
  /\ At(l, "cancel")
  /\ signalState' = 0
  /\ waiter' = [kind |-> "deleted", credits |-> 0, seq |-> waiter.seq + 1]
  /\ IF waiter.kind \in {"user", "sleep"}
     THEN woken' = <<"cancel", 0>> /\ Become(l, [at |-> "switched"])
     ELSE Become(l, [at |-> "decrement"]) /\ UNCHANGED woken
  /\ UNCHANGED <<scene, tag, timer, bell, history>>
-----------------------------------------------------------------------------
(* eventCoroutineResume: a wakeup becomes a credit or resumes the waiter.  *)

\* The word is loaded; a manual wake of a sleeper ends its schedule first, and a tick
\* of an ended schedule is dropped.
resumeLoad(l) ==
  /\ At(l, "resume")
  /\ LET f == [Top(l) EXCEPT !.old = waiter, !.at = "resumeCas"]
     IN  IF waiter.kind = "deleted" \/ (f.gen # 0 /\ timerControl.gen # f.gen) THEN Return(l)
         ELSE IF f.manual /\ waiter.kind = "sleep"
              THEN CallThen(l, Publish(0, 0, 0, FALSE), f)
              ELSE Become(l, f)
  /\ UNCHANGED <<scene, tag, timer, manual, waiter, woken, history>>

\* Slip: the swap compares the kind of waiter and not the sequence.
resumeAba(l) ==
  /\ At(l, "resumeCas")
  /\ LET f == Top(l)
         waits == waiter.kind \in {"user", "sleep"}
     IN  IF waiter.kind = f.old.kind
         THEN /\ waiter' = [kind |-> "credits", seq |-> waiter.seq + 1,
                            credits |-> IF waits THEN f.count - 1 ELSE waiter.credits + f.count]
              /\ woken' = IF waits THEN <<IF f.manual THEN "manual" ELSE "timer", f.gen>> ELSE woken
              /\ fired' = IF f.manual THEN fired ELSE fired + f.count
              /\ returned' = IF waits THEN returned + 1 ELSE returned
              /\ IF waits THEN Become(l, [at |-> "switched"]) ELSE Return(l)
         ELSE Become(l, [f EXCEPT !.at = "resume"]) /\ UNCHANGED <<waiter, woken, fired, returned>>
  /\ UNCHANGED <<scene, tag, timer, manual, calls, acts, allowed, unlimited>>

\* Slip: what is left of the count when a waiter is resumed is forgotten.
resumeDropsRest(l) ==
  /\ At(l, "resumeCas")
  /\ LET f == Top(l)
         waits == waiter.kind \in {"user", "sleep"}
     IN  IF waiter = f.old
         THEN /\ waiter' = [kind |-> "credits", seq |-> waiter.seq + 1,
                            credits |-> IF waits THEN 0 ELSE waiter.credits + f.count]
              /\ woken' = IF waits THEN <<IF f.manual THEN "manual" ELSE "timer", f.gen>> ELSE woken
              /\ fired' = IF f.manual THEN fired ELSE fired + f.count
              /\ returned' = IF waits THEN returned + 1 ELSE returned
              /\ IF waits THEN Become(l, [at |-> "switched"]) ELSE Return(l)
         ELSE Become(l, [f EXCEPT !.at = "resume"]) /\ UNCHANGED <<waiter, woken, fired, returned>>
  /\ UNCHANGED <<scene, tag, timer, manual, calls, acts, allowed, unlimited>>

\* The swap: all credits, or the waiter and the rest as credits; else again.
resumeCas(l) ==
  /\ At(l, "resumeCas")
  /\ LET f == Top(l)
         waits == waiter.kind \in {"user", "sleep"}
     IN  IF waiter = f.old
         THEN /\ waiter' = [kind |-> "credits", seq |-> waiter.seq + 1,
                            credits |-> IF waits THEN f.count - 1 ELSE waiter.credits + f.count]
              /\ woken' = IF waits THEN <<IF f.manual THEN "manual" ELSE "timer", f.gen>> ELSE woken
              /\ fired' = IF f.manual THEN fired ELSE fired + f.count
              /\ returned' = IF waits THEN returned + 1 ELSE returned
              /\ IF waits THEN Become(l, [at |-> "switched"]) ELSE Return(l)
         ELSE Become(l, [f EXCEPT !.at = "resume"]) /\ UNCHANGED <<waiter, woken, fired, returned>>
  /\ UNCHANGED <<scene, tag, timer, manual, calls, acts, allowed, unlimited>>

\* coroutineCall returns when the coroutine yields again or is done with its calls.
switchedBack(l) ==
  /\ At(l, "switched")
  /\ woken = <<>>
  /\ stack["caller"] = <<>> \/ At("caller", "yield")
  /\ IF Len(stack[l]) > 2 THEN Return(l) ELSE Become(l, [at |-> "decrement"])
  /\ UNCHANGED <<scene, tag, timer, manual, waiter, woken, history>>

loopStep(l) ==
  \/ timerReady(l) \/ timerValidate(l) \/ timerClaim(l) \/ eventTimerSignal(l) \/ timerDeliver(l)
  \/ bellReady(l) \/ bellClaim(l) \/ eventManualReady(l) \/ manualDispatch(l) \/ eventCoroutineCancel(l)
  \/ resumeLoad(l) \/ resumeCas(l) \/ switchedBack(l)
-----------------------------------------------------------------------------
(* The threads that own a reference.                                       *)

MayCall == calls + acts + (IF deleting THEN 1 ELSE 0) < scene.maxInputs

\* The last thing a user of the event does with its reference.  Before the deletion
\* it would change nothing: the deleting thread has a reference of its own.
release(x) ==
  /\ At(x, "idle") /\ x \in {"caller", "activator"} /\ deleting
  /\ Decrement
  /\ Return(x)
  /\ UNCHANGED <<scene, deleting, committed, timerControl, armed, remaining, kernelTimer, signalState, waiter, woken, history>>

Begin(x, frame) == Set(x, IF deleting THEN stack[x] ELSE <<frame>> \o stack[x])

\* userEventActivate: the count, and the doorbell on its way from zero.
userEventActivate ==
  /\ At("activator", "idle") /\ MayCall
  /\ acts' = acts + 1
  /\ allowed' = IF unlimited THEN allowed ELSE allowed + 1
  /\ Begin("activator", [at |-> "activate"])
  /\ UNCHANGED <<scene, tag, timer, manual, waiter, woken, calls, unlimited, fired, returned>>

activate ==
  /\ At("activator", "activate")
  /\ signalState' = IF isSemaphore THEN signalState + 1 ELSE 1
  /\ IF signalState = 0 THEN Become("activator", [at |-> "ring"]) ELSE Return("activator")
  /\ UNCHANGED <<scene, tag, timer, bell, waiter, woken, history>>

\* eventActivateCancellation: a count of its own, and then its own doorbell.
cancelSignal(x) ==
  /\ At(x, "cancelSignal")
  /\ signalState' = 1
  /\ Become(x, [at |-> "ring"])
  /\ UNCHANGED <<scene, tag, timer, bell, waiter, woken, history>>

\* epollActivate: eventfd_write.
ring(x) ==
  /\ At(x, "ring")
  /\ bell' = TRUE
  /\ Return(x)
  /\ UNCHANGED <<scene, tag, timer, signalState, waiter, woken, history>>

\* deleteUserEvent: the DELETE bit, the terminal schedule, the cancellation of a
\* waiter that had committed, and the reference.
deleteUserEvent ==
  /\ At("deleter", "idle") /\ MayCall
  /\ deleting' = TRUE
  /\ CallThen("deleter", Publish(0, 0, 0, TRUE), [at |-> "deleted", waits |-> committed /\ ~callback])
  /\ UNCHANGED <<scene, refs, committed, incarnation, timer, manual, waiter, woken, history>>

deleteCancels ==
  /\ At("deleter", "deleted")
  /\ IF Top("deleter").waits THEN CallThen("deleter", [at |-> "cancelSignal"], [at |-> "decrement"])
     ELSE Become("deleter", [at |-> "decrement"])
  /\ UNCHANGED <<scene, tag, timer, manual, waiter, woken, history>>

\* userEventStartTimer and userEventStopTimer, of an event with a callback: a period
\* without a counter is an unlimited schedule.
userEventSetTimer(period, counter) ==
  /\ callback
  /\ At("caller", "idle") /\ MayCall
  /\ calls' = calls + 1
  /\ Begin("caller", Publish(period, counter, 0, FALSE))
  /\ unlimited' = (unlimited \/ (period > 0 /\ counter = 0))
  /\ allowed' = IF unlimited' THEN 0 ELSE allowed + counter
  /\ UNCHANGED <<scene, tag, timer, manual, waiter, woken, acts, fired, returned>>

\* ioSleep and ioWaitUserEvent, of an event without.
Install(kind) == [at |-> "install", kind |-> kind, gen |-> 0]
ioCall(kind) ==
  /\ ~callback
  /\ At("caller", "idle") /\ MayCall
  /\ calls' = calls + 1
  /\ Begin("caller", IF kind = "sleep" THEN [at |-> "sleep"] ELSE Install("user"))
  /\ UNCHANGED <<scene, tag, timer, manual, waiter, woken, acts, allowed, unlimited, fired, returned>>

TakeCredit == /\ waiter' = [waiter EXCEPT !.credits = @ - 1, !.seq = @ + 1]
              /\ returned' = returned + 1

\* ioSleep uses up a credit, or starts a schedule of one tick.
ioSleep ==
  /\ At("caller", "sleep")
  /\ IF waiter.kind = "deleted" \/ waiter.credits > 0 THEN Return("caller")
     ELSE CallThen("caller", Publish(1, 1, 0, FALSE), Install("sleep"))
  /\ IF waiter.credits > 0 THEN TakeCredit ELSE UNCHANGED <<waiter, returned>>
  /\ UNCHANGED <<scene, tag, timer, manual, woken, calls, acts, allowed, unlimited, fired>>

\* ioSleep ends by cancelling its own schedule.
Ended(f) == IF f.kind = "sleep" THEN Become("caller", Publish(0, 0, f.gen, FALSE)) ELSE Return("caller")

\* eventInstallWaiter: a credit is taken, or the coroutine is parked.
eventInstallWaiter ==
  /\ At("caller", "install")
  /\ LET f == Top("caller")
     IN  \/ /\ f.kind = "sleep" /\ f.gen = 0
            /\ Return("caller")
            /\ UNCHANGED <<waiter, returned>>
         \/ /\ f.kind = "sleep" => f.gen # 0
            /\ waiter.kind = "deleted" \/ waiter.credits > 0
            /\ Ended(f)
            /\ IF waiter.credits > 0 THEN TakeCredit ELSE UNCHANGED <<waiter, returned>>
         \/ /\ f.kind = "sleep" => f.gen # 0
            /\ waiter.kind = "credits" /\ waiter.credits = 0
            /\ waiter' = [kind |-> f.kind, credits |-> 0, seq |-> waiter.seq + 1]
            /\ Become("caller", [f EXCEPT !.at = "commit"])
            /\ UNCHANGED returned
  /\ UNCHANGED <<scene, tag, timer, manual, woken, calls, acts, allowed, unlimited, fired>>

\* Slip: a waiter that commits does not look whether the event is deleted.
commitBlind ==
  /\ At("caller", "commit")
  /\ committed' = TRUE
  /\ Become("caller", [Top("caller") EXCEPT !.at = "yield"])
  /\ UNCHANGED <<scene, refs, deleting, incarnation, timer, manual, waiter, woken, history>>

\* eventInstallWaiter: WAITER_COMMITTED, which tells whether DELETE came first.
commit ==
  /\ At("caller", "commit")
  /\ committed' = TRUE
  /\ LET parked == [Top("caller") EXCEPT !.at = "yield"]
     IN  IF deleting THEN CallThen("caller", [at |-> "cancelSignal"], parked) ELSE Become("caller", parked)
  /\ UNCHANGED <<scene, refs, deleting, incarnation, timer, manual, waiter, woken, history>>

\* eventFinishWaiter, after coroutineYield.
eventFinishWaiter ==
  /\ At("caller", "yield") /\ woken # <<>>
  /\ woken' = <<>>
  /\ committed' = FALSE
  /\ Ended(Top("caller"))
  /\ UNCHANGED <<scene, refs, deleting, incarnation, timer, manual, waiter, history>>

callerStep == ioSleep \/ eventInstallWaiter \/ commit \/ eventFinishWaiter

Step(x) ==
  \/ publishLoad(x) \/ publishCas(x) \/ ownerStep(x) \/ eventDecrementReference(x)
  \/ cancelSignal(x) \/ ring(x) \/ release(x)
  \/ x \in Loops /\ loopStep(x)
  \/ x = "caller" /\ callerStep
  \/ x = "activator" /\ activate
  \/ x = "deleter" /\ deleteCancels

Next ==
  \/ \E x \in Threads : Step(x)
  \/ expire \/ newUserEvent
  \/ userEventActivate \/ deleteUserEvent
  \/ \E counter \in 0 .. 2 : userEventSetTimer(1, counter)
  \/ userEventSetTimer(0, 0)
  \/ \E kind \in {"sleep", "user"} : ioCall(kind)

Spec == Init /\ [][Next]_vars
-----------------------------------------------------------------------------
Frames(x) == {stack[x][i] : i \in 1 .. Len(stack[x])}
InFlight(x) == {f \in Frames(x) : f.at = "manualCount" \/ (f.at \in {"resume", "resumeCas"} /\ f.manual)}

\* No wakeup is lost or invented: while a semaphore event is open, every activation and
\* every tick delivered to the coroutine is pending, a credit, or ended one wait.
WakeupsAreConserved ==
  ~callback /\ isSemaphore /\ ~deleting /\ incarnation = 0
  => acts + fired = returned + waiter.credits + signalState
       + Cardinality({f \in Frames("activator") : f.at = "activate"})
       + MapThenSumSet(LAMBDA l : MapThenSumSet(LAMBDA f : f.count, InFlight(l)), Loops)

\* A tick wakes only the sleep that armed its schedule: neither a later sleep nor a
\* plain wait on the same event.
TickWakesItsOwnSleep ==
  woken # <<>> /\ woken[1] = "timer"
  => \E f \in Frames("caller") : f.at \in {"commit", "yield"} /\ f.kind = "sleep" /\ f.gen = woken[2]

\* A finite schedule makes at most its number of callbacks, however many expirations its
\* timer accumulated, and a plain event coalesces.
SchedulesAreFinite == /\ allowed >= 0
                      /\ ~isSemaphore => signalState <= 1

IsOwner(x) == \E f \in Frames(x) : f.at \in {"owner", "apply", "start", "consume"}

\* Whoever leaves ownership leaves nothing behind: there is one owner while the bit is
\* set, and without it no schedule is unapplied, no tick is pending, and the backend
\* runs exactly when the schedule does.
OwnerLeavesNothing ==
  /\ Cardinality({x \in Threads : IsOwner(x)}) = IF timerControl.owner THEN 1 ELSE 0
  /\ ~timerControl.owner =>
       /\ timerControl.low = 0 /\ timerControl.counter = 0
       /\ kernelTimer.on = armed
       /\ armed => kernelTimer.gen = timerControl.gen

Uses(x) == stack[x] # <<>> /\ Top(x).at \notin {"idle", "validate", "claim", "bellClaim"}

\* The event is recycled only when no thread is inside it and its timer is disarmed, and
\* readiness left over from its former life does nothing to the new one.
FreeWhenUnused ==
  incarnation > 0 =>
    /\ \A x \in Threads : ~Uses(x)
    /\ ~kernelTimer.on
    /\ refs > 0 => refs = 1 /\ signalState = 0 /\ waiter.credits = 0 /\ timerControl.low = 0

AtRest(x) == stack[x] = <<>> \/ At(x, "idle")

\* No wakeup is forgotten: when every other thread is at rest and no readiness is pending,
\* a parked coroutine is not on a deleted event, whichever of the commitment and the
\* deletion came first, has no activation to see, and a sleeper's schedule is in force, with
\* its tick still to give, and runs unless its start failed.
ParkedIsNotForgotten ==
  /\ At("caller", "yield") /\ woken = <<>>
  /\ \A x \in Threads \ {"caller"} : AtRest(x)
  /\ ~bell /\ timerEdge = {}
  => /\ ~deleting /\ signalState = 0
     /\ Top("caller").kind = "sleep" =>
          /\ timerControl.gen = Top("caller").gen /\ remaining = 1
          /\ ~scene.fails => kernelTimer.on /\ kernelTimer.gen = Top("caller").gen
=============================================================================
