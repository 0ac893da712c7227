------------------------------ MODULE RafLoop ------------------------------
(***************************************************************************)
(* The page's main loop (frontend/index.ts, start and stop; hooks.ts,      *)
(* useAnimationFrame, has the same handle protocol).  Every start makes a  *)
(* loop: a callback with a clock of its own, which asks for the next       *)
(* animation frame at its end for as long as #rafHandle is set.            *)
(*                                                                         *)
(* The browser runs the callbacks of an animation frame one after the      *)
(* other, each to its end, and cancelAnimationFrame also takes back one    *)
(* that is due in the same frame.  Code of the user runs between two       *)
(* animation frames, and within a callback after each emulated frame       *)
(* (onCycle, onMemoryChange, the panic hook): it may call start and stop.  *)
(* It does not throw: one of the emulator is caught (index.ts:184), but an *)
(* exception of onCycle (index.ts:187) would end the callback before it    *)
(* asks for another frame, and leave the page running by its handle.       *)
(*                                                                         *)
(* Time is counted in ticks.  A loop's lag is the time since its first     *)
(* callback less the time of the frames it has run, so                     *)
(* targetFrames - framesRun = floor(lag / FRAME) + 1.                      *)
(***************************************************************************)
EXTENDS Integers, FiniteSets, FiniteSetsExt

CONSTANTS
  FRAME,         \* ticks of a frame: NTSC_FRAME_SEC
  MAX_CATCHUP,   \* MAX_CATCHUP_FRAMES
  Refreshes,     \* ticks between two animation frames
  SUSPENSION,    \* ticks of a suspension of the tab
  SUSPENSIONS,   \* bound: suspensions in a behaviour
  Loops,         \* bound: the loops start makes
  MAX_AHEAD,     \* bound: ticks a loop gets ahead of the clock
  MAX_LAG        \* bound: ticks a loop gets behind the clock

ASSUME LoopAssumption ==
  /\ FRAME \in Nat \ {0} /\ MAX_CATCHUP \in Nat \ {0}
  /\ Refreshes \subseteq Nat \ {0} /\ SUSPENSION \in Nat /\ SUSPENSIONS \in Nat
  /\ IsFiniteSet(Loops) /\ MAX_AHEAD \in Nat /\ MAX_LAG \in Nat

VARIABLES
  made,        \* loops started so far
  timed,       \* loops whose startTs is set
  lag,         \* ticks each loop is behind (negative: ahead)
  requests,    \* pending animation frame requests, as a function to loops
  due,         \* handles of the current animation frame still to be called
  rafHandle,   \* the field #rafHandle
  running,     \* the callback that runs, or Nothing
  suspended,   \* history: suspensions so far
  canceled     \* history: loops that stop was called on

loopVars == <<made, timed, lag, requests, due, rafHandle, running, suspended, canceled>>

Null == 0
Handles == 1 .. Cardinality(Loops) + 2
Nothing == [loop |-> Null, left |-> 0, hook |-> FALSE]

LoopInit ==
  /\ made = {} /\ timed = {} /\ lag = [l \in Loops |-> 0]
  /\ requests = << >> /\ due = {} /\ rafHandle = Null
  /\ running = Nothing /\ suspended = 0 /\ canceled = {}

-----------------------------------------------------------------------------
(* A handle is never one that is in use or remembered. *)
Fresh == Min(Handles \ (DOMAIN requests \cup due \cup {rafHandle}))

Requested(l) ==
  [h \in DOMAIN requests \cup {Fresh} |-> IF h = Fresh THEN l ELSE requests[h]]

Without(f, h) == [k \in DOMAIN f \ {h} |-> f[k]]

(* Where code of the user runs. *)
UserCode == (running = Nothing /\ due = {}) \/ running.hook

StartLoop == \E l \in Loops \ made :
  /\ UserCode
  /\ made' = made \cup {l}
  /\ requests' = Requested(l) /\ rafHandle' = Fresh
  /\ UNCHANGED <<timed, lag, due, running, suspended, canceled>>

StopLoop ==
  /\ UserCode
  /\ requests' = Without(requests, rafHandle)
  /\ due' = due \ {rafHandle}
  /\ rafHandle' = Null
  /\ canceled' = canceled \cup
       (IF rafHandle \in DOMAIN requests THEN {requests[rafHandle]}
        ELSE {running.loop} \ {Null})
  /\ UNCHANGED <<made, timed, lag, running, suspended>>

-----------------------------------------------------------------------------
(* The browser begins an animation frame: time has passed.                 *)
Scheduled(l) == \E h \in DOMAIN requests : requests[h] = l

FrameBegins(ticks) ==
  /\ running = Nothing /\ due = {} /\ requests # << >>
  /\ \A l \in timed : lag[l] + ticks <= MAX_LAG
  /\ lag' = [l \in Loops |-> IF l \in timed /\ Scheduled(l) THEN lag[l] + ticks
                            ELSE lag[l]]
  /\ due' = DOMAIN requests
  /\ UNCHANGED <<made, timed, requests, rafHandle, running, canceled>>

Refresh == /\ \E ticks \in Refreshes : FrameBegins(ticks)
           /\ UNCHANGED suspended
Suspend == /\ suspended < SUSPENSIONS /\ suspended' = suspended + 1
           /\ FrameBegins(SUSPENSION)

(* A callback begins: toRun frames are to be run.                          *)
ToRun_by_the_refresh(l) == 1                                      \* mutant

ToRun(l) ==
  Max({1, Min({lag[l] \div FRAME + 1, MAX_CATCHUP})})

CallBack == \E h \in due :
  /\ running = Nothing
  /\ LET l == requests[h] IN
     /\ running' = [loop |-> l, left |-> ToRun(l), hook |-> FALSE]
     /\ timed' = timed \cup {l}
  /\ due' = due \ {h} /\ requests' = Without(requests, h)
  /\ UNCHANGED <<made, lag, rafHandle, suspended, canceled>>

(* cycleUntil('frame'), up to the hooks of the user.                       *)
RunFrame ==
  /\ running.left > 0 /\ lag[running.loop] - FRAME >= 0 - MAX_AHEAD
  /\ running' = [running EXCEPT !.left = @ - 1, !.hook = TRUE]
  /\ lag' = [lag EXCEPT ![running.loop] = @ - FRAME]
  /\ UNCHANGED <<made, timed, requests, due, rafHandle, suspended, canceled>>

EndCallback_asking_first ==                                       \* mutant
  /\ running # Nothing /\ running.left = 0
  /\ running' = Nothing
  /\ requests' = Requested(running.loop)
  /\ rafHandle' = IF rafHandle # Null THEN Fresh ELSE Null
  /\ UNCHANGED <<made, timed, lag, due, suspended, canceled>>

EndCallback_keeping_handle ==                                     \* mutant
  /\ running # Nothing /\ running.left = 0
  /\ running' = Nothing
  /\ requests' = IF rafHandle # Null THEN Requested(running.loop) ELSE requests
  /\ UNCHANGED <<made, timed, lag, due, rafHandle, suspended, canceled>>

EndCallback ==
  /\ running # Nothing /\ running.left = 0
  /\ running' = Nothing
  /\ IF rafHandle # Null
     THEN requests' = Requested(running.loop) /\ rafHandle' = Fresh
     ELSE UNCHANGED <<requests, rafHandle>>
  /\ UNCHANGED <<made, timed, lag, due, suspended, canceled>>

Browser == Refresh \/ Suspend \/ CallBack \/ RunFrame \/ EndCallback

LoopNext == StartLoop \/ StopLoop \/ Browser

LoopSpec == LoopInit /\ [][LoopNext]_loopVars

(* The browser goes on refreshing and calling back.                        *)
FairLoopSpec == LoopSpec /\ WF_loopVars(Refresh) /\ WF_loopVars(CallBack)
                 /\ WF_loopVars(RunFrame) /\ WF_loopVars(EndCallback)

-----------------------------------------------------------------------------
(* While the status is RUNNING (index.ts:215-222) a loop really is         *)
(* scheduled, under the handle that stop would cancel, or is in the middle *)
(* of its callback: no order of start and stop, from inside a callback or  *)
(* from outside, leaves the page running with nothing to run.              *)
RunningIsScheduled ==
  rafHandle # Null => rafHandle \in DOMAIN requests \/ running # Nothing

(* After a stop that no start follows every loop ends, those included that *)
(* a second start or one from inside a callback has left behind: in the    *)
(* end nothing is scheduled and nothing runs.                              *)
StopsForGood ==
  <>[](rafHandle = Null) => <>[](requests = << >> /\ running = Nothing)

(* Production keeps pace (index.ts:71-73): a loop that goes on is caught   *)
(* up with the clock again and again, dropped frames and suspensions of    *)
(* the tab included.                                                       *)
CatchesUp ==
  \A l \in Loops :
    <>[](Scheduled(l) \/ running.loop = l) => []<>(l \in timed /\ lag[l] < FRAME)

-----------------------------------------------------------------------------
(* hooks.ts:85: "Don't run another frame if it has been canceled in the    *)
(* mean time": a loop that stop was called on does not ask for a frame.    *)
CanceledStays == \A h \in DOMAIN requests : requests[h] \notin canceled
=============================================================================
