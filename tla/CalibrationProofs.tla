------------------------- MODULE CalibrationProofs -------------------------
(* Every search of Calibration stays in the range and comes to an end: first  *)
(* the two steps of one search (Aimed, Judged), then an invariant that keeps  *)
(* each search to its own worker.                                             *)
(*                                                                            *)
(* A burn that Calibration reports as done is in the chip (OkMeansHeld). Two  *)
(* things have to be carried from the power switch of a burn to its end: that *)
(* what is checked is what the chip loaded from its OTP memory (Reloaded,     *)
(* Checked), and that no search writes a VCOM meanwhile when none was running *)
(* at the start, which the semaphores decide: a worker that searches is one   *)
(* that some task waits for (Paired).                                         *)
(*                                                                            *)
(* The search of an undisturbed AUTOFLICK ends at the bottom of the valley    *)
(* (ValleyFound): OnWay says where a search stands whose readings are those   *)
(* of the curve, and CalmInv that they are: by Paired no other task searches, *)
(* so the worker shows what it aims at and the result stays on the chip.      *)
EXTENDS Calibration, FiniteSetTheorems, TLAPS

SearchStates ==
  [at : {"idle", "aim", "judge", "done"}, vcom : Int, flick : Int, dir : {-1, 0, 1},
   turns : Nat, errs : Nat, aim : Int, out : {"none", "found", "lost", "failed"}]

\* A search that goes on has turns left; one that judges aims into the range.
Sound(s) ==
  /\ s \in SearchStates
  /\ s.at = "aim" => s.turns < MaxTurns
  /\ InBounds(s)

-----------------------------------------------------------------------------
\* One search.

\* The steps are 1, 3, 5 or 10.
LEMMA StepFits ==
  ASSUME NEW f \in Int
  PROVE  StepOf(f) \in 1 .. 10
BY DEF StepOf, Bright, Invalid

\* A step on stays in the range from wherever it starts, a step back too.
LEMMA AimedInRange ==
  ASSUME NEW s \in SearchStates
  PROVE  /\ LeftOpen(s) => s.vcom - StepOf(s.flick) \in Min .. Max
         /\ RightOpen(s) => s.vcom + StepOf(s.flick) \in Min .. Max
         /\ Min + StepOf(s.flick) \in Min .. Max
         /\ Max - StepOf(s.flick) \in Min .. Max
<1>1. s.flick \in Int /\ s.vcom \in Int
  BY DEF SearchStates
<1>2. StepOf(s.flick) \in 1 .. 10
  BY <1>1, StepFits
<1> QED
  BY <1>1, <1>2, FlickSearchAssumption DEF LeftOpen, RightOpen

\* Aiming keeps a search sound, and it turns or has less way left.
LEMMA AimedSound ==
  ASSUME NEW s, Sound(s), s.at = "aim"
  PROVE  Sound(Aimed(s)) /\ Advances(s, Aimed(s)) /\ Aimed(s).at = "judge"
<1> DEFINE step == StepOf(s.flick)
           t == [s EXCEPT !.at = "judge",
                          !.errs = IF Bright(s.flick) THEN @ ELSE @ + 1]
<1>1. s \in SearchStates /\ s.turns < MaxTurns
  BY DEF Sound
<1>2. step \in 1 .. 10
  BY <1>1, StepFits DEF SearchStates
<1>3. /\ t \in SearchStates /\ t.at = "judge" /\ t.turns = s.turns /\ t.dir = s.dir
      /\ t.vcom = s.vcom
  <2> DEFINE e == IF Bright(s.flick) THEN s.errs ELSE s.errs + 1
  <2>1. e \in Nat
    BY <1>1 DEF SearchStates
  <2>2. t = [s EXCEPT !.at = "judge", !.errs = e]
    OBVIOUS
  <2> HIDE DEF e, t
  <2> QED BY <1>1, <2>1, <2>2 DEF SearchStates
<1>4. CASE \/ s.dir = -1 /\ LeftOpen(s)
           \/ s.dir # -1 /\ RightOpen(s)
  <2> DEFINE a == IF s.dir = -1 THEN s.vcom - step ELSE s.vcom + step
             u == [t EXCEPT !.aim = a]
  <2>1. Aimed(s) = u
    BY <1>4, Zenon DEF Aimed
  <2>2. a \in Min .. Max
    BY <1>1, <1>4, AimedInRange
  <2>3. /\ u \in SearchStates /\ u.at = "judge" /\ u.turns = s.turns /\ u.dir = s.dir
        /\ u.aim = a
    <3> HIDE DEF t
    <3> QED BY <1>3, <2>2, FlickSearchAssumption DEF SearchStates
  <2>4. Sound(u)
    BY <1>1, <2>2, <2>3 DEF Sound, InBounds, MaxTurns, SearchStates
  <2>5. Advances(s, u)
    <3> HIDE DEF u
    <3> QED BY <1>1, <1>2, <2>3, FlickSearchAssumption DEF Advances, Rest, SearchStates
  <2> QED BY <2>1, <2>3, <2>4, <2>5
<1>5. CASE ~(\/ s.dir = -1 /\ LeftOpen(s)
             \/ s.dir # -1 /\ RightOpen(s))
  <2> DEFINE a == IF s.dir = -1 THEN Min + step ELSE Max - step
             d == IF s.dir = -1 THEN 1 ELSE -1
             u == [t EXCEPT !.aim = a, !.dir = d, !.turns = @ + 1]
  <2>1. Aimed(s) = u
    BY <1>5, Zenon DEF Aimed
  <2>2. a \in Min .. Max /\ d \in {-1, 0, 1}
    BY <1>1, AimedInRange
  <2>3. /\ u \in SearchStates /\ u.at = "judge" /\ u.turns = s.turns + 1 /\ u.aim = a
    <3>1. u = [t EXCEPT !.aim = a, !.dir = d, !.turns = s.turns + 1]
      BY <1>3 DEF SearchStates
    <3>2. a \in Int /\ s.turns + 1 \in Nat
      BY <1>1, <2>2, FlickSearchAssumption DEF SearchStates
    <3> HIDE DEF t, d, a, u
    <3> QED BY <1>3, <2>2, <3>1, <3>2 DEF SearchStates
  <2>4. Sound(u)
    <3> HIDE DEF u, a
    <3> QED BY <1>1, <2>2, <2>3 DEF Sound, InBounds, MaxTurns, SearchStates
  <2>5. Advances(s, u)
    <3> HIDE DEF u
    <3> QED BY <1>1, <2>3 DEF Advances, SearchStates
  <2> QED BY <2>1, <2>3, <2>4, <2>5
<1> QED BY <1>4, <1>5

\* A search that is over is sound whatever it found.
LEMMA OverSound ==
  ASSUME NEW s \in SearchStates, NEW o \in {"found", "lost", "failed"},
         NEW v \in Int, NEW f \in Int
  PROVE  LET t == [s EXCEPT !.at = "done", !.out = o, !.vcom = v, !.flick = f]
         IN  Sound(t) /\ t.at = "done" /\ Advances(s, t)
<1> DEFINE t == [s EXCEPT !.at = "done", !.out = o, !.vcom = v, !.flick = f]
<1>1. t \in SearchStates /\ t.at = "done"
  BY DEF SearchStates
<1> HIDE DEF t
<1>2. Sound(t) /\ Advances(s, t)
  BY <1>1 DEF Sound, InBounds, Advances
<1> QED BY <1>1, <1>2 DEF t

\* Judging ends a search, or it goes on from where it aimed, sound.
LEMMA JudgedSound ==
  ASSUME NEW s, Sound(s), s.at = "judge", NEW f \in Int
  PROVE  /\ Sound(Judged(s, f)) /\ Advances(s, Judged(s, f))
         /\ Judged(s, f).at \in {"aim", "done"}
<1> DEFINE worse == f > 0 /\ s.flick > 0 /\ s.flick < f
           d == IF s.dir = 0 THEN -1 ELSE -s.dir
           t == IF worse THEN [s EXCEPT !.dir = IF @ = 0 THEN -1 ELSE -@, !.turns = @ + 1]
                ELSE s
           on == [t EXCEPT !.at = "aim", !.vcom = s.aim, !.flick = f]
<1>1. s \in SearchStates /\ s.vcom \in Int /\ s.flick \in Int /\ s.aim \in Int
  BY DEF Sound, SearchStates
<1>2. /\ t \in SearchStates /\ t.aim = s.aim
      /\ \/ t.turns = s.turns + 1
         \/ t.turns = s.turns /\ t.dir = s.dir
  <2>1. CASE worse
    <3>1. t = [s EXCEPT !.dir = d, !.turns = s.turns + 1]
      BY <1>1, <2>1 DEF SearchStates
    <3>2. d \in {-1, 0, 1} /\ s.turns + 1 \in Nat
      BY <1>1 DEF SearchStates
    <3> HIDE DEF t, d
    <3> QED BY <1>1, <3>1, <3>2 DEF SearchStates
  <2>2. CASE ~worse
    BY <1>1, <2>2
  <2> QED BY <2>1, <2>2
<1> HIDE DEF worse
<1>3. \/ Judged(s, f) = Found(s, s.vcom, s.flick)
      \/ Judged(s, f) = Found(s, s.aim, f)
      \/ Judged(s, f) = Without(s, "lost")
      \/ Judged(s, f) = Without(s, "failed")
      \/ Judged(s, f) = on /\ ~(t.turns >= MaxTurns)
  <2> USE DEF worse
  <2> QED BY Zenon DEF Judged
<1>4. CASE Judged(s, f) = on /\ ~(t.turns >= MaxTurns)
  <2> HIDE DEF t
  <2>1. /\ on \in SearchStates /\ on.at = "aim" /\ on.turns = t.turns /\ on.vcom = s.aim
        /\ on.dir = t.dir
    BY <1>1, <1>2 DEF SearchStates
  <2> HIDE DEF on
  <2>2. Sound(on)
    BY <1>2, <1>4, <2>1 DEF Sound, InBounds, MaxTurns, SearchStates
  <2>3. Advances(s, on)
    BY <1>1, <1>2, <2>1 DEF Advances, Rest, SearchStates
  <2> QED BY <1>4, <2>1, <2>2, <2>3
<1> HIDE DEF t, on
<1>5. CASE Judged(s, f) # on \/ t.turns >= MaxTurns
  <2> DEFINE Over(o, v, g) ==
         [s EXCEPT !.at = "done", !.out = o, !.vcom = v, !.flick = g]
  <2>1. \/ Judged(s, f) = Over("found", s.vcom, s.flick)
        \/ Judged(s, f) = Over("found", s.aim, f)
        \/ Judged(s, f) = Over("lost", 0, 0)
        \/ Judged(s, f) = Over("failed", 0, 0)
    BY <1>3, <1>5, Zenon DEF Found, Without
  <2>2. \A o \in {"found", "lost", "failed"}, v, g \in Int :
          /\ Sound(Over(o, v, g)) /\ Over(o, v, g).at = "done"
          /\ Advances(s, Over(o, v, g))
    BY <1>1, OverSound
  <2> HIDE DEF Over
  <2> QED BY <1>1, <2>1, <2>2
<1> QED BY <1>4, <1>5
-----------------------------------------------------------------------------
\* All searches.

TaskPlaces == {"none", "look", "init", "flag", "check", "wait", "report", "gone"}
WorkerPlaces == {"none", "wait", "first", "second", "search"}

Bounds ==
  /\ cfg \in Scenarios
  /\ left \in [searches : 0 .. MaxSearches, commands : Nat, powers : Nat]

\* Each AUTOFLICK makes a task of its own, each task at most one worker, and a
\* worker that is not in a search has none.
Owned ==
  /\ task \in [Threads -> TaskPlaces] /\ worker \in [Threads -> WorkerPlaces]
  /\ search \in [Threads -> SearchStates]
  /\ \A t \in Threads :
       /\ t > MaxSearches - left.searches => task[t] = "none"
       /\ task[t] \in {"none", "look", "init"} => worker[t] = "none"
       /\ worker[t] # "search" => search[t] = Idle

SearchesSound == \A w \in Threads : Sound(search[w])

SearchInv == Bounds /\ Owned /\ SearchesSound

\* The probe answers with a number whatever mode it is in.
LEMMA AnswersAreNumbers ==
  ASSUME Bounds
  PROVE  Answers \subseteq Int /\ cfg.init \in Int
BY CalibrationAssumption DEF Bounds, Answers, Flicker, Invalid

LEMMA IdleSound == Sound(Idle)
BY DEF Sound, SearchStates, InBounds, Idle

LEMMA BeginSound ==
  ASSUME NEW v \in Int, NEW f \in Int
  PROVE  Sound(Begin(v, f)) /\ Advances(Idle, Begin(v, f))
<1>1. /\ Begin(v, f) \in SearchStates /\ Begin(v, f).at = "aim" /\ Begin(v, f).turns = 0
      /\ Idle.at = "idle"
  <2>1. Idle \in SearchStates /\ Idle.at = "idle" /\ Idle.turns = 0
    BY DEF SearchStates, Idle
  <2> QED BY <2>1 DEF SearchStates, Begin
<1> QED
  BY <1>1 DEF Sound, InBounds, MaxTurns, Advances

\* A command or a power switch takes from its own allowance only.
LEMMA AllowanceKept ==
  ASSUME Bounds, cfg' = cfg,
         \/ left' = left
         \/ left.commands > 0 /\ left' = [left EXCEPT !.commands = @ - 1]
         \/ left.powers > 0 /\ left' = [left EXCEPT !.powers = @ - 1]
  PROVE  Bounds' /\ left'.searches = left.searches
BY CalibrationAssumption DEF Bounds

\* A step that moves no thread and no search.
LEMMA OthersKeep ==
  ASSUME SearchInv, UNCHANGED <<cfg, task, worker, search>>,
         \/ left' = left
         \/ left.commands > 0 /\ left' = [left EXCEPT !.commands = @ - 1]
         \/ left.powers > 0 /\ left' = [left EXCEPT !.powers = @ - 1]
  PROVE  SearchInv' /\ SearchesAdvance
<1>1. Bounds' /\ left'.searches = left.searches
  BY AllowanceKept DEF SearchInv
<1> QED BY <1>1 DEF SearchInv, Owned, SearchesSound, SearchesAdvance

\* A task that goes on, and makes its worker only once.
LEMMA TaskKeeps ==
  ASSUME SearchInv, NEW t \in Threads, TaskStep(t)
  PROVE  SearchInv' /\ SearchesAdvance
<1>1. /\ search' = search /\ left' = left /\ cfg' = cfg
      /\ \E p \in TaskPlaces \ {"none", "look"} :
           /\ task[t] # "none" /\ task' = [task EXCEPT ![t] = p]
           /\ \/ worker' = worker /\ (p = "init" => task[t] = "look")
              \/ task[t] = "init" /\ worker' = [worker EXCEPT ![t] = "wait"] /\ p = "flag"
  BY Zenon DEF TaskStep, TaskLook, TaskInit, TaskFlag, TaskCheck, TaskWake, TaskReport,
               Step, TaskPlaces
<1> QED BY <1>1 DEF SearchInv, Owned, SearchesSound, SearchesAdvance, Bounds, TaskPlaces,
                    WorkerPlaces

\* One worker moves, and its search with it.
LEMMA OneMoves ==
  ASSUME SearchInv, NEW w \in Threads, NEW s, NEW p \in WorkerPlaces,
         UNCHANGED <<cfg, left, task>>, worker[w] # "none",
         search' = [search EXCEPT ![w] = s], worker' = [worker EXCEPT ![w] = p],
         Sound(s), p # "search" => s = Idle,
         s = search[w] \/ Advances(search[w], s)
  PROVE  SearchInv' /\ SearchesAdvance
<1>1. Bounds' /\ SearchesSound'
  BY DEF SearchInv, Bounds, Owned, SearchesSound
<1>2. Owned'
  BY DEF SearchInv, Owned, Sound
<1>3. SearchesAdvance
  BY DEF SearchInv, Owned, SearchesAdvance
<1> QED BY <1>1, <1>2, <1>3 DEF SearchInv

\* A worker takes up, goes on with or ends its search.
LEMMA WorkerKeeps ==
  ASSUME SearchInv, NEW w \in Threads, WorkerStep(w)
  PROVE  SearchInv' /\ SearchesAdvance
<1>1. /\ UNCHANGED <<cfg, left, task>> /\ worker[w] # "none"
      /\ search = [search EXCEPT ![w] = search[w]]
      /\ worker = [worker EXCEPT ![w] = worker[w]]
      /\ worker[w] # "search" => search[w] = Idle
  <2>1. UNCHANGED <<cfg, left, task>> /\ worker[w] # "none"
    BY Zenon DEF WorkerStep, WorkerWake, WorkerFirst, WorkerSecond, WorkerAim, WorkerJudge,
                 WorkerEnd, Work
  <2> QED BY <2>1 DEF SearchInv, Owned
<1>2. Answers \subseteq Int /\ cfg.init \in Int /\ Sound(search[w])
  BY AnswersAreNumbers DEF SearchInv, SearchesSound
<1>3. CASE WorkerWake(w)
  BY <1>1, <1>3, IdleSound, OneMoves DEF WorkerWake, Work, WorkerPlaces
<1>4. CASE WorkerFirst(w)
  BY <1>1, <1>4, IdleSound, OneMoves DEF WorkerFirst, Work, WorkerPlaces
<1>5. CASE WorkerSecond(w)
  <2>1. PICK f \in Answers : search' = [search EXCEPT ![w] = Begin(cfg.init, f)]
    BY <1>5 DEF WorkerSecond
  <2>2. Sound(Begin(cfg.init, f)) /\ Advances(search[w], Begin(cfg.init, f))
    BY <1>1, <1>2, <1>5, BeginSound DEF WorkerSecond, Work
  <2> QED
    BY <1>1, <1>5, <2>1, <2>2, OneMoves DEF WorkerSecond, Work, WorkerPlaces
<1>6. CASE WorkerAim(w)
  <2>1. Sound(Aimed(search[w])) /\ Advances(search[w], Aimed(search[w]))
    BY <1>2, <1>6, AimedSound DEF WorkerAim
  <2> QED
    BY <1>1, <1>6, <2>1, OneMoves DEF WorkerAim, WorkerPlaces
<1>7. CASE WorkerJudge(w)
  <2>1. PICK f \in Answers : search' = [search EXCEPT ![w] = Judged(search[w], f)]
    BY <1>7 DEF WorkerJudge
  <2>2. Sound(Judged(search[w], f)) /\ Advances(search[w], Judged(search[w], f))
    BY <1>2, <1>7, JudgedSound DEF WorkerJudge
  <2> QED
    BY <1>1, <1>7, <2>1, <2>2, OneMoves DEF WorkerJudge, WorkerPlaces
<1>8. CASE WorkerEnd(w)
  <2>1. Advances(search[w], Idle)
    BY DEF Advances, Idle
  <2> QED
    BY <1>1, <1>8, <2>1, IdleSound, OneMoves DEF WorkerEnd, Work, WorkerPlaces
<1> QED
  BY <1>3, <1>4, <1>5, <1>6, <1>7, <1>8 DEF WorkerStep

\* An AUTOFLICK makes the next task, which has no worker yet.
LEMMA StartKeeps ==
  ASSUME SearchInv, StartFlick
  PROVE  SearchInv' /\ SearchesAdvance
<1>1. PICK n \in 1 .. MaxSearches :
        /\ n = left.searches /\ left' = [left EXCEPT !.searches = n - 1]
        /\ task' = [task EXCEPT ![MaxSearches + 1 - n] = "look"]
        /\ UNCHANGED <<cfg, worker, search>>
  <2>1. left.searches \in 1 .. MaxSearches
    BY CalibrationAssumption DEF SearchInv, Bounds, StartFlick
  <2> QED BY <2>1, Zenon DEF StartFlick
<1>2. Bounds' /\ left'.searches = n - 1
  BY <1>1, CalibrationAssumption DEF SearchInv, Bounds
<1>3. Owned'
  BY <1>1, <1>2, CalibrationAssumption DEF SearchInv, Owned, Threads, TaskPlaces
<1> QED
  BY <1>1, <1>2, <1>3 DEF SearchInv, SearchesSound, SearchesAdvance

\* Every step of the system.
LEMMA NextKeeps ==
  ASSUME SearchInv, [Next]_vars
  PROVE  SearchInv' /\ SearchesAdvance
<1>1. CASE StartFlick
  BY <1>1, StartKeeps
<1>2. CASE SrvCommand /\ ~StartFlick
  BY <1>2, OthersKeep, Zenon DEF SrvCommand, StopFlick, ProbeCommand, ManualFlick, GammaWrite,
          GammaOtp, VcomOtp, Command, flickVars
<1>3. CASE SrvStep
  <2>1. UNCHANGED <<cfg, task, worker, search, left>>
    BY <1>3, Zenon DEF SrvStep, Join, GammaCopy, GammaLoad, GammaBurn, GammaPower, GammaCheck,
            GammaFlick, GammaWhite, GammaEnd, VcomBurn, VcomOff, VcomOn, VcomEnd,
            Serve, flickVars
  <2> QED BY <2>1, OthersKeep
<1>4. CASE PowerSwitch
  BY <1>4, OthersKeep, Zenon DEF PowerSwitch, flickVars
<1>5. ASSUME NEW t \in Threads, TaskStep(t) \/ WorkerStep(t)
      PROVE  SearchInv' /\ SearchesAdvance
  BY <1>5, TaskKeeps, WorkerKeeps
<1>6. CASE UNCHANGED vars
  BY <1>6, OthersKeep DEF vars, flickVars
<1> QED
  BY <1>1, <1>2, <1>3, <1>4, <1>5, <1>6 DEF Next

LEMMA InitSound ==
  ASSUME Init
  PROVE  SearchInv
<1>1. Bounds
  BY CalibrationAssumption DEF Init, Bounds
<1>2. Owned
  BY <1>1, IdleSound DEF Init, Owned, Bounds, TaskPlaces, WorkerPlaces, Sound
<1> QED
  BY <1>1, <1>2, IdleSound DEF Init, SearchInv, SearchesSound

(* For every range, curve and setting, whatever the probe answers, however    *)
(* commands, searches and power switches interleave: z_auto_flick_2 shows     *)
(* only VCOMs of the range of the module, and its recursion comes to an end.  *)
THEOREM SearchesStayBounded == Spec => SearchesBounded
<1>1. Init => SearchInv
  BY InitSound
<1>2. SearchInv /\ [Next]_vars => SearchInv'
  BY NextKeeps
<1>3. SearchInv /\ [Next]_vars => [SearchesInBounds' /\ SearchesAdvance]_vars
  <2> SUFFICES ASSUME SearchInv, [Next]_vars
               PROVE  SearchesInBounds' /\ SearchesAdvance
    OBVIOUS
  <2>1. SearchInv' /\ SearchesAdvance
    BY NextKeeps
  <2>2. SearchesInBounds'
    BY <2>1 DEF SearchInv, SearchesSound, SearchesInBounds, Sound
  <2> QED BY <2>1, <2>2
<1> QED
  BY <1>1, <1>2, <1>3, PTL DEF Spec, SearchesBounded

-----------------------------------------------------------------------------
\* Nobody searches for nobody.

Waiting == {t \in Threads : task[t] = "wait"}
Active == {w \in Threads : worker[w] \in {"first", "second", "search"}}

\* Every start posted, every search and every end posted has a task waiting.
Paired ==
  /\ sem \in [start : Nat, end : Nat]
  /\ sem.start + sem.end + Cardinality(Active) <= Cardinality(Waiting)

LEMMA CountsAreNumbers ==
  /\ IsFiniteSet(Waiting) /\ Cardinality(Waiting) \in Nat
  /\ IsFiniteSet(Active) /\ Cardinality(Active) \in Nat
<1>1. IsFiniteSet(Threads)
  BY CalibrationAssumption, FS_Interval DEF Threads
<1>2. Waiting \in SUBSET Threads /\ Active \in SUBSET Threads
  BY DEF Waiting, Active
<1>3. IsFiniteSet(Waiting) /\ IsFiniteSet(Active)
  BY <1>1, <1>2, FS_Subset
<1> QED
  BY <1>3, FS_CardinalityType

\* Without a living task no worker is in a search and none is called to one.
LEMMA NobodySearches ==
  ASSUME Paired, \A t \in Threads : ~Alive(t)
  PROVE  Active = {} /\ sem.start = 0
<1>1. Waiting = {}
  BY DEF Waiting, Alive
<1>2. Cardinality(Waiting) = 0
  BY <1>1, FS_EmptySet
<1>3. Cardinality(Active) = 0 /\ sem.start = 0
  BY <1>2, CountsAreNumbers DEF Paired
<1> QED
  BY <1>3, CountsAreNumbers, FS_EmptySet

LEMMA PairedKept ==
  ASSUME Paired, Waiting' = Waiting, Active' = Active, sem' = sem
  PROVE  Paired'
BY DEF Paired

\* A task looks, makes its worker, starts a search, waits for it and reports.
LEMMA TaskKeepsPaired ==
  ASSUME SearchInv, Paired, NEW t \in Threads, TaskStep(t)
  PROVE  Paired'
<1>1. /\ task \in [Threads -> TaskPlaces] /\ worker \in [Threads -> WorkerPlaces]
      /\ Cardinality(Waiting) \in Nat /\ Cardinality(Active) \in Nat
      /\ sem.start \in Nat /\ sem.end \in Nat
  BY CountsAreNumbers DEF SearchInv, Owned, Paired
<1>2. CASE TaskLook(t) \/ TaskFlag(t) \/ TaskReport(t)
  <2>1. /\ worker' = worker /\ sem' = sem
        /\ \E p \in TaskPlaces \ {"wait"} :
             task[t] # "wait" /\ task' = [task EXCEPT ![t] = p]
    BY <1>2, Zenon DEF TaskLook, TaskFlag, TaskReport, Step, TaskPlaces
  <2>2. Waiting' = Waiting /\ Active' = Active
    BY <1>1, <2>1 DEF Waiting, Active
  <2> QED BY <2>1, <2>2, PairedKept
<1>3. CASE TaskInit(t)
  <2>1. /\ task' = [task EXCEPT ![t] = "flag"] /\ task[t] = "init"
        /\ worker' = [worker EXCEPT ![t] = "wait"] /\ worker[t] = "none"
        /\ sem' = [start |-> 0, end |-> 0]
    BY <1>3 DEF TaskInit, Step, SearchInv, Owned
  <2>2. Waiting' = Waiting /\ Active' = Active
    BY <1>1, <2>1 DEF Waiting, Active
  <2> QED BY <1>1, <2>1, <2>2 DEF Paired
<1>4. CASE TaskCheck(t)
  <2>1. PICK p \in {"wait", "report"} :
          /\ task' = [task EXCEPT ![t] = p] /\ task[t] = "check" /\ worker' = worker
          /\ sem' = IF p = "wait" THEN [sem EXCEPT !.start = @ + 1] ELSE sem
    BY <1>4 DEF TaskCheck, Step
  <2>2. Active' = Active
    BY <2>1 DEF Active
  <2>3. CASE p = "wait"
    <3>1. Waiting' = Waiting \cup {t} /\ t \notin Waiting
      BY <1>1, <2>1, <2>3 DEF Waiting
    <3>2. Cardinality(Waiting') = Cardinality(Waiting) + 1
      BY <3>1, CountsAreNumbers, FS_AddElement
    <3> QED BY <1>1, <2>1, <2>2, <2>3, <3>2 DEF Paired
  <2>4. CASE p = "report"
    <3>1. Waiting' = Waiting
      BY <1>1, <2>1, <2>4 DEF Waiting
    <3> QED BY <2>1, <2>2, <2>4, <3>1, PairedKept
  <2> QED BY <2>3, <2>4
<1>5. CASE TaskWake(t)
  <2>1. /\ task' = [task EXCEPT ![t] = "report"] /\ task[t] = "wait" /\ worker' = worker
        /\ sem.end > 0 /\ sem' = [sem EXCEPT !.end = @ - 1]
    BY <1>5 DEF TaskWake, Step
  <2>2. Active' = Active
    BY <2>1 DEF Active
  <2>3. Waiting' = Waiting \ {t} /\ t \in Waiting
    BY <1>1, <2>1 DEF Waiting
  <2>4. Cardinality(Waiting') = Cardinality(Waiting) - 1
    BY <2>3, CountsAreNumbers, FS_RemoveElement
  <2> QED BY <1>1, <2>1, <2>2, <2>4 DEF Paired
<1> QED
  BY <1>2, <1>3, <1>4, <1>5 DEF TaskStep

\* A worker takes a start, searches, and posts the end.
LEMMA WorkerKeepsPaired ==
  ASSUME SearchInv, Paired, NEW w \in Threads, WorkerStep(w)
  PROVE  Paired'
<1>1. /\ worker \in [Threads -> WorkerPlaces]
      /\ Cardinality(Waiting) \in Nat /\ Cardinality(Active) \in Nat
      /\ sem.start \in Nat /\ sem.end \in Nat
  BY CountsAreNumbers DEF SearchInv, Owned, Paired
<1>2. task' = task /\ Waiting' = Waiting
  BY DEF WorkerStep, WorkerWake, WorkerFirst, WorkerSecond, WorkerAim, WorkerJudge,
         WorkerEnd, Waiting
<1>3. CASE WorkerWake(w)
  <2>1. /\ worker' = [worker EXCEPT ![w] = "first"] /\ worker[w] = "wait"
        /\ sem.start > 0 /\ sem' = [sem EXCEPT !.start = @ - 1]
    BY <1>3 DEF WorkerWake, Work
  <2>2. Active' = Active \cup {w} /\ w \notin Active
    BY <1>1, <2>1 DEF Active
  <2>3. Cardinality(Active') = Cardinality(Active) + 1
    BY <2>2, CountsAreNumbers, FS_AddElement
  <2> QED BY <1>1, <1>2, <2>1, <2>3 DEF Paired
<1>4. CASE WorkerFirst(w) \/ WorkerSecond(w) \/ WorkerAim(w) \/ WorkerJudge(w)
  <2>1. /\ sem' = sem
        /\ \/ worker' = worker
           \/ \E p \in {"second", "search"} : /\ worker[w] \in {"first", "second"}
                                              /\ worker' = [worker EXCEPT ![w] = p]
    BY <1>4 DEF WorkerFirst, WorkerSecond, WorkerAim, WorkerJudge, Work
  <2>2. Active' = Active
    BY <1>1, <2>1 DEF Active
  <2> QED BY <1>2, <2>1, <2>2, PairedKept
<1>5. CASE WorkerEnd(w)
  <2>1. /\ worker' = [worker EXCEPT ![w] = "wait"] /\ worker[w] = "search"
        /\ sem' = [sem EXCEPT !.end = @ + 1]
    BY <1>5 DEF WorkerEnd, Work
  <2>2. Active' = Active \ {w} /\ w \in Active
    BY <1>1, <2>1 DEF Active
  <2>3. Cardinality(Active') = Cardinality(Active) - 1
    BY <2>2, CountsAreNumbers, FS_RemoveElement
  <2> QED BY <1>1, <1>2, <2>1, <2>3 DEF Paired
<1> QED
  BY <1>3, <1>4, <1>5 DEF WorkerStep

\* What the server thread and the power switch do leaves the searches alone,
\* but for a StartFlick.
LEMMA OthersLeaveThreads ==
  ASSUME (SrvCommand /\ ~StartFlick) \/ SrvStep \/ PowerSwitch
  PROVE  UNCHANGED <<cfg, task, worker, search, sem, found>>
<1>1. CASE SrvCommand /\ ~StartFlick
  BY <1>1, Zenon DEF SrvCommand, StopFlick, ProbeCommand, ManualFlick, GammaWrite,
          GammaOtp, VcomOtp, flickVars
<1>2. CASE SrvStep
  BY <1>2, Zenon DEF SrvStep, Join, GammaCopy, GammaLoad, GammaBurn, GammaPower, GammaCheck,
          GammaFlick, GammaWhite, GammaEnd, VcomBurn, VcomOff, VcomOn, VcomEnd,
          Serve, flickVars
<1>3. CASE PowerSwitch
  BY <1>3, Zenon DEF PowerSwitch, flickVars
<1> QED BY <1>1, <1>2, <1>3

LEMMA NextKeepsPaired ==
  ASSUME SearchInv, Paired, [Next]_vars
  PROVE  Paired'
<1>1. CASE StartFlick
  <2>1. /\ UNCHANGED <<worker, sem>>
        /\ \E t \in Threads : task[t] = "none" /\ task' = [task EXCEPT ![t] = "look"]
    <3>1. left.searches \in 1 .. MaxSearches
      BY <1>1, CalibrationAssumption DEF SearchInv, Bounds, StartFlick
    <3> DEFINE t == MaxSearches + 1 - left.searches
    <3>2. t \in Threads /\ task[t] = "none"
      BY <3>1, CalibrationAssumption DEF SearchInv, Owned, Threads
    <3> QED BY <1>1, <3>2, Zenon DEF StartFlick
  <2>2. Waiting' = Waiting /\ Active' = Active
    BY <2>1 DEF Waiting, Active, SearchInv, Owned
  <2> QED BY <2>1, <2>2, PairedKept
<1>2. CASE (SrvCommand /\ ~StartFlick) \/ SrvStep \/ PowerSwitch
  <2>1. UNCHANGED <<task, worker, sem>>
    BY <1>2, OthersLeaveThreads
  <2> QED BY <2>1, PairedKept DEF Waiting, Active
<1>3. ASSUME NEW t \in Threads, TaskStep(t) \/ WorkerStep(t)
      PROVE  Paired'
  BY <1>3, TaskKeepsPaired, WorkerKeepsPaired
<1>4. CASE UNCHANGED vars
  BY <1>4, PairedKept DEF vars, flickVars, Waiting, Active
<1> QED
  BY <1>1, <1>2, <1>3, <1>4 DEF Next
-----------------------------------------------------------------------------
\* The panel and the locals of the server thread.

Tables == Gammas \cup {Zero, Mixed}
Panels == [lit : BOOLEAN, vcom : Int, gamma : Tables,
           otpVcom : Int, otpGamma : Tables, times : 0 .. 5]
Jobs == [vcom : Int, times : Nat, gamma : Tables,
         withVcom : BOOLEAN, second : BOOLEAN, alone : BOOLEAN, fault : 0 .. 3]

GammaPlaces == {"gammaCopy", "gammaLoad", "gammaBurn", "gammaPower", "gammaCheck",
                "gammaFlick", "gammaWhite", "gammaEnd"}
VcomPlaces == {"vcomBurn", "vcomOff", "vcomOn", "vcomEnd"}

DataOK ==
  /\ panel \in Panels /\ job \in Jobs
  /\ ic \in [ok : BOOLEAN, gamma : Tables]
  /\ found \in [vcom : Int, flick : Int]

\* A burn that was alone at its start is still alone.
StillAlone == srv \in GammaPlaces /\ job.alone => \A t \in Threads : ~Alive(t)

\* What is about to be checked is what the chip loaded.
Reloaded ==
  srv = "gammaCheck" /\ cfg.file =>
    /\ panel.gamma = panel.otpGamma
    /\ job.withVcom /\ job.alone => panel.vcom = panel.otpVcom

\* What was checked and found right is in the OTP memory.
Checked ==
  srv \in {"gammaFlick", "gammaWhite", "gammaEnd"} /\ cfg.file
  /\ job.fault = 0 /\ job.gamma # Zero =>
    /\ panel.otpGamma = job.gamma
    /\ job.withVcom /\ job.alone => panel.otpVcom = job.vcom

BurnInv == DataOK /\ StillAlone /\ Reloaded /\ Checked /\ OkMeansHeld

\* Showing a VCOM changes that register only, and only of a lit panel.
LEMMA ShownIs ==
  ASSUME NEW p \in Panels, NEW v \in Int
  PROVE  /\ Shown(p, v) \in Panels /\ Shown(p, v).gamma = p.gamma
         /\ Shown(p, v).otpVcom = p.otpVcom /\ Shown(p, v).otpGamma = p.otpGamma
BY DEF Panels, Shown

\* A panel that is lit again shows what its OTP memory holds.
LEMMA LitIs ==
  ASSUME NEW p \in Panels
  PROVE  LET q == [Loaded(p) EXCEPT !.lit = TRUE] IN
         /\ q \in Panels /\ q.gamma = p.otpGamma /\ q.vcom = p.otpVcom
         /\ q.otpVcom = p.otpVcom /\ q.otpGamma = p.otpGamma
BY DEF Panels, Loaded

LEMMA BurntIs ==
  ASSUME NEW p \in Panels, NEW a \in BOOLEAN, NEW b \in BOOLEAN, NEW n \in 0 .. 5
  PROVE  Burnt(p, a, b, n) \in Panels
<1> DEFINE q == IF b THEN [p EXCEPT !.otpGamma = p.gamma] ELSE p
<1>1. q \in Panels /\ q.times = p.times /\ p.times \in 0 .. 5 /\ p.vcom \in Int
  BY DEF Panels
<1>2. Burnt(p, a, b, n) = IF a /\ p.times < n
                          THEN [q EXCEPT !.otpVcom = p.vcom, !.times = @ + 1] ELSE q
  BY Zenon DEF Burnt
<1>3. p.times < n => p.times + 1 \in 0 .. 5
  BY <1>1
<1> HIDE DEF q
<1> QED
  BY <1>1, <1>2, <1>3 DEF Panels

LEMMA WipedIs == Wiped \in [ok : BOOLEAN, gamma : Tables]
BY DEF Wiped, Tables

LEMMA NoJobIs == NoJob \in Jobs
BY DEF NoJob, Jobs, Tables

\* A step that leaves the server thread where it is, and from the power switch
\* to the check shows the chip nothing that it has not loaded.
LEMMA Undisturbed ==
  ASSUME BurnInv, UNCHANGED <<cfg, srv, job, otpEnd>>, DataOK',
         panel'.otpVcom = panel.otpVcom, panel'.otpGamma = panel.otpGamma,
         srv \in GammaPlaces => \A t \in Threads : Alive(t)' => Alive(t),
         srv = "gammaCheck" =>
           /\ panel'.gamma = panel.gamma \/ panel'.gamma = panel.otpGamma
           /\ panel'.vcom = panel.vcom \/ panel'.vcom = panel.otpVcom \/ ~job.alone
  PROVE  BurnInv'
<1>1. StillAlone'
  BY DEF BurnInv, StillAlone
<1>2. Reloaded'
  BY DEF BurnInv, Reloaded
<1>3. Checked'
  BY DEF BurnInv, Checked
<1>4. OkMeansHeld'
  BY DEF BurnInv, OkMeansHeld
<1> QED BY <1>1, <1>2, <1>3, <1>4 DEF BurnInv

LEMMA TaskKeepsBurn ==
  ASSUME BurnInv, SearchInv, NEW t \in Threads, TaskStep(t)
  PROVE  BurnInv'
<1>1. /\ UNCHANGED <<cfg, panel, found, srvVars>>
      /\ ic' \in {ic, [ic EXCEPT !.ok = panel.lit]}
  BY DEF TaskStep, TaskLook, TaskInit, TaskFlag, TaskCheck, TaskWake, TaskReport
<1>2. DataOK'
  BY <1>1 DEF BurnInv, DataOK, Panels, srvVars
<1>3. \A u \in Threads : Alive(u)' => Alive(u)
  <2>1. /\ task \in [Threads -> TaskPlaces] /\ Alive(t)
        /\ \E p \in TaskPlaces : task' = [task EXCEPT ![t] = p]
    BY Zenon DEF TaskStep, TaskLook, TaskInit, TaskFlag, TaskCheck, TaskWake, TaskReport,
                 Step, Alive, TaskPlaces, SearchInv, Owned
  <2> QED BY <2>1 DEF Alive
<1> QED BY <1>1, <1>2, <1>3, Undisturbed DEF srvVars

LEMMA WorkerKeepsBurn ==
  ASSUME BurnInv, SearchInv, Paired, NEW w \in Threads, WorkerStep(w)
  PROVE  BurnInv'
<1>1. UNCHANGED <<cfg, task, ic, srvVars>>
  BY DEF WorkerStep, WorkerWake, WorkerFirst, WorkerSecond, WorkerAim, WorkerJudge, WorkerEnd
<1>2. Sound(search[w]) /\ cfg.init \in Int /\ search \in [Threads -> SearchStates]
  BY AnswersAreNumbers DEF SearchInv, SearchesSound, Owned
<1>3. \/ panel' = panel
      \/ w \in Active /\ \E v \in Int : panel' = Shown(panel, v)
  <2>1. CASE WorkerWake(w) \/ WorkerSecond(w) \/ WorkerJudge(w)
    BY <2>1 DEF WorkerWake, WorkerSecond, WorkerJudge
  <2>2. CASE WorkerFirst(w)
    BY <1>2, <2>2 DEF WorkerFirst, Work, Written, Active
  <2>3. CASE WorkerAim(w)
    <3>1. Aimed(search[w]).aim \in Int
      BY <1>2, <2>3, AimedSound DEF WorkerAim, Sound, SearchStates
    <3> QED BY <1>2, <2>3, <3>1 DEF WorkerAim, Written, Active
  <2>4. CASE WorkerEnd(w)
    <3>1. search[w].vcom \in Int
      BY <1>2 DEF SearchStates
    <3> QED BY <2>4, <3>1 DEF WorkerEnd, Work, Written, Active
  <2> QED BY <2>1, <2>2, <2>3, <2>4 DEF WorkerStep
<1>4. found' \in [vcom : Int, flick : Int]
  <2>1. search[w].vcom \in Int /\ search[w].flick \in Int
    BY <1>2 DEF SearchStates
  <2> QED
    BY <2>1 DEF WorkerStep, WorkerWake, WorkerFirst, WorkerSecond, WorkerAim, WorkerJudge,
                WorkerEnd, BurnInv, DataOK
<1>5. /\ panel' \in Panels /\ panel'.gamma = panel.gamma
      /\ panel'.otpVcom = panel.otpVcom /\ panel'.otpGamma = panel.otpGamma
  BY <1>3, ShownIs DEF BurnInv, DataOK
<1>6. DataOK'
  BY <1>1, <1>4, <1>5 DEF BurnInv, DataOK, srvVars
<1>7. srv \in GammaPlaces /\ job.alone => panel' = panel
  BY <1>3, NobodySearches DEF BurnInv, StillAlone
<1> QED
  BY <1>1, <1>5, <1>6, <1>7, Undisturbed DEF srvVars, Alive, GammaPlaces

LEMMA PowerKeepsBurn ==
  ASSUME BurnInv, PowerSwitch
  PROVE  BurnInv'
<1>1. /\ UNCHANGED <<cfg, task, found, srvVars>> /\ ic' = Wiped
      /\ panel' \in {[panel EXCEPT !.lit = FALSE], [Loaded(panel) EXCEPT !.lit = TRUE]}
  BY DEF PowerSwitch, flickVars
<1>2. /\ panel' \in Panels
      /\ panel'.otpVcom = panel.otpVcom /\ panel'.otpGamma = panel.otpGamma
      /\ panel'.gamma = panel.gamma \/ panel'.gamma = panel.otpGamma
      /\ panel'.vcom = panel.vcom \/ panel'.vcom = panel.otpVcom
  <2>1. CASE panel' = [panel EXCEPT !.lit = FALSE]
    BY <2>1 DEF BurnInv, DataOK, Panels
  <2>2. CASE panel' = [Loaded(panel) EXCEPT !.lit = TRUE]
    BY <2>2, LitIs DEF BurnInv, DataOK
  <2> QED BY <1>1, <2>1, <2>2
<1>3. DataOK'
  BY <1>1, <1>2, WipedIs DEF BurnInv, DataOK, srvVars
<1> QED BY <1>1, <1>2, <1>3, Undisturbed DEF srvVars, Alive
-----------------------------------------------------------------------------
\* The server thread.

\* At any place but those of a burn of the gamma there is nothing to carry.
LEMMA Elsewhere ==
  ASSUME srv' \notin GammaPlaces, DataOK', OkMeansHeld'
  PROVE  BurnInv'
BY DEF BurnInv, StillAlone, Reloaded, Checked, GammaPlaces

LEMMA SameAnswer ==
  ASSUME BurnInv, otpEnd' = otpEnd
  PROVE  OkMeansHeld'
BY DEF BurnInv, OkMeansHeld

\* The commands that are over at once, and those that begin something.
LEMMA CommandKeepsBurn ==
  ASSUME BurnInv, SearchInv, SrvCommand
  PROVE  BurnInv'
<1>1. srv = "idle" /\ DataOK
  BY DEF SrvCommand, StartFlick, StopFlick, ProbeCommand, ManualFlick, GammaWrite, GammaOtp,
         VcomOtp, Command, Goto, BurnInv
<1>2. CASE StartFlick \/ StopFlick \/ ProbeCommand
  <2>1. UNCHANGED <<panel, ic, found, job, otpEnd>> /\ srv' \in {"idle", "joining"}
    BY <1>1, <1>2 DEF StartFlick, StopFlick, ProbeCommand, Goto, flickVars, srvVars
  <2> QED BY <1>1, <2>1, Elsewhere, SameAnswer DEF DataOK, GammaPlaces
<1>3. CASE ManualFlick
  <2>1. /\ UNCHANGED <<ic, found, job, otpEnd, srv>>
        /\ \E v \in BurnVcoms : panel' = Shown(panel, v)
    BY <1>3 DEF ManualFlick, flickVars, srvVars
  <2>2. panel' \in Panels
    BY <1>1, <2>1, ShownIs, CalibrationAssumption DEF DataOK
  <2> QED BY <1>1, <2>1, <2>2, Elsewhere, SameAnswer DEF DataOK, GammaPlaces
<1>4. CASE GammaWrite
  <2>1. UNCHANGED <<found, job, otpEnd, srv>>
    BY <1>4 DEF GammaWrite, flickVars, srvVars
  <2>2. PICK g \in Gammas :
          /\ ic' = [ic EXCEPT !.gamma = g]
          /\ panel' = IF panel.lit THEN [panel EXCEPT !.gamma = g] ELSE panel
    BY <1>4 DEF GammaWrite
  <2>3. DataOK'
    BY <1>1, <2>1, <2>2 DEF DataOK, Panels, Tables
  <2> QED BY <1>1, <2>1, <2>3, Elsewhere, SameAnswer DEF GammaPlaces
<1>5. CASE GammaOtp
  <2>1. /\ UNCHANGED <<cfg, panel, ic, found, task, otpEnd>> /\ srv' = "gammaCopy"
    BY <1>5 DEF GammaOtp, Command, flickVars
  <2> DEFINE alone == ~(\E t \in Threads : Alive(t))
             times == IF ic.ok THEN HiTimes ELSE 0
  <2>2. PICK v \in BOOLEAN, d \in BOOLEAN :
          job' = [NoJob EXCEPT !.vcom = found.vcom, !.withVcom = v, !.second = d,
                               !.times = times, !.alone = alone]
    BY <1>5, Zenon DEF GammaOtp
  <2>3. times \in Nat /\ found.vcom \in Int /\ alone \in BOOLEAN
    BY <1>1 DEF DataOK, Panels, HiTimes
  <2> HIDE DEF alone, times
  <2>4. job' \in Jobs /\ job'.alone = alone
    BY <2>2, <2>3, NoJobIs DEF Jobs
  <2>5. DataOK'
    BY <1>1, <2>1, <2>4 DEF DataOK
  <2>6. StillAlone'
    BY <2>1, <2>4 DEF StillAlone, Alive, alone
  <2> QED BY <2>1, <2>5, <2>6, SameAnswer DEF BurnInv, Reloaded, Checked
<1>6. CASE VcomOtp
  <2>1. UNCHANGED <<panel, ic, found>>
    BY <1>6 DEF VcomOtp, flickVars
  <2>2. PICK v \in BurnVcoms :
          \/ /\ otpEnd' = [ok |-> JdVcom = v, excused |-> v = 0, held |-> panel.otpVcom = v]
             /\ UNCHANGED <<srv, job>>
          \/ /\ srv' = "vcomBurn" /\ otpEnd' = otpEnd
             /\ job' = [NoJob EXCEPT !.vcom = v, !.times = JdTimes]
    BY <1>6 DEF VcomOtp
  <2>3. v \in Int /\ JdTimes \in Nat
    BY <1>1, CalibrationAssumption DEF DataOK, Panels, JdTimes
  <2>4. DataOK'
    <3>1. [NoJob EXCEPT !.vcom = v, !.times = JdTimes] \in Jobs
      BY <2>3, NoJobIs DEF Jobs
    <3> QED BY <1>1, <2>1, <2>2, <3>1 DEF DataOK
  <2>5. OkMeansHeld'
    <3>1. JdVcom = v /\ v # 0 => panel.otpVcom = v
      BY DEF JdVcom
    <3>2. CASE otpEnd' = otpEnd
      BY <3>2, SameAnswer
    <3>3. CASE otpEnd' = [ok |-> JdVcom = v, excused |-> v = 0,
                          held |-> panel.otpVcom = v]
      BY <3>1, <3>3 DEF OkMeansHeld
    <3> QED BY <2>2, <3>2, <3>3
  <2> QED BY <1>1, <2>2, <2>4, <2>5, Elsewhere DEF GammaPlaces
<1> QED BY <1>2, <1>3, <1>4, <1>5, <1>6 DEF SrvCommand

\* One step of a burn of the gamma before the check: the burn stays alone.
LEMMA BeforeCheck ==
  ASSUME BurnInv, srv \in GammaPlaces,
         UNCHANGED <<cfg, task, otpEnd>>, job'.alone = job.alone, DataOK',
         srv' \in {"gammaLoad", "gammaBurn", "gammaPower", "gammaCheck"},
         srv' = "gammaCheck" => Reloaded'
  PROVE  BurnInv'
BY SameAnswer DEF BurnInv, StillAlone, Reloaded, Checked, Alive

\* And after it: the OTP memory and the answer of the check stay as they are.
LEMMA AfterCheck ==
  ASSUME BurnInv, srv \in {"gammaFlick", "gammaWhite"},
         UNCHANGED <<cfg, task, panel, ic, found, job, otpEnd>>,
         srv' \in {"gammaWhite", "gammaEnd"}
  PROVE  BurnInv'
<1>1. StillAlone'
  BY DEF BurnInv, StillAlone, Alive, GammaPlaces
<1>2. Checked'
  BY DEF BurnInv, Checked
<1> QED BY <1>1, <1>2, SameAnswer DEF BurnInv, DataOK, Reloaded

\* The burn of the gamma.
LEMMA GammaKeepsBurn ==
  ASSUME BurnInv,
         \/ GammaCopy \/ GammaLoad \/ GammaBurn \/ GammaPower
         \/ GammaCheck \/ GammaFlick \/ GammaWhite \/ GammaEnd
  PROVE  BurnInv'
<1>1. UNCHANGED <<cfg, task, found>> /\ DataOK /\ srv \in GammaPlaces
  BY DEF GammaCopy, GammaLoad, GammaBurn, GammaPower, GammaCheck, GammaFlick, GammaWhite,
         GammaEnd, Serve, Goto, flickVars, BurnInv, GammaPlaces
<1>2. CASE GammaCopy
  <2>1. /\ job' = [job EXCEPT !.gamma = ic.gamma] /\ srv' = "gammaLoad"
        /\ UNCHANGED <<panel, ic, otpEnd>>
    BY <1>2 DEF GammaCopy, Serve, Goto
  <2>2. DataOK' /\ job'.alone = job.alone
    BY <1>1, <2>1 DEF DataOK, Jobs
  <2> QED BY <1>1, <2>1, <2>2, BeforeCheck
<1>3. CASE GammaLoad
  <2> DEFINE g == IF job.gamma \in Uneven THEN Mixed ELSE job.gamma
             v == IF ~job.withVcom THEN panel.otpVcom
                  ELSE IF job.second THEN 255 ELSE job.vcom
  <2>1. UNCHANGED <<job, ic, otpEnd>> /\ srv' = "gammaBurn"
    BY <1>3 DEF GammaLoad, Serve, Goto
  <2>2. panel' = IF ~panel.lit THEN panel
                 ELSE [Loaded(panel) EXCEPT !.gamma = g, !.vcom = v]
    <3>1. Loaded(panel).vcom = panel.otpVcom
      BY <1>1 DEF DataOK, Panels, Loaded
    <3> QED BY <1>3, <3>1 DEF GammaLoad
  <2>3. g \in Tables /\ v \in Int
    BY <1>1 DEF DataOK, Jobs, Panels, Tables
  <2>4. Loaded(panel) \in Panels
    BY <1>1 DEF DataOK, Panels, Loaded
  <2> HIDE DEF g, v
  <2>5. DataOK'
    BY <1>1, <2>1, <2>2, <2>3, <2>4 DEF DataOK, Panels
  <2> QED BY <1>1, <2>1, <2>5, BeforeCheck
<1>4. CASE GammaBurn
  <2>1. UNCHANGED <<job, ic, otpEnd>> /\ srv' = "gammaPower"
    BY <1>4 DEF GammaBurn, Serve, Goto
  <2>2. panel' = panel \/ panel' = Burnt(panel, job.withVcom, TRUE, 3)
    BY <1>4, Zenon DEF GammaBurn
  <2>3. panel' \in Panels
    <3>1. panel \in Panels /\ job.withVcom \in BOOLEAN /\ TRUE \in BOOLEAN /\ 3 \in 0 .. 5
      BY <1>1 DEF DataOK, Jobs
    <3>2. Burnt(panel, job.withVcom, TRUE, 3) \in Panels
      BY <3>1, BurntIs, Zenon
    <3> QED BY <2>2, <3>1, <3>2
  <2> QED BY <1>1, <2>1, <2>3, BeforeCheck DEF DataOK
<1>5. CASE GammaPower
  <2>1. UNCHANGED <<job, otpEnd>> /\ srv' = "gammaCheck"
    BY <1>5 DEF GammaPower, Serve, Goto
  <2>2. \/ cfg.file /\ panel' = [Loaded(panel) EXCEPT !.lit = TRUE] /\ ic' = Wiped
        \/ ~cfg.file /\ panel' = panel /\ ic' = ic
    BY <1>5, Zenon DEF GammaPower
  <2>3. DataOK' /\ Reloaded'
    BY <1>1, <2>1, <2>2, LitIs, WipedIs DEF DataOK, Reloaded
  <2> QED BY <1>1, <2>1, <2>3, BeforeCheck
<1>6. CASE GammaCheck
  <2> DEFINE n == IF GammaRead # job.gamma THEN 3
                  ELSE IF ~job.withVcom THEN 0
                  ELSE IF VcomRead # job.vcom THEN 2
                  ELSE IF HiTimes # job.times + 1 THEN 1 ELSE 0
  <2>1. /\ UNCHANGED <<panel, ic, otpEnd>> /\ srv = "gammaCheck" /\ srv' = "gammaFlick"
        /\ job' = [job EXCEPT !.fault = n]
    BY <1>6 DEF GammaCheck, Serve, Goto
  <2>2. /\ n \in 0 .. 3
        /\ n = 0 => GammaRead = job.gamma /\ (job.withVcom => VcomRead = job.vcom)
    OBVIOUS
  <2> HIDE DEF n
  <2>3. /\ job' \in Jobs /\ job'.alone = job.alone /\ job'.gamma = job.gamma
        /\ job'.withVcom = job.withVcom /\ job'.vcom = job.vcom /\ job'.fault = n
    BY <1>1, <2>1, <2>2 DEF DataOK, Jobs
  <2>4. DataOK'
    BY <1>1, <2>1, <2>3 DEF DataOK
  <2>5. Checked'
    <3> SUFFICES ASSUME cfg.file, n = 0, job.gamma # Zero
                 PROVE  /\ panel.otpGamma = job.gamma
                        /\ job.withVcom /\ job.alone => panel.otpVcom = job.vcom
      BY <1>1, <2>1, <2>3, Zenon DEF Checked
    <3>1. panel.lit /\ panel.gamma = job.gamma
      BY <2>2 DEF GammaRead
    <3>2. job.withVcom => panel.vcom = job.vcom
      BY <2>2, <3>1 DEF VcomRead
    <3> QED BY <2>1, <3>1, <3>2, Zenon DEF BurnInv, Reloaded
  <2>6. StillAlone'
    BY <1>1, <2>1, <2>3 DEF BurnInv, StillAlone, Alive, GammaPlaces
  <2> QED BY <2>1, <2>4, <2>5, <2>6, SameAnswer DEF BurnInv, Reloaded
<1>7. CASE GammaFlick \/ GammaWhite
  BY <1>1, <1>7, AfterCheck DEF GammaFlick, GammaWhite, Serve, Goto
<1>8. CASE GammaEnd
  <2>1. UNCHANGED <<panel, ic>> /\ srv = "gammaEnd" /\ srv' = "idle" /\ job' = NoJob
    BY <1>8 DEF GammaEnd, Serve, Goto
  <2>2. DataOK'
    BY <1>1, <2>1, NoJobIs DEF DataOK
  <2>3. OkMeansHeld'
    <3>1. otpEnd' = [ok |-> job.fault = 0,
                     excused |-> \/ job.gamma = Zero \/ ~cfg.file
                                 \/ job.withVcom /\ ~job.alone,
                     held |-> /\ panel.otpGamma = job.gamma
                              /\ job.withVcom => panel.otpVcom = job.vcom]
      BY <1>8, Zenon DEF GammaEnd
    <3> SUFFICES ASSUME otpEnd'.ok, ~otpEnd'.excused
                 PROVE  otpEnd'.held
      BY Zenon DEF OkMeansHeld
    <3>2. /\ job.fault = 0 /\ job.gamma # Zero /\ cfg.file
          /\ ~(job.withVcom /\ ~job.alone)
      BY <3>1
    <3>3. /\ panel.otpGamma = job.gamma
          /\ job.withVcom => panel.otpVcom = job.vcom
      BY <2>1, <3>2, Zenon DEF BurnInv, Checked
    <3> QED BY <3>1, <3>3
  <2> QED BY <2>1, <2>2, <2>3, Elsewhere DEF GammaPlaces
<1> QED BY <1>2, <1>3, <1>4, <1>5, <1>6, <1>7, <1>8

\* The burn of a VCOM, and the end of a wait for a search.
LEMMA VcomKeepsBurn ==
  ASSUME BurnInv, Join \/ VcomBurn \/ VcomOff \/ VcomOn \/ VcomEnd
  PROVE  BurnInv'
<1>1. UNCHANGED <<cfg, task, found>> /\ DataOK /\ srv' \notin GammaPlaces
  BY DEF Join, VcomBurn, VcomOff, VcomOn, VcomEnd, Serve, Goto, flickVars, BurnInv, GammaPlaces
<1>2. CASE Join
  <2>1. UNCHANGED <<panel, ic, job, otpEnd>>
    BY <1>2 DEF Join
  <2> QED BY <1>1, <2>1, Elsewhere, SameAnswer DEF DataOK
<1>3. CASE VcomBurn
  <2> DEFINE q == Shown(panel, job.vcom)
  <2>1. /\ UNCHANGED <<ic, job, otpEnd>>
        /\ panel' = q \/ panel' = Burnt(q, TRUE, FALSE, 5)
    BY <1>3, Zenon DEF VcomBurn
  <2>2. q \in Panels
    BY <1>1, ShownIs DEF DataOK, Jobs
  <2>3. Burnt(q, TRUE, FALSE, 5) \in Panels
    <3>1. TRUE \in BOOLEAN /\ FALSE \in BOOLEAN /\ 5 \in 0 .. 5
      OBVIOUS
    <3> HIDE DEF q
    <3> QED BY <2>2, <3>1, BurntIs, Zenon
  <2> QED BY <1>1, <2>1, <2>2, <2>3, Elsewhere, SameAnswer DEF DataOK
<1>4. CASE VcomOff
  <2>1. UNCHANGED <<job, otpEnd>> /\ panel' = [panel EXCEPT !.lit = FALSE] /\ ic' = Wiped
    BY <1>4 DEF VcomOff
  <2> QED BY <1>1, <2>1, WipedIs, Elsewhere, SameAnswer DEF DataOK, Panels
<1>5. CASE VcomOn
  <2>1. /\ UNCHANGED <<job, otpEnd>>
        /\ \/ panel' = [Loaded(panel) EXCEPT !.lit = TRUE] /\ ic' = Wiped
           \/ panel' = panel /\ ic' = ic
    BY <1>5 DEF VcomOn
  <2> QED BY <1>1, <2>1, LitIs, WipedIs, Elsewhere, SameAnswer DEF DataOK
<1>6. CASE VcomEnd
  <2>1. /\ UNCHANGED <<panel, ic>> /\ job' = NoJob
        /\ otpEnd' = [ok |-> JdTimes > job.times /\ JdVcom = job.vcom,
                      excused |-> FALSE, held |-> panel.otpVcom = job.vcom]
    BY <1>6 DEF VcomEnd
  <2>2. DataOK'
    BY <1>1, <2>1, NoJobIs DEF DataOK
  <2>3. JdTimes > job.times /\ JdVcom = job.vcom => panel.otpVcom = job.vcom
    BY <1>1 DEF DataOK, Panels, Jobs, JdTimes, JdVcom
  <2>4. OkMeansHeld'
    BY <2>1, <2>3 DEF OkMeansHeld
  <2> QED BY <1>1, <2>2, <2>4, Elsewhere
<1> QED BY <1>2, <1>3, <1>4, <1>5, <1>6

-----------------------------------------------------------------------------
\* Every step of the system.

IInv == SearchInv /\ Paired /\ BurnInv

LEMMA InitHolds ==
  ASSUME Init
  PROVE  IInv
<1>1. Waiting = {} /\ Active = {}
  BY DEF Init, Waiting, Active
<1>2. Paired
  BY <1>1, FS_EmptySet DEF Init, Paired
<1>3. DataOK
  BY NoJobIs, WipedIs DEF Init, DataOK, Panels, Tables
<1>4. StillAlone /\ Reloaded /\ Checked /\ OkMeansHeld
  BY DEF Init, StillAlone, Reloaded, Checked, OkMeansHeld, GammaPlaces
<1> QED BY <1>2, <1>3, <1>4, InitSound DEF IInv, BurnInv

LEMMA NextKeepsBurn ==
  ASSUME IInv, [Next]_vars
  PROVE  IInv'
<1>1. SearchInv' /\ Paired'
  BY NextKeeps, NextKeepsPaired DEF IInv
<1>2. CASE SrvCommand
  BY <1>1, <1>2, CommandKeepsBurn DEF IInv
<1>3. CASE SrvStep
  BY <1>1, <1>3, GammaKeepsBurn, VcomKeepsBurn DEF IInv, SrvStep
<1>4. CASE PowerSwitch
  BY <1>1, <1>4, PowerKeepsBurn DEF IInv
<1>5. ASSUME NEW t \in Threads, TaskStep(t) \/ WorkerStep(t)
      PROVE  BurnInv'
  BY <1>5, TaskKeepsBurn, WorkerKeepsBurn DEF IInv
<1>6. CASE UNCHANGED vars
  <2>1. UNCHANGED <<cfg, panel, ic, found, srv, job, otpEnd, task>>
    BY <1>6 DEF vars, flickVars, srvVars
  <2>2. DataOK'
    BY <2>1 DEF IInv, BurnInv, DataOK
  <2> QED BY <1>1, <2>1, <2>2, Undisturbed DEF IInv, BurnInv, Alive
<1> QED
  BY <1>1, <1>2, <1>3, <1>4, <1>5, <1>6 DEF IInv, Next

(* GAMMA_OTP and MSG_OTP report a burn as done only when the OTP memory of    *)
(* the chip holds what was asked for, whatever else runs: but for an all-zero *)
(* table or VCOM, a module without file, and a VCOM burnt during a search.    *)
THEOREM BurnIsHeld == Spec => []OkMeansHeld
<1>1. Init => IInv
  BY InitHolds
<1>2. IInv /\ [Next]_vars => IInv'
  BY NextKeepsBurn
<1>3. IInv => OkMeansHeld
  BY DEF IInv, BurnInv
<1> QED
  BY <1>1, <1>2, <1>3, PTL DEF Spec

-----------------------------------------------------------------------------
(* The search finds the bottom of a valley. From the initial VCOM it goes     *)
(* right (Out) until the flicker rises or the range ends, then left (Back)    *)
(* until the bottom is passed; where the bottom is next to the lower end it   *)
(* is turned there once more (Again). No step jumps over the bottom, because  *)
(* a long step is taken only where the flicker is high, far from it.          *)

\* What a search has measured last, or is about to measure.
Place(s) == IF s.at = "aim" THEN s.vcom ELSE s.aim

\* A search has passed ten VCOMs for each measurement without a value.
Out(s) ==
  /\ s.dir = 0 /\ s.turns = 0
  /\ Place(s) \in Min + 1 .. Max - 1 /\ s.vcom <= Place(s)
  /\ 10 * s.errs <= Place(s) - Min - 1

Back(s, b) ==
  /\ s.dir = -1 /\ s.turns = 1
  /\ s.vcom \in b .. Max - 1
  /\ Place(s) \in b .. s.vcom \/ (Place(s) = b - 1 /\ s.vcom = b)
  /\ 10 * s.errs <= (Max - Min - 2) + (Max - Place(s))

Again(s, b) ==
  /\ s.dir = 1 /\ s.turns = 2
  /\ b = Min + 1 /\ s.vcom = b /\ Place(s) \in {b, b + 1}

\* What a search may end with; c is the curve.
Good(c, v, f, b) ==
  v \in Min .. Max /\ f = c[v] /\ (v = b \/ f < MinOk)

OnWay(c, s, b) ==
  /\ s \in SearchStates
  /\ s.vcom \in Min .. Max /\ s.flick = c[s.vcom]
  /\ \/ s.at \in {"aim", "judge"} /\ (Out(s) \/ Back(s, b) \/ Again(s, b))
     \/ s.at = "done" /\ s.out = "found" /\ Good(c, s.vcom, s.flick, b)

LEMMA InvalidIs == Invalid \in Int /\ Invalid > 5000
BY DEF Invalid

\* A reading that is a value or none at all, and the step it makes.
LEMMA ReadingIs ==
  ASSUME NEW f \in 1 .. Invalid
  PROVE  /\ f \in Int /\ (Bright(f) <=> f < Invalid) /\ (f >= Invalid => f = Invalid)
         /\ (~Bright(f) => f = Invalid)
         /\ \/ StepOf(f) = 1 /\ f < Invalid
            \/ StepOf(f) = 3 /\ f > 2000 /\ f < Invalid
            \/ StepOf(f) = 5 /\ f > 5000 /\ f < Invalid
            \/ StepOf(f) = 10 /\ f = Invalid
<1>1. f \in Int /\ 1 <= f /\ f <= Invalid /\ Invalid \in Int /\ Invalid > 5000
  BY InvalidIs
<1>2. Bright(f) <=> f < Invalid
  BY <1>1 DEF Bright
<1>3. CASE f = Invalid
  <2>1. StepOf(f) = 10
    BY <1>2, <1>3, <1>1 DEF StepOf
  <2> QED BY <1>1, <1>2, <1>3, <2>1
<1>4. CASE f < Invalid /\ f > 5000
  <2>1. StepOf(f) = 5
    BY <1>2, <1>4, <1>1 DEF StepOf
  <2> QED BY <1>1, <1>2, <1>4, <2>1
<1>5. CASE f > 2000 /\ f <= 5000
  <2>1. StepOf(f) = 3
    BY <1>2, <1>5, <1>1 DEF StepOf
  <2> QED BY <1>1, <1>2, <1>5, <2>1
<1>6. CASE f <= 2000
  <2>1. Bright(f) /\ ~(f > 5000) /\ ~(f > 2000 /\ f <= 5000)
    BY <1>1, <1>2, <1>6
  <2>2. StepOf(f) = 1
    BY <2>1 DEF StepOf
  <2> QED BY <1>1, <1>2, <1>6, <2>2
<1> QED BY <1>1, <1>3, <1>4, <1>5, <1>6

\* Where the curve stands at v, and what a step from there may be.
LEMMA CurveFacts ==
  ASSUME NEW b \in Min + 1 .. Max - 1, Valley(b), NEW v \in Min .. Max
  PROVE  LET f == cfg.curve[v]
             k == StepOf(f)
         IN /\ f \in 1 .. Invalid /\ (Bright(f) <=> f < Invalid)
            /\ k \in {1, 3, 5, 10}
            /\ k = 1 \/ b <= v - k \/ v + k <= b
            /\ v \in {b - 1, b, b + 1} => f < Invalid /\ k = 1
            /\ f = Invalid => k = 10 /\ (Max - Min <= 50) /\ (b <= v - 10 \/ v + 10 <= b)
<1> DEFINE f == cfg.curve[v]
           far == IF v < b THEN b - v ELSE v - b
<1>1. /\ f \in 1 .. Invalid /\ (f > 2000 => far >= 3) /\ (f > 5000 => far >= 5)
      /\ (f = Invalid => far >= 10) /\ (Max - Min <= 50 \/ f < Invalid)
  BY DEF Valley
<1>2. b \in Int /\ v \in Int /\ Min \in Int /\ Max \in Int
  BY FlickSearchAssumption
<1> HIDE DEF f
<1>3. far \in Int /\ far >= 0 /\ (far >= 3 => b <= v - 3 \/ v + 3 <= b) /\ (far >= 5 => b <= v - 5 \/ v + 5 <= b)
      /\ (far >= 10 => b <= v - 10 \/ v + 10 <= b) /\ (v \in {b - 1, b, b + 1} => far <= 1)
  BY <1>2
<1> HIDE DEF far
<1>4. f \in Int /\ Invalid \in Int /\ (Bright(f) <=> f < Invalid) /\ (f < Invalid \/ f = Invalid)
  BY <1>1, InvalidIs, ReadingIs
<1>5. \/ StepOf(f) = 1 /\ f < Invalid
      \/ StepOf(f) = 3 /\ f > 2000 /\ f < Invalid
      \/ StepOf(f) = 5 /\ f > 5000 /\ f < Invalid
      \/ StepOf(f) = 10 /\ f = Invalid
  BY <1>1, ReadingIs
<1>6. v \in {b - 1, b, b + 1} => f < Invalid /\ StepOf(f) = 1
  <2>1. v \in {b - 1, b, b + 1} => ~(far >= 3) /\ ~(far >= 5) /\ ~(far >= 10)
    BY <1>3
  <2> QED BY <1>1, <1>4, <1>5, <2>1
<1>7. StepOf(f) \in {1, 3, 5, 10}
  BY <1>5
<1>8. StepOf(f) = 1 \/ b <= v - StepOf(f) \/ v + StepOf(f) <= b
  BY <1>1, <1>3, <1>5
<1>9. f = Invalid => StepOf(f) = 10 /\ Max - Min <= 50 /\ (b <= v - 10 \/ v + 10 <= b)
  BY <1>1, <1>3, <1>4, <1>5
<1> QED
  BY <1>1, <1>4, <1>6, <1>7, <1>8, <1>9 DEF f

\* On one side of the bottom the flicker does not rise towards it.
LEMMA Falls ==
  ASSUME NEW b \in Min + 1 .. Max - 1, Valley(b), NEW v \in Min .. Max, NEW w \in Min .. Max,
         (b <= v /\ v < w) \/ (w < v /\ v <= b)
  PROVE  /\ cfg.curve[v] <= cfg.curve[w]
         /\ v = b /\ w \in {b - 1, b + 1} => cfg.curve[v] < cfg.curve[w]
<1>1. cfg.curve[v] \in 1 .. Invalid /\ cfg.curve[w] \in 1 .. Invalid
  BY CurveFacts
<1>2. cfg.curve[v] < cfg.curve[w] \/ cfg.curve[w] = Invalid
  BY DEF Valley
<1>3. w \in {b - 1, b + 1} => cfg.curve[w] < Invalid
  BY CurveFacts
<1> DEFINE x == cfg.curve[v]
           y == cfg.curve[w]
<1>4. x \in 1 .. Invalid /\ y \in 1 .. Invalid /\ (x < y \/ y = Invalid)
      /\ (w \in {b - 1, b + 1} => y < Invalid)
  BY <1>1, <1>2, <1>3
<1> HIDE DEF x, y
<1>5. x <= y /\ (w \in {b - 1, b + 1} => x < y)
  BY <1>4, InvalidIs
<1> QED
  BY <1>5 DEF x, y

LEMMA AimedIs ==
  ASSUME NEW s \in SearchStates
  PROVE  LET t == Aimed(s)
             k == StepOf(s.flick)
         IN /\ t \in SearchStates /\ t.at = "judge" /\ t.vcom = s.vcom /\ t.flick = s.flick
            /\ t.errs = IF Bright(s.flick) THEN s.errs ELSE s.errs + 1
            /\ s.dir = -1 /\ LeftOpen(s) => t.aim = s.vcom - k /\ t.dir = -1 /\ t.turns = s.turns
            /\ s.dir = -1 /\ ~LeftOpen(s) => t.aim = Min + k /\ t.dir = 1 /\ t.turns = s.turns + 1
            /\ s.dir # -1 /\ RightOpen(s) => t.aim = s.vcom + k /\ t.dir = s.dir /\ t.turns = s.turns
            /\ s.dir # -1 /\ ~RightOpen(s) => t.aim = Max - k /\ t.dir = -1 /\ t.turns = s.turns + 1
<1> DEFINE k == StepOf(s.flick)
           e == IF Bright(s.flick) THEN s.errs ELSE s.errs + 1
           t == [s EXCEPT !.at = "judge", !.errs = IF Bright(s.flick) THEN @ ELSE @ + 1]
           On(a) == [t EXCEPT !.aim = a]
           Turn(a, d) == [t EXCEPT !.aim = a, !.dir = d, !.turns = @ + 1]
<1>1. /\ s.vcom \in Int /\ s.flick \in Int /\ s.turns \in Nat /\ e \in Nat /\ k \in Int
      /\ Min \in Int /\ Max \in Int
  BY StepFits, FlickSearchAssumption DEF SearchStates
<1>2. t = [s EXCEPT !.at = "judge", !.errs = e]
  OBVIOUS
<1> HIDE DEF e, k
<1>3. /\ t \in SearchStates /\ t.at = "judge" /\ t.turns = s.turns /\ t.dir = s.dir
      /\ t.vcom = s.vcom /\ t.flick = s.flick /\ t.errs = e
  <2> HIDE DEF t
  <2> QED BY <1>1, <1>2 DEF SearchStates
<1>4. \/ s.dir = -1 /\ LeftOpen(s) /\ Aimed(s) = On(s.vcom - k)
      \/ s.dir = -1 /\ ~LeftOpen(s) /\ Aimed(s) = Turn(Min + k, 1)
      \/ s.dir # -1 /\ RightOpen(s) /\ Aimed(s) = On(s.vcom + k)
      \/ s.dir # -1 /\ ~RightOpen(s) /\ Aimed(s) = Turn(Max - k, -1)
  BY Zenon DEF Aimed, k
<1> HIDE DEF t
<1>5. ASSUME NEW a \in Int
      PROVE  /\ On(a) \in SearchStates /\ On(a).at = "judge" /\ On(a).turns = s.turns
             /\ On(a).dir = s.dir /\ On(a).vcom = s.vcom /\ On(a).flick = s.flick
             /\ On(a).errs = e /\ On(a).aim = a
  BY <1>3 DEF SearchStates
<1>6. ASSUME NEW a \in Int, NEW d \in {-1, 1}
      PROVE  /\ Turn(a, d) \in SearchStates /\ Turn(a, d).at = "judge"
             /\ Turn(a, d).turns = s.turns + 1 /\ Turn(a, d).dir = d
             /\ Turn(a, d).vcom = s.vcom /\ Turn(a, d).flick = s.flick
             /\ Turn(a, d).errs = e /\ Turn(a, d).aim = a
  <2>1. Turn(a, d) = [t EXCEPT !.aim = a, !.dir = d, !.turns = s.turns + 1]
    BY <1>3 DEF SearchStates
  <2>2. s.turns + 1 \in Nat
    BY <1>1
  <2> HIDE DEF Turn
  <2> QED BY <1>3, <2>1, <2>2 DEF SearchStates
<1>7. s.vcom - k \in Int /\ s.vcom + k \in Int /\ Min + k \in Int /\ Max - k \in Int
  BY <1>1
<1> HIDE DEF On, Turn
<1>8. CASE s.dir = -1 /\ LeftOpen(s) /\ Aimed(s) = On(s.vcom - k)
  BY <1>5, <1>7, <1>8 DEF e, k
<1>9. CASE s.dir = -1 /\ ~LeftOpen(s) /\ Aimed(s) = Turn(Min + k, 1)
  BY <1>6, <1>7, <1>9 DEF e, k
<1>10. CASE s.dir # -1 /\ RightOpen(s) /\ Aimed(s) = On(s.vcom + k)
  BY <1>5, <1>7, <1>10 DEF e, k
<1>11. CASE s.dir # -1 /\ ~RightOpen(s) /\ Aimed(s) = Turn(Max - k, -1)
  BY <1>6, <1>7, <1>11 DEF e, k
<1> QED
  BY <1>4, <1>8, <1>9, <1>10, <1>11

LEMMA FoundIs ==
  ASSUME NEW s \in SearchStates, NEW v \in Int, NEW f \in Int
  PROVE  LET t == Found(s, v, f) IN
         /\ t \in SearchStates /\ t.at = "done" /\ t.out = "found" /\ t.vcom = v /\ t.flick = f
BY DEF Found, SearchStates

\* The outcomes of a judgement before the fifth turn, while a value is read or
\* fewer than ten were missing.
LEMMA JudgedIs ==
  ASSUME NEW s \in SearchStates, NEW f \in Int, s.turns < MaxTurns - 1,
         ~(s.errs >= MaxErrs /\ f >= Invalid)
  PROVE  LET t == Judged(s, f)
             worse == f > 0 /\ s.flick > 0 /\ s.flick < f
         IN IF worse /\ StepOf(s.flick) = 1 /\ s.turns >= 1
            THEN t = Found(s, s.vcom, s.flick)
            ELSE IF f > 0 /\ f < MinOk THEN t = Found(s, s.aim, f)
            ELSE /\ t \in SearchStates /\ t.at = "aim" /\ t.vcom = s.aim /\ t.flick = f
                 /\ t.errs = s.errs
                 /\ ~worse => t.dir = s.dir /\ t.turns = s.turns
                 /\ worse /\ s.dir = 0 => t.dir = -1 /\ t.turns = s.turns + 1
<1> DEFINE worse == f > 0 /\ s.flick > 0 /\ s.flick < f
           d == IF s.dir = 0 THEN -1 ELSE -s.dir
           t == IF worse THEN [s EXCEPT !.dir = IF @ = 0 THEN -1 ELSE -@, !.turns = @ + 1]
                ELSE s
           on == [t EXCEPT !.at = "aim", !.vcom = s.aim, !.flick = f]
<1>1. s.vcom \in Int /\ s.flick \in Int /\ s.aim \in Int /\ s.turns \in Nat /\ s.errs \in Nat
  BY DEF SearchStates
<1>2. /\ t \in SearchStates /\ t.aim = s.aim /\ t.errs = s.errs
      /\ worse => t.turns = s.turns + 1 /\ t.dir = d
      /\ ~worse => t.turns = s.turns /\ t.dir = s.dir
  <2>1. CASE worse
    <3>1. t = [s EXCEPT !.dir = d, !.turns = s.turns + 1]
      BY <1>1, <2>1 DEF SearchStates
    <3>2. d \in {-1, 0, 1} /\ s.turns + 1 \in Nat
      BY <1>1 DEF SearchStates
    <3> HIDE DEF t, d
    <3> QED BY <1>1, <2>1, <3>1, <3>2 DEF SearchStates
  <2>2. CASE ~worse
    BY <1>1, <2>2
  <2> QED BY <2>1, <2>2
<1>3. ~(t.turns >= MaxTurns)
  BY <1>1, <1>2 DEF MaxTurns
<1>4. IF worse /\ StepOf(s.flick) = 1 /\ s.turns >= 1
      THEN Judged(s, f) = Found(s, s.vcom, s.flick)
      ELSE IF f > 0 /\ f < MinOk THEN Judged(s, f) = Found(s, s.aim, f)
      ELSE Judged(s, f) = on
  BY <1>3, Zenon DEF Judged
<1> HIDE DEF t
<1>5. /\ on \in SearchStates /\ on.at = "aim" /\ on.vcom = s.aim /\ on.flick = f
      /\ on.errs = t.errs /\ on.dir = t.dir /\ on.turns = t.turns
  BY <1>1, <1>2 DEF SearchStates
<1>6. s.dir = 0 => d = -1
  OBVIOUS
<1> HIDE DEF on, worse, d
<1>7. CASE worse /\ StepOf(s.flick) = 1 /\ s.turns >= 1
  BY <1>4, <1>7 DEF worse
<1>8. CASE ~(worse /\ StepOf(s.flick) = 1 /\ s.turns >= 1) /\ f > 0 /\ f < MinOk
  BY <1>4, <1>8 DEF worse
<1>9. CASE ~(worse /\ StepOf(s.flick) = 1 /\ s.turns >= 1) /\ ~(f > 0 /\ f < MinOk)
  <2>1. Judged(s, f) = on
    BY <1>4, <1>9
  <2> QED BY <1>2, <1>5, <1>6, <1>9, <2>1 DEF worse
<1> QED
  BY <1>7, <1>8, <1>9

\* Aiming keeps a search on its way.
LEMMA AimedOnWay ==
  ASSUME NEW b \in Min + 1 .. Max - 1, Valley(b), NEW s, OnWay(cfg.curve, s, b), s.at = "aim"
  PROVE  OnWay(cfg.curve, Aimed(s), b) /\ Aimed(s).aim \in Min .. Max
<1> DEFINE t == Aimed(s)
           k == StepOf(s.flick)
<1>1. /\ s \in SearchStates /\ s.vcom \in Min .. Max /\ s.flick = cfg.curve[s.vcom]
      /\ Out(s) \/ Back(s, b) \/ Again(s, b)
  BY Zenon DEF OnWay
<1>2. /\ t \in SearchStates /\ t.at = "judge" /\ t.vcom = s.vcom /\ t.flick = s.flick
      /\ t.errs = IF Bright(s.flick) THEN s.errs ELSE s.errs + 1
      /\ s.dir = -1 /\ LeftOpen(s) => t.aim = s.vcom - k /\ t.dir = -1 /\ t.turns = s.turns
      /\ s.dir = -1 /\ ~LeftOpen(s) => t.aim = Min + k /\ t.dir = 1 /\ t.turns = s.turns + 1
      /\ s.dir # -1 /\ RightOpen(s) => t.aim = s.vcom + k /\ t.dir = s.dir /\ t.turns = s.turns
      /\ s.dir # -1 /\ ~RightOpen(s) => t.aim = Max - k /\ t.dir = -1 /\ t.turns = s.turns + 1
  BY <1>1, AimedIs
<1>3. /\ k \in {1, 3, 5, 10} /\ (k = 1 \/ b <= s.vcom - k \/ s.vcom + k <= b)
      /\ s.flick \in Int /\ (~Bright(s.flick) => k = 10)
      /\ (s.vcom \in {b - 1, b, b + 1} => k = 1 /\ Bright(s.flick))
  <2>1. s.flick \in 1 .. Invalid /\ (~Bright(s.flick) => s.flick = Invalid)
    <3> DEFINE f == cfg.curve[s.vcom]
    <3>1. f \in 1 .. Invalid /\ (Bright(f) <=> f < Invalid)
      BY <1>1, CurveFacts
    <3> HIDE DEF f
    <3>2. ~Bright(f) => f = Invalid
      BY <3>1, ReadingIs
    <3> QED BY <1>1, <3>1, <3>2 DEF f
  <2> QED BY <1>1, <2>1, CurveFacts
<1>4. /\ Min \in Int /\ Max \in Int /\ Max - Min >= 10 /\ b \in Int /\ Min + 1 <= b /\ b <= Max - 1
      /\ s.errs \in Nat /\ s.vcom \in Int /\ s.turns \in Nat /\ Place(s) = s.vcom /\ Place(t) = t.aim
  BY <1>1, <1>2, FlickSearchAssumption DEF SearchStates, Place
<1>5. 10 * t.errs <= 10 * s.errs + 10 /\ (k # 10 => t.errs = s.errs)
      /\ (t.errs = s.errs \/ t.errs = s.errs + 1)
  BY <1>2, <1>3, <1>4
<1> HIDE DEF t, k
<1>6. CASE Out(s)
  <2>0. /\ s.dir = 0 /\ s.turns = 0 /\ s.vcom \in Min + 1 .. Max - 1
        /\ 10 * s.errs <= s.vcom - Min - 1
    BY <1>4, <1>6 DEF Out
  <2>1. RightOpen(s) <=> s.vcom < Max - k
    BY <1>4, <2>0 DEF RightOpen, k
  <2>2. CASE s.vcom < Max - k
    <3>1. t.aim = s.vcom + k /\ t.dir = 0 /\ t.turns = 0
      BY <1>2, <2>0, <2>1, <2>2
    <3>2. t.aim \in Min + 1 .. Max - 1 /\ s.vcom <= t.aim
      BY <1>3, <1>4, <2>0, <2>2, <3>1
    <3>3. 10 * t.errs <= t.aim - Min - 1
      BY <1>3, <1>4, <1>5, <2>0, <3>1
    <3>4. Out(t)
      BY <1>2, <1>4, <3>1, <3>2, <3>3 DEF Out
    <3> QED
      BY <1>1, <1>2, <1>4, <3>2, <3>4 DEF OnWay, t
  <2>3. CASE ~(s.vcom < Max - k)
    <3>1. t.aim = Max - k /\ t.dir = -1 /\ t.turns = 1
      BY <1>2, <2>0, <2>1, <2>3
    <3>2. t.aim \in b .. s.vcom /\ s.vcom <= Max - 1
      BY <1>3, <1>4, <2>0, <2>3, <3>1
    <3>3. 10 * t.errs <= (Max - Min - 2) + (Max - t.aim)
      BY <1>3, <1>4, <1>5, <2>0, <3>1, <3>2
    <3>4. Back(t, b)
      BY <1>2, <1>4, <3>1, <3>2, <3>3 DEF Back
    <3> QED
      BY <1>1, <1>2, <1>4, <3>2, <3>4 DEF OnWay, t
  <2> QED BY <2>2, <2>3
<1>7. CASE Back(s, b)
  <2>0. /\ s.dir = -1 /\ s.turns = 1 /\ s.vcom \in b .. Max - 1
        /\ 10 * s.errs <= (Max - Min - 2) + (Max - s.vcom)
    BY <1>4, <1>7 DEF Back
  <2>1. LeftOpen(s) <=> s.vcom > Min + k
    BY <1>4, <2>0 DEF LeftOpen, k
  <2>2. CASE s.vcom > b \/ b > Min + 1
    <3>1. s.vcom > Min + k /\ (s.vcom > b => s.vcom - k >= b) /\ (s.vcom = b => k = 1)
      BY <1>3, <1>4, <2>0, <2>2
    <3>2. t.aim = s.vcom - k /\ t.dir = -1 /\ t.turns = 1
      BY <1>2, <2>0, <2>1, <3>1
    <3>3. t.aim \in b .. s.vcom \/ (t.aim = b - 1 /\ s.vcom = b)
      BY <1>3, <1>4, <2>0, <3>1, <3>2
    <3>4. 10 * t.errs <= (Max - Min - 2) + (Max - t.aim)
      BY <1>3, <1>4, <1>5, <2>0, <3>2
    <3>5. Back(t, b)
      BY <1>2, <1>4, <2>0, <3>2, <3>3, <3>4 DEF Back
    <3>6. t.aim \in Min .. Max
      BY <1>4, <2>0, <3>3
    <3> QED
      BY <1>1, <1>2, <3>5, <3>6 DEF OnWay, t
  <2>3. CASE ~(s.vcom > b \/ b > Min + 1)
    <3>1. s.vcom = b /\ b = Min + 1 /\ k = 1
      BY <1>3, <1>4, <2>0, <2>3
    <3>2. t.aim = b /\ t.dir = 1 /\ t.turns = 2
      BY <1>2, <1>4, <2>0, <2>1, <3>1
    <3>3. Again(t, b)
      BY <1>2, <1>4, <3>1, <3>2 DEF Again
    <3> QED
      BY <1>1, <1>2, <1>4, <3>2, <3>3 DEF OnWay, t
  <2> QED BY <2>2, <2>3
<1>8. CASE Again(s, b)
  <2>0. s.dir = 1 /\ s.turns = 2 /\ b = Min + 1 /\ s.vcom = b
    BY <1>8 DEF Again
  <2>1. k = 1
    BY <1>3, <2>0
  <2>2. RightOpen(s)
    BY <1>4, <2>0, <2>1 DEF RightOpen, k
  <2>3. t.aim = b + 1 /\ t.dir = 1 /\ t.turns = 2
    BY <1>2, <2>0, <2>1, <2>2
  <2>4. Again(t, b)
    BY <1>2, <1>4, <2>0, <2>3 DEF Again
  <2>5. t.aim \in Min .. Max
    BY <1>4, <2>3
  <2> QED
    BY <1>1, <1>2, <2>4, <2>5 DEF OnWay, t
<1> QED
  BY <1>1, <1>6, <1>7, <1>8

\* Judging what the curve holds there keeps a search on its way, or ends it
\* with the bottom or a flicker that is good enough.
LEMMA JudgedOnWay ==
  ASSUME NEW b \in Min + 1 .. Max - 1, Valley(b), NEW s, OnWay(cfg.curve, s, b), s.at = "judge",
         s.aim \in Min .. Max
  PROVE  OnWay(cfg.curve, Judged(s, cfg.curve[s.aim]), b)
<1> DEFINE f == cfg.curve[s.aim]
           t == Judged(s, f)
           k == StepOf(s.flick)
           worse == f > 0 /\ s.flick > 0 /\ s.flick < f
<1>1. /\ s \in SearchStates /\ s.vcom \in Min .. Max /\ s.flick = cfg.curve[s.vcom]
      /\ Out(s) \/ Back(s, b) \/ Again(s, b)
  BY Zenon DEF OnWay
<1>2. /\ f \in 1 .. Invalid /\ s.flick \in 1 .. Invalid
      /\ (f = Invalid => Max - Min <= 50 /\ (b <= s.aim - 10 \/ s.aim + 10 <= b))
      /\ (s.vcom = b => k = 1) /\ (s.aim \in {b - 1, b, b + 1} => f < Invalid)
  BY <1>1, CurveFacts
<1>3. /\ Min \in Int /\ Max \in Int /\ Max - Min >= 10 /\ b \in Int /\ Min + 1 <= b /\ b <= Max - 1
      /\ s.errs \in Nat /\ s.vcom \in Int /\ s.turns \in Nat /\ s.aim \in Int /\ Place(s) = s.aim
      /\ f \in Int /\ s.flick \in Int /\ (f >= Invalid => f = Invalid)
  <2>1. f \in Int /\ s.flick \in Int /\ (f >= Invalid => f = Invalid)
    <3> HIDE DEF f
    <3> QED BY <1>2, ReadingIs
  <2> HIDE DEF f
  <2> QED BY <1>1, <2>1, FlickSearchAssumption DEF SearchStates, Place
<1>4. s.vcom = s.aim => s.flick = f
  BY <1>1
<1>5. /\ (b <= s.aim /\ s.aim < s.vcom) \/ (s.vcom < s.aim /\ s.aim <= b) => f <= s.flick
      /\ s.vcom = b /\ s.aim \in {b - 1, b + 1} => s.flick < f
  BY <1>1, <1>3, Falls
\* The search goes on, or ends where it is or where it aimed.
<1>6. ASSUME s.turns < MaxTurns - 1, ~(s.errs >= MaxErrs /\ f >= Invalid)
      PROVE  IF worse /\ k = 1 /\ s.turns >= 1
             THEN t = Found(s, s.vcom, s.flick)
             ELSE IF f > 0 /\ f < MinOk THEN t = Found(s, s.aim, f)
             ELSE /\ t \in SearchStates /\ t.at = "aim" /\ t.vcom = s.aim /\ t.flick = f
                  /\ t.errs = s.errs
                  /\ ~worse => t.dir = s.dir /\ t.turns = s.turns
                  /\ worse /\ s.dir = 0 => t.dir = -1 /\ t.turns = s.turns + 1
  <2> HIDE DEF f
  <2> QED BY <1>1, <1>3, <1>6, JudgedIs
<1>7. ASSUME NEW v \in Min .. Max, v = b \/ cfg.curve[v] < MinOk, t = Found(s, v, cfg.curve[v])
      PROVE  OnWay(cfg.curve, t, b)
  <2>1. v \in Int /\ cfg.curve[v] \in Int
    <3>1. cfg.curve[v] \in 1 .. Invalid
      BY CurveFacts
    <3> QED BY <1>3, <3>1
  <2>2. /\ t \in SearchStates /\ t.at = "done" /\ t.out = "found" /\ t.vcom = v
        /\ t.flick = cfg.curve[v]
    BY <1>1, <1>7, <2>1, FoundIs
  <2> QED
    BY <1>7, <2>2 DEF OnWay, Good
<1>8. ASSUME t = Found(s, s.aim, f), f < MinOk
      PROVE  OnWay(cfg.curve, t, b)
  BY <1>7, <1>8
<1>9. ASSUME t = Found(s, s.vcom, s.flick), s.vcom = b
      PROVE  OnWay(cfg.curve, t, b)
  BY <1>1, <1>7, <1>9
<1>10. ASSUME t \in SearchStates, t.at = "aim", t.vcom = s.aim, t.flick = f,
              Out(t) \/ Back(t, b) \/ Again(t, b)
       PROVE  OnWay(cfg.curve, t, b)
  BY <1>10 DEF OnWay
<1> SUFFICES OnWay(cfg.curve, t, b)
  OBVIOUS
<1> HIDE DEF t, f, k
<1>11. t.at = "aim" => Place(t) = t.vcom
  BY DEF Place
<1>12. CASE Out(s)
  <2>0. /\ s.dir = 0 /\ s.turns = 0 /\ s.aim \in Min + 1 .. Max - 1 /\ s.vcom <= s.aim
        /\ 10 * s.errs <= s.aim - Min - 1
    BY <1>3, <1>12 DEF Out
  <2>1. s.turns < MaxTurns - 1 /\ ~(s.errs >= MaxErrs /\ f >= Invalid)
    <3>1. f >= Invalid => Max - Min <= 50
      BY <1>2, <1>3
    <3>2. f >= Invalid => s.errs < 10
      BY <1>3, <2>0, <3>1
    <3> QED BY <1>3, <2>0, <3>2 DEF MaxTurns, MaxErrs
  <2>2. worse => s.aim >= b
    BY <1>2, <1>3, <1>4, <1>5, <2>0
  <2>3. \/ t = Found(s, s.aim, f) /\ f < MinOk
        \/ /\ t \in SearchStates /\ t.at = "aim" /\ t.vcom = s.aim /\ t.flick = f
           /\ t.errs = s.errs
           /\ ~worse => t.dir = 0 /\ t.turns = 0
           /\ worse => t.dir = -1 /\ t.turns = 1
    BY <1>6, <2>0, <2>1
  <2>4. ASSUME t.at = "aim", t.vcom = s.aim, t.errs = s.errs, t.dir = 0, t.turns = 0
        PROVE  Out(t)
    BY <1>3, <1>11, <2>0, <2>4 DEF Out
  <2>5. ASSUME t.at = "aim", t.vcom = s.aim, t.errs = s.errs, t.dir = -1, t.turns = 1, worse
        PROVE  Back(t, b)
    <3>1. s.aim \in b .. Max - 1 /\ 10 * t.errs <= (Max - Min - 2) + (Max - s.aim)
      BY <1>3, <2>0, <2>2, <2>5
    <3> QED BY <1>3, <1>11, <2>5, <3>1 DEF Back
  <2> QED BY <1>8, <1>10, <2>3, <2>4, <2>5
<1>13. CASE Back(s, b)
  <2>0. /\ s.dir = -1 /\ s.turns = 1 /\ s.vcom \in b .. Max - 1
        /\ s.aim \in b .. s.vcom \/ (s.aim = b - 1 /\ s.vcom = b)
        /\ 10 * s.errs <= (Max - Min - 2) + (Max - s.aim)
    BY <1>3, <1>13 DEF Back
  <2>1. s.turns < MaxTurns - 1 /\ ~(s.errs >= MaxErrs /\ f >= Invalid)
    <3>1. f = Invalid => Max - Min <= 50 /\ s.aim >= b + 10
      BY <1>2, <1>3, <2>0
    <3>2. f >= Invalid => s.errs < 10
      BY <1>3, <2>0, <3>1
    <3> QED BY <1>3, <2>0, <3>2 DEF MaxTurns, MaxErrs
  <2>2. CASE s.aim = b - 1 /\ s.vcom = b
    <3>1. worse /\ k = 1
      BY <1>2, <1>3, <1>5, <2>2
    <3> QED BY <1>6, <1>9, <2>0, <2>1, <2>2, <3>1
  <2>3. CASE s.aim \in b .. s.vcom
    <3>1. ~worse
      BY <1>2, <1>3, <1>4, <1>5, <2>3
    <3>2. \/ t = Found(s, s.aim, f) /\ f < MinOk
          \/ /\ t \in SearchStates /\ t.at = "aim" /\ t.vcom = s.aim /\ t.flick = f
             /\ t.errs = s.errs /\ t.dir = -1 /\ t.turns = 1
      BY <1>6, <2>0, <2>1, <3>1
    <3>3. ASSUME t.at = "aim", t.vcom = s.aim, t.errs = s.errs, t.dir = -1, t.turns = 1
          PROVE  Back(t, b)
      BY <1>3, <1>11, <2>0, <2>3, <3>3 DEF Back
    <3> QED BY <1>8, <1>10, <3>2, <3>3
  <2> QED BY <2>0, <2>2, <2>3
<1>14. CASE Again(s, b)
  <2>0. s.dir = 1 /\ s.turns = 2 /\ b = Min + 1 /\ s.vcom = b /\ s.aim \in {b, b + 1}
    BY <1>3, <1>14 DEF Again
  <2>1. s.turns < MaxTurns - 1 /\ ~(s.errs >= MaxErrs /\ f >= Invalid)
    <3>1. ~(f >= Invalid)
      BY <1>2, <1>3, <2>0
    <3> QED BY <2>0, <3>1 DEF MaxTurns
  <2>2. CASE s.aim = b + 1
    <3>1. worse /\ k = 1
      BY <1>2, <1>3, <1>5, <2>0, <2>2
    <3> QED BY <1>6, <1>9, <2>0, <2>1, <3>1
  <2>3. CASE s.aim = b
    <3>1. ~worse
      BY <1>2, <1>3, <1>4, <2>0, <2>3
    <3>2. \/ t = Found(s, s.aim, f) /\ f < MinOk
          \/ /\ t \in SearchStates /\ t.at = "aim" /\ t.vcom = s.aim /\ t.flick = f
             /\ t.dir = 1 /\ t.turns = 2
      BY <1>6, <2>0, <2>1, <3>1
    <3>3. ASSUME t.at = "aim", t.vcom = s.aim, t.dir = 1, t.turns = 2
          PROVE  Again(t, b)
      BY <1>3, <1>11, <2>0, <2>3, <3>3 DEF Again
    <3> QED BY <1>8, <1>10, <3>2, <3>3
  <2> QED BY <2>0, <2>2, <2>3
<1> QED
  BY <1>1, <1>12, <1>13, <1>14

\* The first reading, of the initial VCOM, puts a search on its way.
LEMMA BeginOnWay ==
  ASSUME NEW b \in Min + 1 .. Max - 1, Valley(b), cfg.init \in Min + 1 .. Max - 1
  PROVE  OnWay(cfg.curve, Begin(cfg.init, cfg.curve[cfg.init]), b)
<1> DEFINE v == cfg.init
           f == cfg.curve[v]
           s == Begin(v, f)
<1>1. Min \in Int /\ Max \in Int /\ v \in Int /\ v \in Min .. Max
  BY FlickSearchAssumption
<1>2. f \in Int
  <2>1. f \in 1 .. Invalid
    BY <1>1, CurveFacts
  <2> HIDE DEF f
  <2> QED BY <2>1
<1> HIDE DEF v, f
<1>3. /\ s \in SearchStates /\ s.at = "aim" /\ s.vcom = v /\ s.flick = f
      /\ s.dir = 0 /\ s.turns = 0 /\ s.errs = 0
  <2>1. Idle \in SearchStates /\ Idle.dir = 0 /\ Idle.turns = 0 /\ Idle.errs = 0
    BY DEF SearchStates, Idle
  <2> QED BY <1>1, <1>2, <2>1 DEF SearchStates, Begin
<1> HIDE DEF s
<1>4. Place(s) = v
  BY <1>3 DEF Place
<1>5. v \in Min + 1 .. Max - 1 /\ 0 <= v - Min - 1
  BY <1>1 DEF v
<1>6. Out(s)
  BY <1>1, <1>3, <1>4, <1>5 DEF Out
<1>7. OnWay(cfg.curve, s, b)
  BY <1>1, <1>3, <1>6 DEF OnWay, v, f
<1> QED
  BY <1>7 DEF s, f, v

-----------------------------------------------------------------------------
(* The search of an undisturbed AUTOFLICK measures the curve: only one task   *)
(* lives, the worker that searches for it has the probe and shows its VCOMs   *)
(* on a chip that answers, and what it found stays on the chip until the task *)
(* reports it.                                                                *)

Calm == clean /\ cfg.chip = "hi8394" /\ cfg.init \in Min + 1 .. Max - 1

Undivided ==
  /\ \A t, u \in Threads : Alive(t) /\ Alive(u) => t = u
  /\ srv \in {"idle", "joining"}
  /\ Waiting # {} => panel.lit /\ ic.ok

Course(b) ==
  \A w \in Threads :
    /\ w \in Active => probe = "flick"
    /\ worker[w] = "second" => panel.vcom = cfg.init
    /\ worker[w] = "search" =>
         /\ OnWay(cfg.curve, search[w], b)
         /\ search[w].at = "judge" => /\ search[w].aim \in Min .. Max
                                      /\ panel.vcom = search[w].aim

Result(b) ==
  sem.end > 0 \/ (\E t \in Threads : task[t] = "report") =>
    Good(cfg.curve, found.vcom, found.flick, b) /\ panel.vcom = found.vcom

CalmInv ==
  /\ Calm => /\ Undivided
             /\ \A b \in Min + 1 .. Max - 1 : Valley(b) => Course(b) /\ Result(b)
  /\ ValleyFound

\* While a search is called for, goes on or has ended, its task waits for it,
\* there is no other, and the chip answers.
LEMMA OneSearch ==
  ASSUME Paired, Undivided
  PROVE  /\ \A w \in Active : Active = {w} /\ sem.start = 0 /\ sem.end = 0
         /\ sem.start > 0 => Active = {} /\ sem.end = 0
         /\ sem.end > 0 => Active = {} /\ sem.start = 0
         /\ sem.start > 0 \/ sem.end > 0 \/ Active # {} =>
              panel.lit /\ ic.ok /\ \A t \in Threads : task[t] # "report"
<1>1. /\ sem.start \in Nat /\ sem.end \in Nat
      /\ sem.start + sem.end + Cardinality(Active) <= Cardinality(Waiting)
      /\ Cardinality(Active) \in Nat /\ Cardinality(Waiting) \in Nat
      /\ IsFiniteSet(Active)
  BY CountsAreNumbers DEF Paired
<1>2. Waiting = {} => Cardinality(Waiting) = 0
  BY FS_EmptySet
<1>3. \A t \in Waiting : Waiting = {t} /\ \A u \in Threads : task[u] # "report"
  BY DEF Undivided, Waiting, Alive
<1>4. Cardinality(Waiting) <= 1
  <2>1. CASE Waiting = {}
    BY <1>2, <2>1
  <2>2. CASE Waiting # {}
    <3>1. PICK t \in Waiting : Waiting = {t}
      BY <1>3, <2>2
    <3> QED BY <3>1, FS_Singleton
  <2> QED BY <2>1, <2>2
<1>5. ASSUME NEW w \in Active
      PROVE  Cardinality(Active) = 1 /\ Active = {w}
  <2>1. Cardinality(Active) # 0
    BY <1>1, <1>5, FS_EmptySet
  <2>2. Cardinality(Active) = 1
    BY <1>1, <1>4, <2>1
  <2>3. PICK x : Active = {x}
    BY <1>1, <2>2, FS_Singleton
  <2> QED BY <1>5, <2>2, <2>3
<1>6. \A w \in Active : Active = {w} /\ sem.start = 0 /\ sem.end = 0
  BY <1>1, <1>4, <1>5
<1>7. sem.start > 0 \/ sem.end > 0 => Cardinality(Active) = 0 /\ (sem.start = 0 \/ sem.end = 0)
  BY <1>1, <1>4
<1>8. Cardinality(Active) = 0 => Active = {}
  BY <1>1, FS_EmptySet
<1>9. sem.start > 0 \/ sem.end > 0 \/ Active # {} => Waiting # {}
  <2>1. Active # {} => Cardinality(Active) = 1
    BY <1>5
  <2> QED BY <1>1, <1>2, <2>1
<1> QED
  BY <1>1, <1>3, <1>6, <1>7, <1>8, <1>9 DEF Undivided

LEMMA SameValley ==
  ASSUME cfg' = cfg, NEW b
  PROVE  Valley(b)' <=> Valley(b)
BY DEF Valley

LEMMA SameReport ==
  ASSUME CalmInv, cfg' = cfg, flickOver' = flickOver
  PROVE  ValleyFound'
BY SameValley DEF CalmInv, ValleyFound

\* A step that ends the calm, or finds none.
LEMMA NotCalm ==
  ASSUME CalmInv, cfg' = cfg, flickOver' = flickOver, clean' => clean /\ ~Calm
  PROVE  CalmInv'
BY SameReport DEF CalmInv, Calm

\* A step that moves no thread but the server thread, which waits or not.
LEMMA CalmStays ==
  ASSUME CalmInv, UNCHANGED <<cfg, panel, ic, probe, flickVars, clean>>,
         srv' = srv \/ srv' \in {"idle", "joining"}
  PROVE  CalmInv'
<1>1. UNCHANGED <<task, worker, search, sem, found, flickOver>>
  BY DEF flickVars
<1>2. SUFFICES ASSUME Calm
               PROVE  CalmInv'
  BY <1>1, NotCalm
<1>3. Undivided'
  BY <1>1, <1>2 DEF CalmInv, Undivided, Alive, Waiting
<1>4. ASSUME NEW b \in Min + 1 .. Max - 1, Valley(b)'
      PROVE  Course(b)' /\ Result(b)'
  <2>1. Course(b) /\ Result(b)
    BY <1>2, <1>4, SameValley DEF CalmInv
  <2>2. Course(b)'
    BY <1>1, <2>1 DEF Course, Active
  <2>3. Result(b)'
    BY <1>1, <2>1 DEF Result
  <2> QED BY <2>2, <2>3
<1> QED
  BY <1>1, <1>3, <1>4, SameReport DEF CalmInv

\* The one worker in a search moves.
LEMMA MovedOn ==
  ASSUME SearchInv, NEW w \in Threads, NEW b, NEW p \in WorkerPlaces, NEW s,
         cfg' = cfg, Active \subseteq {w},
         worker' = [worker EXCEPT ![w] = p], search' = [search EXCEPT ![w] = s],
         p \in {"first", "second", "search"} => probe' = "flick",
         p = "second" => panel'.vcom = cfg.init,
         p = "search" =>
           /\ OnWay(cfg.curve, s, b)
           /\ s.at = "judge" => s.aim \in Min .. Max /\ panel'.vcom = s.aim
  PROVE  Course(b)'
<1>1. /\ worker' \in [Threads -> WorkerPlaces] /\ worker'[w] = p /\ search'[w] = s
      /\ \A u \in Threads : u # w => worker'[u] = worker[u] /\ worker[u] \notin {"first", "second", "search"}
  BY DEF SearchInv, Owned, Active
<1> SUFFICES ASSUME NEW u \in Threads
             PROVE  /\ u \in Active' => probe' = "flick"
                    /\ worker'[u] = "second" => panel'.vcom = cfg.init
                    /\ worker'[u] = "search" =>
                         /\ OnWay(cfg.curve, search'[u], b)
                         /\ search'[u].at = "judge" => /\ search'[u].aim \in Min .. Max
                                                       /\ panel'.vcom = search'[u].aim
  BY DEF Course
<1>2. CASE u # w
  BY <1>1, <1>2 DEF Active
<1>3. CASE u = w
  BY <1>1, <1>3 DEF Active
<1> QED BY <1>2, <1>3

\* The probe gives the flicker of the VCOM shown.
LEMMA AnswersCurve ==
  ASSUME Bounds, probe = "flick", panel.lit, panel.vcom \in Min .. Max
  PROVE  Answers = {cfg.curve[panel.vcom]}
<1>1. Flicker(panel.vcom) = cfg.curve[panel.vcom]
  BY CalibrationAssumption DEF Bounds, Flicker
<1> QED
  BY <1>1 DEF Answers

LEMMA ShownLit ==
  ASSUME panel \in Panels, panel.lit, ic.ok, NEW v \in Int
  PROVE  Written(v).vcom = v /\ Written(v).lit
BY DEF Panels, Written, Shown

\* A worker of a calm system.
LEMMA WorkerKeepsCalm ==
  ASSUME SearchInv, Paired, BurnInv, CalmInv, NEW w \in Threads, WorkerStep(w)
  PROVE  CalmInv'
<1>1. UNCHANGED <<cfg, task, ic, srv, clean, flickOver>>
  BY Zenon DEF WorkerStep, WorkerWake, WorkerFirst, WorkerSecond, WorkerAim, WorkerJudge,
               WorkerEnd, srvVars
<1>2. SUFFICES ASSUME Calm
               PROVE  CalmInv'
  BY <1>1, NotCalm
<1>3. /\ Undivided /\ Bounds /\ panel \in Panels
      /\ worker \in [Threads -> WorkerPlaces] /\ search \in [Threads -> SearchStates]
      /\ sem \in [start : Nat, end : Nat]
      /\ Min \in Int /\ Max \in Int /\ cfg.init \in Min + 1 .. Max - 1
  BY <1>2, FlickSearchAssumption DEF CalmInv, SearchInv, Owned, BurnInv, DataOK, Paired, Calm
<1>4. /\ Active \subseteq {w} /\ panel.lit /\ ic.ok /\ sem.end = 0
      /\ \A t \in Threads : task[t] # "report"
  <2>1. w \in Active \/ (sem.start > 0 /\ worker[w] = "wait")
    BY Zenon DEF WorkerStep, WorkerWake, WorkerFirst, WorkerSecond, WorkerAim, WorkerJudge,
                 WorkerEnd, Work, Active
  <2> QED BY <1>3, <2>1, OneSearch
<1>5. panel' = panel \/ \E v \in Int : panel' = Written(v)
  <2>1. CASE WorkerWake(w) \/ WorkerSecond(w) \/ WorkerJudge(w)
    BY <2>1 DEF WorkerWake, WorkerSecond, WorkerJudge
  <2>2. CASE WorkerFirst(w)
    BY <1>3, <2>2, AnswersAreNumbers DEF WorkerFirst
  <2>3. CASE WorkerAim(w)
    <3>1. Sound(search[w]) /\ search[w].at = "aim"
      BY <2>3 DEF SearchInv, SearchesSound, WorkerAim
    <3>2. Aimed(search[w]).aim \in Int
      BY <3>1, AimedSound DEF Sound, SearchStates
    <3>3. panel' = Written(Aimed(search[w]).aim)
      BY <1>3, <2>3 DEF WorkerAim, Written
    <3> QED BY <3>2, <3>3
  <2>4. CASE WorkerEnd(w)
    <3>1. search[w].vcom \in Int
      BY <1>3 DEF SearchStates
    <3> QED BY <2>4, <3>1, Zenon DEF WorkerEnd
  <2> QED BY <2>1, <2>2, <2>3, <2>4 DEF WorkerStep
<1>6. panel'.lit
  BY <1>3, <1>4, <1>5, ShownLit
<1>7. Undivided'
  BY <1>1, <1>3, <1>4, <1>6 DEF Undivided, Alive, Waiting
<1>8. ASSUME NEW b \in Min + 1 .. Max - 1, Valley(b)
      PROVE  Course(b)' /\ Result(b)'
  <2>1. Course(b)
    BY <1>2, <1>8 DEF CalmInv
  <2>2. /\ search = [search EXCEPT ![w] = search[w]]
        /\ worker = [worker EXCEPT ![w] = worker[w]]
    BY <1>3
  <2>3. sem' = sem => Result(b)'
    BY <1>1, <1>4 DEF Result
  <2>4. CASE WorkerWake(w)
    <3>1. sem'.end = 0
      BY <1>3, <1>4, <2>4 DEF WorkerWake
    <3>2. Result(b)'
      BY <1>1, <1>4, <3>1 DEF Result
    <3>3. Course(b)'
      BY <1>1, <1>4, <2>2, <2>4, MovedOn DEF WorkerWake, Work, WorkerPlaces
    <3> QED BY <3>2, <3>3
  <2>5. CASE WorkerFirst(w)
    <3>1. panel'.vcom = cfg.init /\ probe' = "flick"
      BY <1>3, <1>4, <2>1, <2>5, AnswersAreNumbers, ShownLit
      DEF WorkerFirst, Work, Course, Active
    <3>2. Course(b)'
      BY <1>1, <1>4, <2>2, <2>5, <3>1, MovedOn DEF WorkerFirst, Work, WorkerPlaces
    <3> QED BY <2>3, <2>5, <3>2 DEF WorkerFirst
  <2>6. CASE WorkerSecond(w)
    <3>1. probe = "flick" /\ panel.vcom = cfg.init
      BY <2>1, <2>6 DEF WorkerSecond, Work, Course, Active
    <3>2. Answers = {cfg.curve[cfg.init]}
      BY <1>3, <1>4, <3>1, AnswersCurve
    <3>3. search' = [search EXCEPT ![w] = Begin(cfg.init, cfg.curve[cfg.init])]
      BY <2>6, <3>2 DEF WorkerSecond
    <3>4. OnWay(cfg.curve, Begin(cfg.init, cfg.curve[cfg.init]), b)
      BY <1>3, <1>8, BeginOnWay
    <3>5. Begin(cfg.init, cfg.curve[cfg.init]).at # "judge"
      BY DEF Begin, Idle
    <3>6. Course(b)'
      BY <1>1, <1>4, <2>6, <3>1, <3>3, <3>4, <3>5, MovedOn DEF WorkerSecond, Work, WorkerPlaces
    <3> QED BY <2>3, <2>6, <3>6 DEF WorkerSecond
  <2>7. CASE WorkerAim(w)
    <3>1. /\ OnWay(cfg.curve, search[w], b) /\ search[w].at = "aim" /\ probe' = "flick"
          /\ search' = [search EXCEPT ![w] = Aimed(search[w])]
          /\ worker' = [worker EXCEPT ![w] = "search"]
      BY <2>1, <2>2, <2>7 DEF WorkerAim, Course, Active
    <3>2. OnWay(cfg.curve, Aimed(search[w]), b) /\ Aimed(search[w]).aim \in Min .. Max
      BY <1>8, <3>1, AimedOnWay
    <3>3. panel' = Written(Aimed(search[w]).aim)
      BY <1>3, <2>7 DEF WorkerAim, Written
    <3>4. panel'.vcom = Aimed(search[w]).aim
      BY <1>3, <1>4, <3>2, <3>3, ShownLit
    <3>5. Course(b)'
      BY <1>1, <1>4, <3>1, <3>2, <3>4, MovedOn DEF WorkerPlaces
    <3> QED BY <2>3, <2>7, <3>5 DEF WorkerAim
  <2>8. CASE WorkerJudge(w)
    <3>1. /\ OnWay(cfg.curve, search[w], b) /\ search[w].at = "judge" /\ probe = "flick"
          /\ search[w].aim \in Min .. Max /\ panel.vcom = search[w].aim
          /\ worker' = [worker EXCEPT ![w] = "search"] /\ probe' = probe
      BY <2>1, <2>2, <2>8 DEF WorkerJudge, Course, Active
    <3>2. Answers = {cfg.curve[search[w].aim]}
      BY <1>3, <1>4, <3>1, AnswersCurve
    <3> DEFINE s == Judged(search[w], cfg.curve[search[w].aim])
    <3>3. search' = [search EXCEPT ![w] = s]
      BY <2>8, <3>2, Zenon DEF WorkerJudge
    <3>4. OnWay(cfg.curve, s, b)
      BY <1>8, <3>1, JudgedOnWay
    <3>5. s.at # "judge"
      <4>1. cfg.curve[search[w].aim] \in Int
        <5> DEFINE g == cfg.curve[search[w].aim]
        <5>1. g \in 1 .. Invalid
          BY <1>8, <3>1, CurveFacts
        <5> HIDE DEF g
        <5>2. g \in Int
          BY <5>1, ReadingIs
        <5> QED BY <5>2 DEF g
      <4>2. Sound(search[w])
        BY DEF SearchInv, SearchesSound
      <4>3. s.at \in {"aim", "done"}
        BY <3>1, <4>1, <4>2, JudgedSound
      <4> QED BY <4>3
    <3> HIDE DEF s
    <3>6. Course(b)'
      BY <1>1, <1>4, <3>1, <3>3, <3>4, <3>5, MovedOn DEF WorkerPlaces
    <3> QED BY <2>3, <2>8, <3>6 DEF WorkerJudge
  <2>9. CASE WorkerEnd(w)
    <3>1. /\ worker[w] = "search" /\ search[w].at = "done" /\ OnWay(cfg.curve, search[w], b)
          /\ worker' = [worker EXCEPT ![w] = "wait"]
          /\ search' = [search EXCEPT ![w] = Idle]
          /\ found' = [vcom |-> search[w].vcom, flick |-> search[w].flick]
      BY <2>1, <2>9 DEF WorkerEnd, Work, Course
    <3>2. Good(cfg.curve, search[w].vcom, search[w].flick, b) /\ search[w].out = "found"
      BY <3>1 DEF OnWay
    <3>3. panel' = Written(search[w].vcom) /\ search[w].vcom \in Int
      BY <1>3, <2>9, <3>2 DEF WorkerEnd, SearchStates
    <3>4. panel'.vcom = found'.vcom
      BY <1>3, <1>4, <3>1, <3>3, ShownLit
    <3>5. Result(b)'
      BY <1>1, <3>1, <3>2, <3>4 DEF Result
    <3>6. Course(b)'
      BY <1>1, <1>4, <3>1, MovedOn DEF WorkerPlaces
    <3> QED BY <3>5, <3>6
  <2> QED BY <2>4, <2>5, <2>6, <2>7, <2>8, <2>9 DEF WorkerStep
<1>9. \A b \in Min + 1 .. Max - 1 : Valley(b)' => Course(b)' /\ Result(b)'
  BY <1>1, <1>8, SameValley
<1> QED
  BY <1>1, <1>7, <1>9, SameReport DEF CalmInv

\* The task of a calm system.
LEMMA TaskKeepsCalm ==
  ASSUME SearchInv, Paired, BurnInv, CalmInv, NEW t \in Threads, TaskStep(t)
  PROVE  CalmInv'
<1>1. UNCHANGED <<cfg, panel, probe, search, found, srv>> /\ (clean' => clean)
  <2>1. CASE TaskCheck(t)
    BY <2>1 DEF TaskCheck, srvVars
  <2>2. CASE ~TaskCheck(t)
    <3>1. UNCHANGED <<cfg, panel, probe, search, found, srv, clean>>
      BY <2>2, Zenon DEF TaskStep, TaskLook, TaskInit, TaskFlag, TaskWake, TaskReport, srvVars
    <3> QED BY <3>1
  <2> QED BY <2>1, <2>2
<1>2. /\ task \in [Threads -> TaskPlaces] /\ worker \in [Threads -> WorkerPlaces]
      /\ sem \in [start : Nat, end : Nat]
  BY DEF SearchInv, Owned, Paired
<1>3. CASE TaskReport(t)
  <2>1. /\ task[t] = "report" /\ task' = [task EXCEPT ![t] = "gone"]
        /\ UNCHANGED <<worker, sem, ic, clean>>
        /\ flickOver' = [vcom |-> found.vcom, flick |-> found.flick,
                         reg |-> panel.vcom, clean |-> clean]
    BY <1>3 DEF TaskReport, Step
  <2>2. ValleyFound'
    <3> SUFFICES ASSUME Calm, NEW b \in Min + 1 .. Max - 1, Valley(b)
                 PROVE  /\ found.vcom = b \/ found.flick < MinOk
                        /\ found.vcom \in Min .. Max
                        /\ found.flick = cfg.curve[found.vcom]
                        /\ panel.vcom = found.vcom
      BY <1>1, <2>1, SameValley DEF ValleyFound, Calm
    <3>1. Result(b)
      BY DEF CalmInv
    <3> QED BY <2>1, <3>1 DEF Result, Good
  <2>3. ASSUME Calm
        PROVE  Undivided' /\ \A b \in Min + 1 .. Max - 1 : Valley(b)' => Course(b)' /\ Result(b)'
    <3>1. Undivided'
      BY <1>1, <1>2, <2>1, <2>3 DEF CalmInv, Undivided, Alive, Waiting
    <3>2. ASSUME NEW b \in Min + 1 .. Max - 1, Valley(b)'
          PROVE  Course(b)' /\ Result(b)'
      <4>1. Course(b) /\ Result(b)
        BY <1>1, <2>3, <3>2, SameValley DEF CalmInv
      <4>2. Course(b)'
        BY <1>1, <2>1, <4>1 DEF Course, Active
      <4>3. Result(b)'
        BY <1>1, <1>2, <2>1, <4>1 DEF Result
      <4> QED BY <4>2, <4>3
    <3> QED BY <3>1, <3>2
  <2>4. Calm' => Calm
    BY <1>1 DEF Calm
  <2> QED BY <2>2, <2>3, <2>4 DEF CalmInv
<1>4. CASE ~TaskReport(t)
  <2>1. flickOver' = flickOver
    BY <1>4, Zenon DEF TaskStep, TaskLook, TaskInit, TaskFlag, TaskCheck, TaskWake
  <2>2. SUFFICES ASSUME Calm, clean'
                 PROVE  CalmInv'
    BY <1>1, <2>1, NotCalm
  <2>3. Undivided /\ Alive(t) /\ \A u \in Threads : u # t => ~Alive(u)
    BY <1>4, <2>2, Zenon DEF CalmInv, Undivided, TaskStep, TaskLook, TaskInit, TaskFlag,
                             TaskCheck, TaskWake, Step, Alive
  <2>4. ASSUME Undivided', Active' = Active, \A w \in Active : worker'[w] = worker[w],
               \A w \in Threads : w \notin Active => worker'[w] \in {"none", "wait"},
               sem'.end > 0 \/ (\E u \in Threads : task'[u] = "report") =>
                 sem.end > 0 \/ (\E u \in Threads : task[u] = "report")
        PROVE  CalmInv'
    <3>1. ASSUME NEW b \in Min + 1 .. Max - 1, Valley(b)'
          PROVE  Course(b)' /\ Result(b)'
      <4>1. Course(b) /\ Result(b)
        BY <1>1, <2>2, <3>1, SameValley DEF CalmInv
      <4>2. Course(b)'
        BY <1>1, <2>4, <4>1 DEF Course, Active
      <4>3. Result(b)'
        BY <1>1, <2>4, <4>1 DEF Result
      <4> QED BY <4>2, <4>3
    <3> QED BY <1>1, <2>1, <2>4, <3>1, SameReport DEF CalmInv
  <2>5. CASE TaskLook(t) \/ TaskFlag(t)
    <3>1. /\ UNCHANGED <<worker, sem, ic>>
          /\ \E p \in {"init", "check", "gone"} : task' = [task EXCEPT ![t] = p]
      BY <2>5, Zenon DEF TaskLook, TaskFlag, Step
    <3>2. Undivided'
      BY <1>1, <1>2, <2>3, <3>1 DEF Undivided, Alive, Waiting
    <3>3. \A w \in Threads : w \notin Active => worker[w] \in {"none", "wait"}
      BY <1>2 DEF Active, WorkerPlaces
    <3>4. \A u \in Threads : task'[u] = "report" => task[u] = "report"
      BY <1>2, <3>1
    <3> QED BY <2>4, <3>1, <3>2, <3>3, <3>4 DEF Active
  <2>6. CASE TaskInit(t)
    <3>1. /\ task' = [task EXCEPT ![t] = "flag"] /\ task[t] = "init" /\ ic' = ic
          /\ worker' = [worker EXCEPT ![t] = "wait"] /\ worker[t] = "none"
          /\ sem' = [start |-> 0, end |-> 0]
      BY <2>6 DEF TaskInit, Step, SearchInv, Owned
    <3>2. Undivided'
      BY <1>1, <1>2, <2>3, <3>1 DEF Undivided, Alive, Waiting
    <3>3. /\ Active' = Active /\ \A w \in Active : worker'[w] = worker[w]
          /\ \A w \in Threads : w \notin Active => worker'[w] \in {"none", "wait"}
      BY <1>2, <3>1 DEF Active, WorkerPlaces
    <3>4. \A u \in Threads : task'[u] = "report" => task[u] = "report"
      BY <1>2, <3>1
    <3>5. ~(sem'.end > 0)
      BY <3>1
    <3> QED BY <2>4, <3>2, <3>3, <3>4, <3>5
  <2>7. CASE TaskCheck(t)
    <3>1. /\ panel.lit /\ ic' = [ic EXCEPT !.ok = panel.lit] /\ worker' = worker
          /\ task' = [task EXCEPT ![t] = "wait"] /\ sem' = [sem EXCEPT !.start = @ + 1]
      BY <2>2, <2>7 DEF TaskCheck, Step, Calm
    <3>2. ic'.ok
      BY <3>1 DEF BurnInv, DataOK
    <3>3. Undivided'
      BY <1>1, <1>2, <2>3, <3>1, <3>2 DEF Undivided, Alive, Waiting
    <3>4. \A w \in Threads : w \notin Active => worker[w] \in {"none", "wait"}
      BY <1>2 DEF Active, WorkerPlaces
    <3>5. \A u \in Threads : task'[u] = "report" => task[u] = "report"
      BY <1>2, <3>1
    <3>6. sem'.end = sem.end
      BY <1>2, <3>1
    <3> QED BY <2>4, <3>1, <3>3, <3>4, <3>5, <3>6 DEF Active
  <2>8. CASE TaskWake(t)
    <3>1. /\ UNCHANGED <<worker, ic>> /\ sem.end > 0
          /\ task' = [task EXCEPT ![t] = "report"]
      BY <2>8 DEF TaskWake, Step
    <3>2. Undivided'
      BY <1>1, <1>2, <2>3, <3>1 DEF Undivided, Alive, Waiting
    <3>3. \A w \in Threads : w \notin Active => worker[w] \in {"none", "wait"}
      BY <1>2 DEF Active, WorkerPlaces
    <3> QED BY <2>4, <3>1, <3>2, <3>3 DEF Active
  <2> QED BY <1>4, <2>5, <2>6, <2>7, <2>8 DEF TaskStep
<1> QED BY <1>3, <1>4

\* An AUTOFLICK finds the system calm when no other is alive: then nobody
\* searches, and nothing found waits to be reported.
LEMMA StartKeepsCalm ==
  ASSUME SearchInv, Paired, CalmInv, StartFlick
  PROVE  CalmInv'
<1>1. /\ UNCHANGED <<cfg, panel, ic, probe, worker, search, sem, found, flickOver, srv>>
      /\ srv = "idle" /\ clean' = ~(\E u \in Threads : Alive(u))
  BY Zenon DEF StartFlick
<1>2. CASE ~clean'
  BY <1>1, <1>2, NotCalm
<1>3. CASE clean'
  <2>1. \A u \in Threads : ~Alive(u)
    BY <1>1, <1>3
  <2>2. PICK t \in Threads : task' = [task EXCEPT ![t] = "look"]
    <3>1. left.searches \in 1 .. MaxSearches
      BY CalibrationAssumption DEF SearchInv, Bounds, StartFlick
    <3> DEFINE t == MaxSearches + 1 - left.searches
    <3>2. t \in Threads
      BY <3>1, CalibrationAssumption DEF Threads
    <3> QED BY <3>2, Zenon DEF StartFlick
  <2>3. /\ task \in [Threads -> TaskPlaces] /\ worker \in [Threads -> WorkerPlaces]
    BY DEF SearchInv, Owned
  <2>4. Undivided'
    BY <1>1, <2>1, <2>2, <2>3 DEF Undivided, Alive, Waiting
  <2>5. Active = {} /\ ~(sem.end > 0)
    <3>1. Waiting = {}
      BY <2>1 DEF Waiting, Alive
    <3>2. Cardinality(Waiting) = 0
      BY <3>1, FS_EmptySet
    <3>3. ~(sem.end > 0)
      BY <3>2, CountsAreNumbers DEF Paired
    <3> QED BY <2>1, <3>3, NobodySearches
  <2>6. \A u \in Threads : task'[u] # "report"
    BY <2>1, <2>2, <2>3 DEF Alive
  <2>7. ASSUME NEW b
        PROVE  Course(b)' /\ Result(b)'
    <3>1. \A w \in Threads : worker[w] \in {"none", "wait"}
      BY <2>3, <2>5 DEF Active, WorkerPlaces
    <3>2. Course(b)'
      BY <1>1, <3>1 DEF Course, Active
    <3>3. Result(b)'
      BY <1>1, <2>5, <2>6 DEF Result
    <3> QED BY <3>2, <3>3
  <2> QED BY <1>1, <2>4, <2>7, SameReport DEF CalmInv
<1> QED BY <1>2, <1>3

LEMMA NextKeepsCalm ==
  ASSUME IInv, CalmInv, [Next]_vars
  PROVE  CalmInv'
<1>1. CASE StartFlick
  BY <1>1, StartKeepsCalm DEF IInv
<1>2. CASE StopFlick \/ Join
  <2>1. /\ UNCHANGED <<cfg, panel, ic, probe, flickVars, clean>>
        /\ srv' \in {"idle", "joining"}
    BY <1>2 DEF StopFlick, Join, Goto
  <2> QED BY <2>1, CalmStays
<1>3. CASE ProbeCommand \/ ManualFlick \/ GammaWrite \/ GammaOtp \/ VcomOtp \/ PowerSwitch
  <2>1. UNCHANGED <<cfg, flickOver>> /\ ~clean'
    BY <1>3, Zenon DEF ProbeCommand, ManualFlick, GammaWrite, GammaOtp, VcomOtp, PowerSwitch,
                       Command, flickVars
  <2> QED BY <2>1, NotCalm
<1>4. CASE SrvStep /\ ~Join
  <2>1. UNCHANGED <<cfg, flickOver, clean>> /\ srv \notin {"idle", "joining"}
    BY <1>4, Zenon DEF SrvStep, GammaCopy, GammaLoad, GammaBurn, GammaPower, GammaCheck,
         GammaFlick, GammaWhite, GammaEnd, VcomBurn, VcomOff, VcomOn, VcomEnd, Serve, Goto,
         flickVars
  <2>2. ~Calm
    BY <2>1 DEF CalmInv, Undivided
  <2> QED BY <2>1, <2>2, NotCalm
<1>5. ASSUME NEW t \in Threads, TaskStep(t) \/ WorkerStep(t)
      PROVE  CalmInv'
  BY <1>5, TaskKeepsCalm, WorkerKeepsCalm DEF IInv
<1>6. CASE UNCHANGED vars
  BY <1>6, CalmStays DEF vars, srvVars
<1> QED
  BY <1>1, <1>2, <1>3, <1>4, <1>5, <1>6 DEF Next, SrvCommand, SrvStep

(* For every range, setting and curve that is a wide valley, however many     *)
(* searches there were before: an AUTOFLICK that nothing disturbs reports the *)
(* bottom of the valley, or a VCOM that is good enough, with the flicker      *)
(* measured there, and leaves the chip showing it.                            *)
THEOREM ValleyIsFound == Spec => []ValleyFound
<1>1. Init => IInv /\ CalmInv
  <2>1. Init => ~clean /\ ~flickOver.clean
    BY DEF Init
  <2> QED BY <2>1, InitHolds DEF CalmInv, Calm, ValleyFound
<1>2. IInv /\ CalmInv /\ [Next]_vars => (IInv /\ CalmInv)'
  BY NextKeepsBurn, NextKeepsCalm
<1>3. CalmInv => ValleyFound
  BY DEF CalmInv
<1> QED
  BY <1>1, <1>2, <1>3, PTL DEF Spec
=============================================================================
