---------------------------- MODULE WaitFunctions ----------------------------
(***************************************************************************)
(* How atomic_wait.cpp settles which API the wait functions use: the       *)
(* atomic _Wait_functions._Api_level, the function pointers published with *)
(* it, and the two ways to it: detection by whichever wait or notify comes *)
(* first (_Acquire_wait_functions), and __std_atomic_set_api_level.        *)
(***************************************************************************)
EXTENDS Naturals

CONSTANTS
    Callers,
    Requests,       \* what a thread may ask for: see Request
    Available       \* whether the system exports the WaitOnAddress family

(* __std_atomic_api_level *)
not_set             == 0
detecting           == 1
has_srwlock         == 2
has_wait_on_address == 3
Level               == not_set .. has_wait_on_address

(* A wait or notify settles the level on the way; set_api_level may force  *)
(* the fallback first, and aborts for the two lowest levels.               *)
Request == {"acquire", "set_srwlock", "set_wait_on_address"}

ASSUME RequestsAssumption == Requests \subseteq Request
ASSUME AvailableAssumption == Available \in BOOLEAN

VARIABLES
    Wait_api_level, \* _Wait_functions._Api_level
    Pfn,            \* whether the three function pointers are stored
    stage,          \* where a thread is in its call
    Local,          \* _Local, _Level: what a thread last saw of the level
    result,         \* the level a finished call used, not_set before
    forced          \* history: somebody has asked for the fallback

levelVars == <<Wait_api_level, Pfn, stage, Local, result, forced>>

InitLevel ==
    /\ Wait_api_level = not_set
    /\ Pfn = FALSE
    /\ stage = [t \in Callers |-> "idle"]
    /\ Local = [t \in Callers |-> not_set]
    /\ result = [t \in Callers |-> not_set]
    /\ forced = FALSE

MoveTo(t, label) == stage' = [stage EXCEPT ![t] = label]

See(t, level) == Local' = [Local EXCEPT ![t] = level]

Return(t, level) ==
    /\ MoveTo(t, "done")
    /\ result' = [result EXCEPT ![t] = level]

(* The entry of __std_atomic_set_api_level or _Acquire_wait_functions. *)
Start(t, r) ==
    /\ stage[t] = "idle"
    /\ MoveTo(t, IF r = "set_srwlock" THEN "force" ELSE "acquire")
    /\ forced' = (forced \/ r = "set_srwlock")
    /\ UNCHANGED <<Wait_api_level, Pfn, Local, result>>

(* _Force_wait_functions_srwlock_only: the load. *)
Force_load(t) ==
    /\ stage[t] = "force"
    /\ See(t, Wait_api_level)
    /\ MoveTo(t, IF Wait_api_level <= detecting THEN "force_cas" ELSE "acquire")
    /\ UNCHANGED <<Wait_api_level, Pfn, result>>

(* One turn of its compare_exchange_weak loop, which is a strong exchange  *)
(* on every target (stl/inc/atomic:2376).                                  *)
Force_cas(t) ==
    /\ stage[t] = "force_cas"
    /\ \/ /\ Wait_api_level = Local[t]
          /\ Wait_api_level' = has_srwlock
          /\ MoveTo(t, "acquire")
          /\ UNCHANGED Local
       \/ /\ Wait_api_level # Local[t]
          /\ See(t, Wait_api_level)
          /\ MoveTo(t, IF Wait_api_level > detecting THEN "acquire" ELSE "force_cas")
          /\ UNCHANGED Wait_api_level
    /\ UNCHANGED <<Pfn, result>>

(* _Acquire_wait_functions *)
Acquire(t) ==
    /\ stage[t] = "acquire"
    /\ See(t, Wait_api_level)
    /\ \/ /\ Wait_api_level <= detecting
          /\ MoveTo(t, "init_cas")
          /\ UNCHANGED result
       \/ /\ Wait_api_level > detecting
          /\ Return(t, Wait_api_level)
    /\ UNCHANGED <<Wait_api_level, Pfn>>

(* Mutant of Init_cas: ">" became ">=", so a thread that finds another one *)
(* detecting returns "detecting" as the level.                             *)
Init_cas_early(t) ==
    /\ stage[t] = "init_cas"
    /\ \/ /\ Wait_api_level = Local[t]
          /\ Wait_api_level' = detecting
          /\ MoveTo(t, "detect")
          /\ UNCHANGED <<Local, result>>
       \/ /\ Wait_api_level # Local[t]
          /\ See(t, Wait_api_level)
          /\ Return(t, Wait_api_level)
          /\ UNCHANGED Wait_api_level
    /\ UNCHANGED Pfn

(* One turn of the loop of _Init_wait_functions: a second detector may     *)
(* move the level from detecting to detecting.                             *)
Init_cas(t) ==
    /\ stage[t] = "init_cas"
    /\ \/ /\ Wait_api_level = Local[t]
          /\ Wait_api_level' = detecting
          /\ MoveTo(t, "detect")
          /\ UNCHANGED <<Local, result>>
       \/ /\ Wait_api_level # Local[t]
          /\ See(t, Wait_api_level)
          /\ \/ Wait_api_level > detecting /\ Return(t, Wait_api_level)
             \/ Wait_api_level <= detecting /\ UNCHANGED <<stage, result>>
          /\ UNCHANGED Wait_api_level
    /\ UNCHANGED Pfn

(* GetModuleHandleW, GetProcAddress and the stores of the pointers. *)
Detect(t) ==
    /\ stage[t] = "detect"
    /\ See(t, IF Available THEN has_wait_on_address ELSE has_srwlock)
    /\ Pfn' = (Pfn \/ Available)
    /\ MoveTo(t, "publish")
    /\ UNCHANGED <<Wait_api_level, result>>

(* The plain store that ends _Init_wait_functions. *)
Publish(t) ==
    /\ stage[t] = "publish"
    /\ Wait_api_level' = Local[t]
    /\ Return(t, Local[t])
    /\ UNCHANGED <<Pfn, Local>>

Step(t) ==
    \/ Force_load(t) \/ Force_cas(t) \/ Acquire(t)
    \/ Init_cas(t)   \/ Detect(t)    \/ Publish(t)

AllReturned == (\A t \in Callers : stage[t] = "done") /\ UNCHANGED levelVars

NextLevel ==
    \/ \E t \in Callers :
        \/ Step(t) /\ UNCHANGED forced
        \/ \E r \in Requests : Start(t, r)
    \/ AllReturned

LevelSpec == InitLevel /\ [][NextLevel]_levelVars

-----------------------------------------------------------------------------
LevelTypeOK ==
    /\ Wait_api_level \in Level
    /\ Pfn \in BOOLEAN
    /\ stage \in [Callers -> {"idle", "force", "force_cas", "acquire",
                           "init_cas", "detect", "publish", "done"}]
    /\ Local \in [Callers -> Level]
    /\ result \in [Callers -> Level]
    /\ forced \in BOOLEAN

(* A thread that is told to use WaitOnAddress finds its pointers stored:   *)
(* __crtWaitOnAddress calls through them without a test.                   *)
PointersReady ==
    \A t \in Callers : result[t] = has_wait_on_address => Pfn

(* All calls use the same settled level, however their detections race,    *)
(* unless the fallback is forced.  A wait in the table and a WakeByAddress *)
(* never meet, so two levels in use at once lose wakes.                    *)
OneLevel ==
    ~forced => \A t, u \in Callers :
        result[t] # not_set /\ result[u] # not_set => result[t] = result[u]

(* What a wait or notify relies on when it has a level: the pointers are   *)
(* stored, and the other threads use the level too.                        *)
LevelSettled == LevelTypeOK /\ PointersReady /\ OneLevel

(* "Once the API level has been set by calling this function (or detected  *)
(* by a call to one of the atomic wait functions), it can no longer be     *)
(* changed." (xatomic_wait.h:35-36)                                        *)
LevelIsFinal == [][Wait_api_level > detecting => Wait_api_level' = Wait_api_level]_levelVars


=============================================================================
