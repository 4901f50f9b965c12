------------------------------ MODULE Scheduler ------------------------------
(***************************************************************************)
(* The heartbeat scheduler (gateway/scheduler.ts).  Time is the minutes of *)
(* a period after which all schedules repeat; a schedule is the set of its *)
(* minutes, empty if it cannot be parsed.  A timer counts down to the end  *)
(* of its leg, "left", and carries what remains after it, "rest": delays   *)
(* beyond MAX_TIMEOUT are chained.  A run is one call of the callback,     *)
(* which sends the prompt through the orchestrator and takes its time.     *)
(*                                                                         *)
(* Configs may repeat a name: nothing in config.ts or start forbids it.    *)
(***************************************************************************)
EXTENDS Naturals, Sequences, FiniteSets, SequencesExt

CONSTANTS
    Name,
    Schedule,       \* schedules of the configs
    Period,
    MaxTimeout,     \* MAX_TIMEOUT, in minutes
    MaxConfigs,     \* bound on the configs
    MaxRuns,        \* bound on the overlapping runs of a name
    Timer,          \* identities of timers, numbers
    NoTimer

Minute == 0..(Period - 1)

ASSUME SchedulerAssumption ==
    /\ Period \in Nat \ {0} /\ MaxTimeout \in Nat \ {0}
    /\ MaxConfigs \in Nat /\ MaxRuns \in Nat
    /\ Schedule \subseteq SUBSET Minute
    /\ Timer \subseteq Nat /\ NoTimer \notin Timer
    /\ IsFiniteSet(Timer) => Cardinality(Timer) > MaxConfigs

VARIABLES
    configs,        \* heartbeats of the configuration, as loaded
    phase,          \* "new", "running", "stopped"
    now,
    entries,        \* heartbeats: name -> config and the timer that is filed
    timers,         \* the timers that exist, by identity
    runs            \* runs in flight, by name

vars == <<configs, phase, now, entries, timers, runs>>

Config == [name : Name, schedule : Schedule, enabled : BOOLEAN]
Entry == [schedule : Schedule, enabled : BOOLEAN, timer : Timer \cup {NoTimer}]
Armed == [name : Name, left : 0..MaxTimeout, rest : 0..Period]

Init ==
    /\ configs \in BoundedSeq(Config, MaxConfigs)
    /\ phase = "new"
    /\ now = 0
    /\ entries = <<>>
    /\ timers = <<>>
    /\ runs = [n \in Name |-> 0]

-----------------------------------------------------------------------------
(* Timers.  A state is a record of the entries and the timers.             *)

\* Minutes to the next occurrence after this one; cron.next().
UntilNext(schedule) ==
    CHOOSE d \in 1..Period :
       /\ (now + d) % Period \in schedule
       /\ \A e \in 1..(d - 1) : (now + e) % Period \notin schedule

\* clearTimeout, which does nothing for a timer that has fired.
Clear(state, t) ==
    [state EXCEPT !.timers = [u \in DOMAIN @ \ {t} |-> @[u]]]

\* A name for a new timer: of none that exists or that an entry refers to.
FreeTimer(state) ==
    CHOOSE t \in Timer : /\ t \notin DOMAIN state.timers
                         /\ \A n \in DOMAIN state.entries :
                               state.entries[n].timer # t

\* Variant of SetTimer: the delay is not chained.
SetTimerAtOnce(state, n, delay) ==
    LET t == FreeTimer(state)
    IN  [entries |-> [state.entries EXCEPT ![n].timer = t],
         timers |-> [u \in DOMAIN state.timers \cup {t} |->
                       IF u = t THEN [name |-> n, left |-> delay, rest |-> 0]
                       ELSE state.timers[u]]]

\* Variant of SetTimer: the chain forgets the leg it has waited.
SetTimerWhole(state, n, delay) ==
    LET t == FreeTimer(state)
    IN  [entries |-> [state.entries EXCEPT ![n].timer = t],
         timers |-> [u \in DOMAIN state.timers \cup {t} |->
                       IF u # t THEN state.timers[u]
                       ELSE IF delay > MaxTimeout
                       THEN [name |-> n, left |-> MaxTimeout, rest |-> delay]
                       ELSE [name |-> n, left |-> delay, rest |-> 0]]]

\* The new timer is filed in the entry of the name, over what was there.
SetTimer(state, n, delay) ==
    LET t == FreeTimer(state)
        armed == IF delay > MaxTimeout
                 THEN [name |-> n, left |-> MaxTimeout,
                       rest |-> delay - MaxTimeout]
                 ELSE [name |-> n, left |-> delay, rest |-> 0]
    IN  [entries |-> [state.entries EXCEPT ![n].timer = t],
         timers |-> [u \in DOMAIN state.timers \cup {t} |->
                       IF u = t THEN armed ELSE state.timers[u]]]

\* Variant of ScheduleNext: an existing timer is not cleared.
ScheduleNextAnyway(state, n) ==
    LET entry == state.entries[n]
    IN  IF ~entry.enabled \/ phase' # "running" \/ entry.schedule = {}
        THEN state
        ELSE SetTimer(state, n, UntilNext(entry.schedule))

\* The filed timer is cleared also if the schedule then fails to parse.  The
\* code reads the clock twice.  If the minute ends in between, the delay is 0
\* (delayMs <= 0) and the occurrence after that one is taken: the one that is
\* next in the minute that has begun, as if all this had been done there.
ScheduleNext(state, n) ==
    LET entry == state.entries[n]
        cleared == Clear(state, entry.timer)
    IN  IF ~entry.enabled \/ phase' # "running" THEN state
        ELSE IF entry.schedule = {} THEN cleared
        ELSE SetTimer(cleared, n, UntilNext(entry.schedule))

Become(state) == entries' = state.entries /\ timers' = state.timers
Here == [entries |-> entries, timers |-> timers]

-----------------------------------------------------------------------------
(* Operations.                                                             *)

\* One config: its entry replaces one of the same name, but not its timer.
Load(state, c) ==
    LET entry == [schedule |-> c.schedule, enabled |-> c.enabled,
                  timer |-> NoTimer]
        loaded == [state EXCEPT
                     !.entries = [n \in DOMAIN @ \cup {c.name} |->
                                    IF n = c.name THEN entry ELSE @[n]]]
    IN  IF c.enabled THEN ScheduleNext(loaded, c.name) ELSE loaded

\* What the loop over the configs has made of the state after the first i.
Loaded[i \in 0..Len(configs)] ==
    IF i = 0 THEN Here ELSE Load(Loaded[i - 1], configs[i])

Start ==
    /\ phase = "new"
    /\ phase' = "running"
    /\ Become(Loaded[Len(configs)])
    /\ UNCHANGED <<configs, now, runs>>

Stop ==
    /\ phase = "running"
    /\ phase' = "stopped"
    /\ LET filed == {entries[n].timer : n \in DOMAIN entries}
       IN  timers' = [t \in DOMAIN timers \ filed |-> timers[t]]
    /\ entries' = [n \in DOMAIN entries |->
                     [entries[n] EXCEPT !.timer = NoTimer]]
    /\ UNCHANGED <<configs, now, runs>>

Enable(n) ==
    /\ n \in DOMAIN entries
    /\ phase' = phase
    /\ Become(ScheduleNext([Here EXCEPT !.entries[n].enabled = TRUE], n))
    /\ UNCHANGED <<configs, now, runs>>

Disable(n) ==
    /\ n \in DOMAIN entries
    /\ LET cleared == Clear(Here, entries[n].timer)
       IN  Become([cleared EXCEPT !.entries[n].enabled = FALSE,
                                  !.entries[n].timer = NoTimer])
    /\ UNCHANGED <<configs, phase, now, runs>>

-----------------------------------------------------------------------------
(* Time.                                                                   *)

\* Timers are punctual: what is due fires before the minute is over.
Tick ==
    /\ phase # "new"
    /\ \A t \in DOMAIN timers : timers[t].left > 0
    /\ now' = (now + 1) % Period
    /\ timers' = [t \in DOMAIN timers |->
                    [timers[t] EXCEPT !.left = @ - 1]]
    /\ UNCHANGED <<configs, phase, entries, runs>>

Due(t) == t \in DOMAIN timers /\ timers[t].left = 0

\* A leg ends and the next one begins.
LegEnds(t) ==
    /\ Due(t)
    /\ timers[t].rest > 0
    /\ Become(SetTimer(Clear(Here, t), timers[t].name, timers[t].rest))
    /\ UNCHANGED <<configs, phase, now, runs>>

\* fire(): the callback is called if the heartbeat of this name is enabled.
Fire(t) ==
    /\ Due(t)
    /\ timers[t].rest = 0
    /\ Become(Clear(Here, t))
    /\ LET n == timers[t].name
       IN  IF entries[n].enabled /\ phase = "running"
           THEN runs[n] < MaxRuns /\ runs' = [runs EXCEPT ![n] = @ + 1]
           ELSE runs' = runs
    /\ UNCHANGED <<configs, phase, now>>

\* Variant of RunEnds: a callback that throws is not scheduled again.
RunEndsWell(n) ==
    /\ runs[n] > 0
    /\ runs' = [runs EXCEPT ![n] = @ - 1]
    /\ phase' = phase
    /\ \/ Become(ScheduleNext(Here, n))
       \/ Become(Here)
    /\ UNCHANGED <<configs, now>>

\* The callback returns or throws, and the next run is scheduled.
RunEnds(n) ==
    /\ runs[n] > 0
    /\ runs' = [runs EXCEPT ![n] = @ - 1]
    /\ phase' = phase
    /\ Become(ScheduleNext(Here, n))
    /\ UNCHANGED <<configs, now>>

-----------------------------------------------------------------------------
Next ==
    \/ Start \/ Stop \/ Tick
    \/ \E n \in Name : Enable(n) \/ Disable(n) \/ RunEnds(n)
    \/ \E t \in Timer : LegEnds(t) \/ Fire(t)

Spec == Init /\ [][Next]_vars

\* Time passes, timers fire, and a prompt is answered or fails (module
\* ToolCalls).  Nobody has to toggle or stop anything.
FairSpec ==
    /\ Spec
    /\ WF_vars(Tick)
    /\ \A t \in Timer : WF_vars(LegEnds(t) \/ Fire(t))
    /\ \A n \in Name : WF_vars(RunEnds(n))

-----------------------------------------------------------------------------
(* Properties.                                                             *)

\* Type invariant.  No leg is longer than MAX_TIMEOUT, beyond which
\* setTimeout would fire at once.
TypeOK ==
    /\ configs \in BoundedSeq(Config, MaxConfigs)
    /\ phase \in {"new", "running", "stopped"}
    /\ now \in Minute
    /\ DOMAIN entries \subseteq Name
    /\ \A n \in DOMAIN entries : entries[n] \in Entry
    /\ DOMAIN timers \subseteq Timer
    /\ \A t \in DOMAIN timers : timers[t] \in Armed
    /\ runs \in [Name -> 0..MaxRuns]

ConfigsOf(n) == {i \in 1..Len(configs) : configs[i].name = n}
TimersOf(n) == {t \in DOMAIN timers : timers[t].name = n}

\* However often a heartbeat is toggled, fires or ends a run, also a run that
\* was overtaken by another one, its name never has more timers than configs:
\* one, unless the configuration repeats the name.
TimersDoNotMultiply ==
    \A n \in Name : Cardinality(TimersOf(n)) <= Cardinality(ConfigsOf(n))

\* A heartbeat that is enabled and not at work has a timer that ends at its
\* next occurrence after this minute and not later, whatever was toggled
\* meanwhile and in however many legs the timer is chained.  (An occurrence in
\* the minute itself is lost if the heartbeat is scheduled anew before it
\* fires: the code asks for the next one after now.)
NextIsArmed(n) ==
    \E t \in TimersOf(n) :
       LET wait == timers[t].left + timers[t].rest
       IN  /\ (now + wait) % Period \in entries[n].schedule
           /\ \A e \in 1..(wait - 1) :
                 (now + e) % Period \notin entries[n].schedule

Live(n) ==
    /\ phase = "running"
    /\ n \in DOMAIN entries
    /\ entries[n].enabled
    /\ entries[n].schedule # {}

NextOccurrenceIsArmed ==
    \A n \in Name : Live(n) /\ runs[n] = 0 => NextIsArmed(n)

\* A run of the heartbeat starts.
RunStarts(n) == runs'[n] > runs[n]

\* A heartbeat that stays enabled runs again and again, whatever its runs
\* end with, unless it is enabled anew for ever: in the minute of an
\* occurrence, before the timer fires, that puts the run off to the next one.
EnabledRunsAgain ==
    \A n \in Name : \/ []<>~Live(n)
                    \/ []<><<RunStarts(n)>>_vars
                    \/ []<><<Enable(n)>>_vars

=============================================================================
