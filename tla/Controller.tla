----------------------------- MODULE Controller -----------------------------
(***************************************************************************)
(* The classic controller and the system it drives: the commands (CMD_...) *)
(* that the command line, the workbench and the model put on the           *)
(* controller's work list, the schedule of actions that wait for a cycle,  *)
(* a nanosecond, a number of instructions, macro instructions or packets,  *)
(* or an occurrence of an SSC mark, CMD_SchedulerLoop, and SYS_Execute,    *)
(* which clocks the model until the next action or a break.                *)
(*                                                                         *)
(* Everything runs in one thread: commands are given while the arguments   *)
(* are parsed, while an action of the schedule is performed, while the     *)
(* workbench is informed, and inside Clock().                              *)
(***************************************************************************)
EXTENDS Integers, Sequences, SequencesExt

CONSTANTS
    Scenarios,    \* the commands and the steps of time of each behaviour
    MaxTime,      \* bound: Clock() takes no counter past it
    MaxCommands   \* bound: commands given

Kinds == <<"CYCLE", "NANOSECOND", "INST", "MACROINST", "PACKET", "SSCMARK">>
Kind == ToSet(Kinds)

\* What SYS_Execute stops for.
StopKind == Kind \ {"PACKET", "SSCMARK"}

\* An action of CMD_ACTIONTRIGGER: NOW, or at or every n of a kind.  CLEAR
\* removes the progress reports of its kind; OTHER is any action that changes
\* nothing in the controller.
Command ==
    [what : {"START", "STOP", "EXIT", "OTHER"}, on : {"NOW"}, periodic : {FALSE}, n : {0}]
    \cup [what : {"CLEAR"}, on : Kind, periodic : {FALSE}, n : {0}]
    \cup [what : {"STOP", "EXIT", "PROGRESS", "OTHER"}, on : Kind \ {"PACKET"},
          periodic : BOOLEAN, n : 1..MaxTime]
    \cup [what : {"STOP", "EXIT", "PROGRESS", "OTHER"}, on : {"PACKET"},
          periodic : {FALSE}, n : 1..MaxTime]

ASSUME ControllerConstants ==
    /\ MaxTime \in Nat \ {0} /\ MaxCommands \in Nat
    /\ \A s \in Scenarios :
          /\ s.commands \subseteq Command
          /\ s.workbench \in BOOLEAN      \* a workbench, or awb_no_wb.cpp
          /\ s.marker \in BOOLEAN         \* the watched marker may be committed
          /\ s.threadEnd \in BOOLEAN      \* CheckExitConditions is called
          /\ s.steps \subseteq [Kind -> Nat]
          \* An SSC mark is a macro instruction, and no Clock() commits two.
          /\ \A step \in s.steps : step["SSCMARK"] <= 1 /\ step["SSCMARK"] <= step["MACROINST"]
          \* No Clock() steps over a whole period.
          /\ \A c \in s.commands, step \in s.steps : c.periodic => step[c.on] <= c.n

VARIABLES
    scenario,
    pc,              \* "parse", "loop", "events", "inform", "execute", "clock", "exited" or "failed"
    ctrlWorkList,    \* commands that have not been scheduled
    lists,           \* cycleList, nanosecondList, ..., sscList of the schedule
    now,             \* SYS_Cycle(), SYS_Nanosecond(), ...
    stop,            \* the arguments of SYS_Execute
    sysBreak, pmStopped, pmExiting,
    marked,          \* SYS_CommittedMarkers() >= stop_marker
    commands,        \* number of commands given
    lastTold,        \* "START" or "STOP", whatever was told or fell due last (history)
    exitTold         \* has CMD_Exit(ACTION_NOW) been called? (history)

stateVars == <<pmStopped, pmExiting>>
toldVars  == <<commands, lastTold, exitTold>>
vars == <<scenario, pc, ctrlWorkList, lists, now, stop, sysBreak, stateVars, marked, toldVars>>

Never == MaxTime + 1
NoStop == [k \in StopKind |-> 0]

\* The work item of a command.  breaks, since and runs are history: did the
\* command break the execution, when was it first scheduled, how often did a
\* periodic action happen?
Item(c, breaks) ==
    [what |-> c.what, on |-> c.on, periodic |-> c.periodic, actionTime |-> c.n,
     period |-> c.n, breaks |-> breaks, since |-> 0, runs |-> 0]

Now(what) == [what |-> what, on |-> "NOW", periodic |-> FALSE, n |-> 0]

Init ==
    /\ scenario \in Scenarios
    /\ pc = "parse" /\ ctrlWorkList = <<>> /\ lists = [k \in Kind |-> <<>>]
    /\ now = [k \in Kind |-> 0] /\ stop = NoStop
    /\ sysBreak = FALSE /\ pmStopped = TRUE /\ pmExiting = FALSE /\ marked = FALSE
    /\ commands = 0 /\ lastTold = "STOP" /\ exitTold = FALSE

-----------------------------------------------------------------------------
(* Commands *)

\* Mutant: CMD_Exit does not break the execution.
BreaksUnlessExit(c) == c.what # "EXIT"

\* A command breaks the execution, "so that it will return control to the
\* controller if it is executing".
Breaks(c) == TRUE

\* CMD_Start, CMD_Stop, CMD_Exit, CMD_Progress, ...
Tell(c) ==
    /\ ctrlWorkList' = Append(ctrlWorkList, Item(c, TRUE))
    /\ sysBreak' = (sysBreak \/ Breaks(c))
    /\ pmStopped' = (pmStopped /\ c.what # "START")
    /\ lastTold' = IF c.on = "NOW" /\ c.what \in {"START", "STOP"} THEN c.what ELSE lastTold
    /\ exitTold' = (exitTold \/ c = Now("EXIT"))

\* The arguments are parsed; AWB_Activate starts the model if there is no
\* workbench to do it.
Activate ==
    /\ pc = "parse"
    /\ pc' = "loop"
    /\ IF scenario.workbench
       THEN UNCHANGED <<ctrlWorkList, sysBreak, pmStopped, lastTold, exitTold>>
       ELSE Tell(Now("START"))
    /\ UNCHANGED <<scenario, lists, now, stop, pmExiting, marked, commands>>

\* The end of a thread: an exit without a break.
CheckExitConditions ==
    /\ pc = "clock" /\ scenario.threadEnd
    /\ commands < MaxCommands /\ commands' = commands + 1
    /\ ctrlWorkList' = Append(ctrlWorkList, Item(Now("EXIT"), FALSE))
    /\ UNCHANGED <<scenario, pc, lists, now, stop, sysBreak, stateVars, marked, lastTold, exitTold>>

-----------------------------------------------------------------------------
(* The schedule *)

\* Mutant: a periodic action happens a period from now.
NextPeriodFromNow(item) == now[item.on] + item.period

\* "We align all periodic actions": the next multiple of the period.
NextPeriod(item) == ((now[item.on] + item.period) \div item.period) * item.period

\* SscMarkAdvance, until the occurrence lies ahead.
NextMark(item) ==
    IF item.actionTime > now["SSCMARK"] THEN item.actionTime
    ELSE item.actionTime
         + ((now["SSCMARK"] - item.actionTime) \div item.period + 1) * item.period

Timed(item) ==
    IF ~item.periodic THEN item
    ELSE [item EXCEPT !.actionTime = IF item.on = "SSCMARK" THEN NextMark(item) ELSE NextPeriod(item)]

\* Mutant: an item goes before the items of the same time.
InsertBeforeEqual(list, item) ==
    LET later == SelectInSeq(list, LAMBDA other : other.actionTime >= item.actionTime)
    IN  InsertAt(list, IF later = 0 THEN Len(list) + 1 ELSE later, item)

\* "first items inserted are first in the list"
InsertOrdered(list, item) ==
    LET later == SelectInSeq(list, LAMBDA other : other.actionTime > item.actionTime)
    IN  InsertAt(list, IF later = 0 THEN Len(list) + 1 ELSE later, item)

ListOf(item) == IF item.on = "NOW" THEN "CYCLE" ELSE item.on

Kept(list) == {i \in DOMAIN list : list[i].what # "PROGRESS"}

\* The items that are kept, in their order.
ClearProgress(list) ==
    LET Nth(n) == CHOOSE i \in Kept(list) : Cardinality({j \in Kept(list) : j <= i}) = n
    IN  [n \in 1..Cardinality(Kept(list)) |-> list[Nth(n)]]

\* The lists after Schedule() of an item.
Scheduled(ls, item) ==
    IF item.what = "CLEAR" THEN [ls EXCEPT ![item.on] = ClearProgress(@)]
    ELSE [ls EXCEPT ![ListOf(item)] =
             IF item.on \in {"PACKET", "SSCMARK"} THEN Append(@, Timed(item))
             ELSE InsertOrdered(@, Timed(item))]

IsDue(item) ==
    \/ item.on = "NOW"
    \/ item.on \in {"CYCLE", "INST", "MACROINST", "PACKET"} /\ item.actionTime <= now[item.on]
    \/ item.on \in {"NANOSECOND", "SSCMARK"} /\ item.actionTime = now[item.on]

\* The place of the item of a list that is ready, or 0: its head, or any item
\* of the list of marks.
ReadyAt(kind) ==
    IF kind = "SSCMARK" THEN SelectInSeq(lists[kind], IsDue)
    ELSE IF lists[kind] # <<>> /\ IsDue(Head(lists[kind])) THEN 1 ELSE 0

\* The first list with a ready item.
FirstReady == SelectInSeq(Kinds, LAMBDA kind : ReadyAt(kind) # 0)

\* The VERIFYX of ReadyEvent after the cycles: time has passed a nanosecond.
NanosecondMissed ==
    /\ FirstReady # 1
    /\ lists["NANOSECOND"] # <<>> /\ Head(lists["NANOSECOND"]).actionTime < now["NANOSECOND"]

HeadTime(kind) == IF lists[kind] = <<>> THEN Never ELSE Head(lists[kind]).actionTime

\* Mutant: the waiting marks do not limit the macro instructions.
NextEventIgnoresMarks(kind) == HeadTime(kind)

\* NanosecondForNextEvent, CycleForNextEvent, InstForNextEvent and
\* MacroInstForNextEvent: as long as a mark is waited for, "we need to move at
\* most one macro instruction at a time".
NextEvent(kind) ==
    IF kind = "MACROINST" /\ lists["SSCMARK"] # <<>> THEN now[kind] + 1 ELSE HeadTime(kind)

-----------------------------------------------------------------------------
(* Commands of others *)

\* PmAction of the next action calls the system and its modules: statistics,
\* events, stripcharts.  START, STOP, EXIT and PROGRESS have none of their own.
PerformsForeignCode ==
    /\ pc = "events" /\ FirstReady # 0 /\ ~NanosecondMissed
    /\ LET kind == Kinds[FirstReady] IN lists[kind][ReadyAt(kind)].what = "OTHER"

\* The command line, the workbench or a module gives a command.
GiveCommand(c) ==
    /\ \/ pc \in {"parse", "clock"}
       \/ pc = "inform" /\ scenario.workbench
       \/ PerformsForeignCode
    /\ c \in scenario.commands /\ commands < MaxCommands
    /\ Tell(c)
    /\ commands' = commands + 1
    /\ UNCHANGED <<scenario, pc, lists, now, stop, pmExiting, marked>>

-----------------------------------------------------------------------------
(* CMD_SchedulerLoop *)

\* The items of the work list are scheduled one after the other.
ScheduleItem ==
    /\ pc = "loop" /\ ctrlWorkList # <<>>
    /\ LET item == Head(ctrlWorkList)
       IN  lists' = Scheduled(lists, [item EXCEPT !.since = now[ListOf(item)]])
    /\ ctrlWorkList' = Tail(ctrlWorkList)
    /\ UNCHANGED <<scenario, pc, now, stop, sysBreak, stateVars, marked, toldVars>>

ClearBreak ==
    /\ pc = "loop" /\ ctrlWorkList = <<>>
    /\ sysBreak' = FALSE
    /\ pc' = "events"
    /\ UNCHANGED <<scenario, ctrlWorkList, lists, now, stop, stateVars, marked, toldVars>>

\* A command to start or stop has been given since the actions fell due.
ToldSince == \E i \in DOMAIN ctrlWorkList :
    ctrlWorkList[i].on = "NOW" /\ ctrlWorkList[i].what \in {"START", "STOP"}

\* The action of a ready item; a periodic one is scheduled again.
ProcessEvent ==
    /\ pc = "events" /\ FirstReady # 0 /\ ~NanosecondMissed
    /\ LET kind == Kinds[FirstReady]
           item == lists[kind][ReadyAt(kind)]
           rest == [lists EXCEPT ![kind] = RemoveAt(@, ReadyAt(kind))]
       IN  /\ lists' = IF item.periodic THEN Scheduled(rest, [item EXCEPT !.runs = @ + 1]) ELSE rest
           /\ pmStopped' = (item.what = "STOP" \/ (pmStopped /\ item.what # "START"))
           /\ pmExiting' = (pmExiting \/ item.what = "EXIT")
           /\ lastTold' = IF item.what = "STOP" /\ item.on # "NOW" /\ ~ToldSince THEN "STOP" ELSE lastTold
    /\ UNCHANGED <<scenario, pc, ctrlWorkList, now, stop, sysBreak, marked, commands, exitTold>>

EventsDone ==
    /\ pc = "events" /\ (FirstReady = 0 \/ NanosecondMissed)
    /\ pc' = IF NanosecondMissed THEN "failed" ELSE "inform"
    /\ UNCHANGED <<scenario, ctrlWorkList, lists, now, stop, sysBreak, stateVars, marked, toldVars>>

\* The ASSERTX before the execution.
NextIsLater ==
    /\ \A kind \in StopKind : NextEvent(kind) # now[kind]
    /\ HeadTime("PACKET") # now["PACKET"]

\* The workbench has been informed: execute, go round again, or leave.
InformDone ==
    /\ pc = "inform"
    /\ \/ /\ pmExiting /\ pc' = "exited" /\ UNCHANGED stop
       \/ /\ ~pmExiting /\ pmStopped /\ pc' = "loop" /\ UNCHANGED stop
       \/ /\ ~pmExiting /\ ~pmStopped
          /\ stop' = [kind \in StopKind |-> NextEvent(kind)]
          /\ pc' = IF NextIsLater THEN "execute" ELSE "failed"
    /\ UNCHANGED <<scenario, ctrlWorkList, lists, now, sysBreak, stateVars, marked, toldVars>>

-----------------------------------------------------------------------------
(* SYS_Execute *)

\* The condition of its loop.
MayClock == ~sysBreak /\ ~marked /\ \A kind \in StopKind : now[kind] < stop[kind]

Advances == {[kind \in Kind |-> now[kind] + step[kind]] : step \in scenario.steps}
Bounded(times) == \A kind \in Kind : times[kind] <= MaxTime

\* Clock() of the clock server, which may commit the watched marker.
Clock ==
    /\ pc = "execute" /\ MayClock
    /\ now' \in {times \in Advances : Bounded(times)}
    /\ marked' \in {FALSE, scenario.marker}
    /\ pc' = "clock"
    /\ UNCHANGED <<scenario, ctrlWorkList, lists, stop, sysBreak, stateVars, toldVars>>

ClockEnd ==
    /\ pc = "clock"
    /\ pc' = "execute"
    /\ UNCHANGED <<scenario, ctrlWorkList, lists, now, stop, sysBreak, stateVars, marked, toldVars>>

\* A committed marker stops the model.
ExecuteEnd ==
    /\ pc = "execute" /\ ~MayClock
    /\ IF marked THEN Tell(Now("STOP"))
       ELSE UNCHANGED <<ctrlWorkList, sysBreak, pmStopped, lastTold, exitTold>>
    /\ marked' = FALSE /\ stop' = NoStop
    /\ pc' = "loop"
    /\ UNCHANGED <<scenario, lists, now, pmExiting, commands>>

-----------------------------------------------------------------------------
\* The program has ended, or time is at its bound.
Finished ==
    /\ \/ pc \in {"exited", "failed"}
       \/ /\ pc = "execute" /\ MayClock
          /\ \A times \in Advances : ~Bounded(times)
    /\ UNCHANGED vars

Step ==
    \/ Activate \/ ScheduleItem \/ ClearBreak \/ ProcessEvent \/ EventsDone \/ InformDone
    \/ Clock \/ ClockEnd \/ ExecuteEnd

Next == Step \/ (\E c \in scenario.commands : GiveCommand(c)) \/ CheckExitConditions \/ Finished

Spec == Init /\ [][Next]_vars

\* The controller's thread keeps running.
FairSpec == Spec /\ WF_vars(Step)

-----------------------------------------------------------------------------
(* Properties *)

\* The types of the variables; an item is in the list of its kind.
TypeOK ==
    /\ pc \in {"parse", "loop", "events", "inform", "execute", "clock", "exited", "failed"}
    /\ \A i \in DOMAIN ctrlWorkList : ctrlWorkList[i].runs = 0
    /\ \A kind \in Kind : \A i \in DOMAIN lists[kind] : ListOf(lists[kind][i]) = kind
    /\ now \in [Kind -> 0..MaxTime] /\ stop \in [StopKind -> Nat]
    /\ {sysBreak, pmStopped, pmExiting, marked, exitTold} \subseteq BOOLEAN
    /\ commands \in 0..MaxCommands /\ lastTold \in {"START", "STOP"}

\* "The performance model can ack us before either of those conditions are met
\* only if it is stopped with SYS_Break()", and it does not ack later: when
\* SYS_Execute clocks the model, no action of the schedule is due or overdue and
\* no command that broke the execution waits to be scheduled.  (Packets are not
\* tested by SYS_Execute, and an occurrence of a mark that has passed when it is
\* first waited for never comes.)  Nothing fails but the VERIFYX for nanoseconds.
NothingOverdue ==
    /\ TypeOK
    /\ pc = "failed" => NanosecondMissed
    /\ pc = "execute" /\ MayClock =>
           /\ \A kind \in Kind \ {"PACKET"} : \A i \in DOMAIN lists[kind] :
                 /\ lists[kind][i].on # "NOW"
                 /\ \/ lists[kind][i].actionTime > now[kind]
                    \/ kind = "SSCMARK" /\ lists[kind][i].actionTime < lists[kind][i].since
           /\ \A i \in DOMAIN ctrlWorkList : ~ctrlWorkList[i].breaks

\* "Action occurs every 'n' cycles", instructions, nanoseconds or marks: when
\* the workbench is informed, a periodic action has happened exactly as often as
\* its counter has passed a multiple of the period since it was scheduled.
EveryPeriodOnce ==
    pc = "inform" =>
        \A kind \in Kind : \A i \in DOMAIN lists[kind] :
            LET item == lists[kind][i]
            IN  item.periodic => item.runs = now[kind] \div item.period - item.since \div item.period

\* The model is clocked only while the last thing told is to start: commands to
\* start and stop take effect in the order they were given, although CMD_Start
\* clears pmStopped before it is scheduled and actions wait in several lists.  (A
\* command given inside an action comes after the actions that are due with it.)
StoppedAsTold == [][now' # now => lastTold = "START"]_vars

\* A command to exit now ends the program, whatever is scheduled, whether the
\* model runs or is stopped, and also when it is given inside Clock().
ExitIsReached == exitTold ~> pc \in {"exited", "failed"}
=============================================================================
