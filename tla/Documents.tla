----------------------------- MODULE Documents -----------------------------
(***************************************************************************)
(* What a control document must be: the checks of src/toinflux/controls.py *)
(* that every caller makes before it is stored or run, and the             *)
(* constructors that read it when its process starts.                      *)
(*                                                                         *)
(* A value of a document is one of the words below, for what YAML can put  *)
(* in its place; a section is a word or, where it is a mapping, a record   *)
(* [is |-> "mapping", of |-> ...].  A rule is a section too: the text      *)
(* [is |-> "rule", parses |-> ..., reads |-> ...].  The sections in which   *)
(* a document has a key the format does not know are its field unknown.    *)
(***************************************************************************)
LOCAL INSTANCE Integers
LOCAL INSTANCE Sequences

CONSTANTS
  Sources,     \* the sources this build collects from
  Actuating,   \* those that can switch a device
  Drivable,    \* the parameters each of them can drive
  Enabled,     \* the sources this installation collects from
  TimeZones    \* the time zones this machine knows

Word(w) == [is |-> w]
Absent == Word("absent")
Text(t) == [is |-> "text", of |-> t]
Number(n) == [is |-> "number", of |-> n]

IsMapping(v) == v.is = "mapping"
\* A bool is no number here, and neither is an infinity or a nan.
IsNumber(v) == v.is = "number"
IsPositive(v) == IsNumber(v) /\ v.of > 0
\* Text with more than blanks in it.
IsName(v) == v.is = "text" /\ v.of # ""
IsRule(v) == v.is = "rule"
IsBool(v) == v.is \in {"true", "false"}
IsMissing(v) == v.is \in {"absent", "null"}
Given(v, Fine(_)) == v = Absent \/ Fine(v)
Keys(section) == IF IsMapping(section) THEN DOMAIN section.of ELSE {}

UnEnergised == Text("unenergised")
BuiltInSafeStates == {UnEnergised, Text("energised"), Text("leave_unchanged")}
Default(v, otherwise) == IF v = Absent THEN otherwise ELSE v

\* The devices that are set to a value, and what a percentage tops out at.
ParameterDevices(devices) ==
  {d \in Keys(devices) : IsMapping(devices.of[d]) /\ IsName(devices.of[d].of.parameter)}
FullScale(entry) ==
  IF IsName(entry.of.parameter) /\ entry.of.parameter.of = "brightness_pct" THEN {100} ELSE {}

-----------------------------------------------------------------------------
\* The checks.  Each answers whether it finds nothing to complain of.

SafeStateFine(v) == IF IsNumber(v) THEN v.of >= 0 ELSE v \in BuiltInSafeStates

\* Whether commands can be built that put the devices into a state.
CommandsExist(state, devices) ==
  IF IsNumber(state) THEN state.of >= 0
  ELSE \/ state \in {Text("leave_unchanged"), UnEnergised}
       \/ /\ state = Text("energised")
          /\ \A d \in ParameterDevices(devices) : FullScale(devices.of[d]) # {}

\* The plausible bug of a check that restates the runtime's rule by halves.
ReachesSomeDevices(state, devices) == SafeStateFine(state)
StateReachesDevices(state, devices) ==
  Keys(devices) # {} =>
    /\ CommandsExist(state, devices)
    /\ IsNumber(state) =>
         \A d \in Keys(devices) :
           IsMapping(devices.of[d]) => \A full \in FullScale(devices.of[d]) : state.of <= full
StateFine(state, devices) == SafeStateFine(state) /\ StateReachesDevices(state, devices)

ZoneFine(zone) == IsMissing(zone) \/ (zone.is = "text" /\ zone.of \in TimeZones)

\* The scalars, with the zone and the parameters.
ScalarsFine(d) ==
  /\ d.name \in {"absent", "same"}
  /\ Given(d.enabled, IsBool)
  /\ Given(d.enable_when, IsRule)
  /\ ZoneFine(d.timezone)
  /\ \/ IsMissing(d.parameters)
     \/ IsMapping(d.parameters) /\ \A p \in Keys(d.parameters) : IsNumber(d.parameters.of[p])
  /\ StateFine(Default(d.safe_state, UnEnergised), d.devices)

\* A section of named entries with their required names and positive numbers.
EntriesFine(section, required, positive) ==
  \/ IsMissing(section)
  \/ /\ IsMapping(section)
     /\ \A e \in Keys(section) :
          LET entry == section.of[e]
          IN /\ IsMapping(entry)
             /\ \A field \in required : IsName(entry.of[field])
             /\ \A field \in positive : Given(entry.of[field], IsPositive)

\* A name read by a rule is a reading or a parameter, never both.
NamesApart(d) == Keys(d.inputs) \cap Keys(d.parameters) = {}

InstancesFine(section) ==
  \A e \in Keys(section) :
    IsMapping(section.of[e]) => Given(section.of[e].of.instance, IsName)

\* What a device entry drives, where it says; no instance may be any.
ActuatorIdentity(entry) ==
  IF IsMapping(entry) /\ ~IsMissing(entry.of.source) /\ ~IsMissing(entry.of.device)
  THEN {[source |-> entry.of.source, instance |-> entry.of.instance, device |-> entry.of.device]}
  ELSE {}
ActuatorsMayBeOne(a, b) ==
  /\ a.source = b.source /\ a.device = b.device
  /\ IsMissing(a.instance) \/ IsMissing(b.instance) \/ a.instance = b.instance
OneKeyPerActuator(devices) ==
  \A d, e \in Keys(devices) :
    d # e => \A a \in ActuatorIdentity(devices.of[d]), b \in ActuatorIdentity(devices.of[e]) :
               ~ActuatorsMayBeOne(a, b)

PidFine(pid) ==
  \/ IsMissing(pid)
  \/ /\ IsMapping(pid)
     /\ \A slot \in {"input", "setpoint"} : IsRule(pid.of[slot])
     /\ \A gain \in {"kp", "ki", "kd"} : Given(pid.of[gain], IsNumber)

\* A stage has a level and says what every device does, a bool for one that is
\* switched and a number for one that is driven.
StageFine(stage, devices) ==
  /\ IsMapping(stage)
  /\ IsNumber(stage.of.level)
  /\ IsMapping(stage.of.set)
  /\ Keys(stage.of.set) = Keys(devices)
  /\ \A d \in Keys(stage.of.set) :
       IF d \in ParameterDevices(devices)
       THEN IsNumber(stage.of.set.of[d]) /\ stage.of.set.of[d].of >= 0
       ELSE IsBool(stage.of.set.of[d])

StagesFine(output, devices) ==
  \/ IsMissing(output)
  \/ /\ IsMapping(output)
     /\ \A field \in {"cycle_seconds", "min_transition_seconds"} :
          Given(output.of[field], IsPositive)
     /\ Given(output.of.max_level, IsRule)
     /\ output.of.stages.is = "list" /\ output.of.stages.of # <<>>
     /\ \A i \in DOMAIN output.of.stages.of : StageFine(output.of.stages.of[i], devices)

IsClockTime(v) == v.is = "time"
\* The times, and the state the devices are left in; nothing compares the two.
ActivePeriodFine(period, devices) ==
  \/ IsMissing(period)
  \/ /\ IsMapping(period)
     /\ IsClockTime(period.of.from) /\ IsClockTime(period.of.to)
     /\ StateFine(Default(period.of.end_state, UnEnergised), devices)

\* The shape of a document.
Structure(d) ==
  /\ d.unknown = {}
  /\ \A section \in {d.inputs, d.pid, d.output, d.devices} : ~IsMissing(section)
  /\ ScalarsFine(d)
  /\ EntriesFine(d.inputs, {"source", "field"}, {"max_age"})
  /\ EntriesFine(d.devices, {"source", "device"}, {"min_transition_seconds"})
  /\ NamesApart(d)
  /\ InstancesFine(d.inputs) /\ InstancesFine(d.devices)
  /\ OneKeyPerActuator(d.devices)
  /\ PidFine(d.pid)
  /\ StagesFine(d.output, d.devices)
  /\ ActivePeriodFine(d.active_period, d.devices)

\* What a rule may read, and the rule in a slot of a section.
RuleNames(d) == Keys(d.inputs) \cup Keys(d.parameters)
Slot(section, key) == IF IsMapping(section) THEN section.of[key] ELSE Absent
Parses(rule, names) == rule.parses /\ rule.reads \subseteq names

\* Every rule parses; not asked where the names it may read are unusable.
RulesFine(d) ==
  LET slots == {Slot(d.pid, "setpoint"), Slot(d.pid, "input"), Slot(d.output, "max_level"),
                d.enable_when}
  IN \/ ~IsMapping(d.inputs)
     \/ ~IsMapping(d.parameters) /\ ~IsMissing(d.parameters)
     \/ \A rule \in slots : IsRule(rule) => Parses(rule, RuleNames(d))

\* The parameter a device is driven by is one its source can drive.
DeviceParameterFine(entry) ==
  LET parameter == entry.of.parameter
      source == entry.of.source.of
  IN Given(parameter, LAMBDA p : IsName(p) /\ source \in DOMAIN Drivable
                                   /\ p.of \in Drivable[source])

\* Every source is known, enabled, and one that drives devices can.
SourcesFine(d) ==
  LET named(section) == {e \in Keys(section) : IsMapping(section.of[e])
                                                 /\ IsName(section.of[e].of.source)}
      collected(entry) == entry.of.source.of \in Sources \cap Enabled
  IN /\ \A e \in named(d.inputs) : collected(d.inputs.of[e])
     /\ \A e \in named(d.devices) : /\ collected(d.devices.of[e])
                                    /\ d.devices.of[e].of.source.of \in Actuating
                                    /\ DeviceParameterFine(d.devices.of[e])

\* The one question every caller asks.
ValidateControl(d) == Structure(d) /\ RulesFine(d) /\ SourcesFine(d)

-----------------------------------------------------------------------------
\* What the process of the control does with the document it loads.

\* The window is parsed: one that starts when it ends is refused.
ParseActivePeriod(d) ==
  \/ IsMissing(d.active_period)
  \/ LET period == d.active_period
     IN /\ IsMapping(period)
        /\ IsClockTime(period.of.from) /\ IsClockTime(period.of.to)
        /\ period.of.from # period.of.to
        /\ SafeStateFine(Default(period.of.end_state, UnEnergised))
        /\ ZoneFine(d.timezone)

\* A rule it needs, and one it may do without.
RuleStarts(rule, d) == IsRule(rule) /\ Parses(rule, RuleNames(d))
OptionalRuleStarts(rule, d) == IsMissing(rule) \/ RuleStarts(rule, d)

GateStarts(d) ==
  /\ IsBool(Default(d.enabled, Word("true")))
  /\ ParseActivePeriod(d)
  /\ SafeStateFine(Default(d.safe_state, UnEnergised))
  /\ OptionalRuleStarts(d.enable_when, d)

BuildLadderStarts(stages) ==
  /\ stages.of # <<>>
  /\ \A i \in DOMAIN stages.of : IsNumber(stages.of[i].of.level) /\ IsMapping(stages.of[i].of.set)

ControllerStarts(d) ==
  /\ BuildLadderStarts(d.output.of.stages)
  /\ RuleStarts(d.pid.of.setpoint, d) /\ RuleStarts(d.pid.of.input, d)
  /\ OptionalRuleStarts(d.output.of.max_level, d)
  /\ \A gain \in {"kp", "ki", "kd"} : Given(d.pid.of[gain], IsNumber)

GuardStarts(d) == CommandsExist(Default(d.safe_state, UnEnergised), d.devices)

\* The states the gate may ask of the devices: on failure, and at the end.
ReachesItsStates(d) ==
  LET safe == Default(d.safe_state, UnEnergised)
      end == IF IsMapping(d.active_period)
             THEN Default(d.active_period.of.end_state, UnEnergised) ELSE safe
  IN CommandsExist(safe, d.devices) /\ CommandsExist(end, d.devices)

Starts(d) == GateStarts(d) /\ ControllerStarts(d) /\ GuardStarts(d)
=============================================================================
