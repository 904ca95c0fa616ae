-------------------------- MODULE Decisions_proofs --------------------------
(***************************************************************************)
(* What is right of a control's decisions for any clocks, ladders, demands *)
(* and documents.  A behaviour asks one question, so each theorem is what  *)
(* the answer to one kind of question satisfies.                           *)
(***************************************************************************)
EXTENDS Decisions, Staging_proofs

-----------------------------------------------------------------------------
(***************************************************************************)
(* The window of the day.                                                  *)
(***************************************************************************)
\* A time of the day shows as itself.
LEMMA TimeOfDay ==
  ASSUME NEW t \in 0..(Day - 1)
  PROVE  t % Day = t
<1> DEFINE q == t \div Day
           r == t % Day
<1>1. t \in Int /\ Day \in Int /\ Day > 0   BY DayAssumption
<1>2. q \in Int /\ r \in Int /\ 0 <= r /\ r < Day /\ t = Day * q + r   BY <1>1
<1> HIDE DEF q, r
<1>3. q = 0
  <2>1. ASSUME q >= 1 PROVE FALSE
    <3>1. Day * q >= Day   BY <1>1, <1>2, <2>1
    <3> QED BY <1>1, <1>2, <3>1
  <2>2. ASSUME q <= -1 PROVE FALSE
    <3>1. Day * q <= -Day   BY <1>1, <1>2, <2>2
    <3> QED BY <1>1, <1>2, <3>1
  <2> QED BY <1>2, <2>1, <2>2
<1>4. r = t   BY <1>1, <1>2, <1>3
<1> QED BY <1>4 DEF r

\* Three windows that meet in three times of the day leave no time uncovered and
\* cover none twice.
LEMMA ThreeWindows ==
  ASSUME NEW start \in 0..(Day - 1), NEW end \in 0..(Day - 1), NEW cut \in 0..(Day - 1),
         start # end, cut # start, cut # end,
         NEW zone, NEW i, LocalTime(i, zone) \in 0..(Day - 1),
         IF end < start THEN end <= cut /\ cut < start ELSE end <= cut \/ cut < start
  PROVE  LET In(from, to) == IsInside([start |-> from, end |-> to], i, zone)
         IN /\ In(cut, start) \/ In(start, end) \/ In(end, cut)
            /\ ~(In(cut, start) /\ In(start, end))
            /\ ~(In(start, end) /\ In(end, cut))
            /\ ~(In(end, cut) /\ In(cut, start))
BY DayAssumption DEF IsInside

\* At every instant exactly one of them is open.
LEMMA OneIsOpen ==
  ASSUME NEW p \in ActivePeriods, NEW zone \in Zones,
         NEW cut \in 0..(Day - 1) \ {p.start, p.end}, NEW i \in DOMAIN zone,
         IsInside([start |-> p.end, end |-> p.start], cut, [j \in {cut} |-> 0]),
         NEW before, before = [start |-> cut, end |-> p.start],
         NEW after, after = [start |-> p.end, end |-> cut]
  PROVE  Cardinality({w \in {before, p, after} : IsInside(w, i, zone)}) = 1
<1>1. p = [start |-> p.start, end |-> p.end] /\ p.start \in 0..(Day - 1) /\ p.end \in 0..(Day - 1)
      /\ p.start # p.end
  BY DEF ActivePeriods
<1>2. LocalTime(i, zone) \in 0..(Day - 1)
  <2>1. i + zone[i] \in Int /\ Day \in Int /\ Day > 0   BY ZonesAssumption, DayAssumption
  <2> QED BY <2>1 DEF LocalTime
<1>3. LocalTime(cut, [j \in {cut} |-> 0]) = cut
  <2>1. cut \in Int /\ cut + 0 = cut   BY DayAssumption
  <2> QED BY <2>1, TimeOfDay DEF LocalTime
<1>4. IF p.end < p.start THEN p.end <= cut /\ cut < p.start ELSE p.end <= cut \/ cut < p.start
  BY <1>3 DEF IsInside
<1>5. /\ IsInside(before, i, zone) \/ IsInside(p, i, zone) \/ IsInside(after, i, zone)
      /\ ~(IsInside(before, i, zone) /\ IsInside(p, i, zone))
      /\ ~(IsInside(p, i, zone) /\ IsInside(after, i, zone))
      /\ ~(IsInside(after, i, zone) /\ IsInside(before, i, zone))
  BY <1>1, <1>2, <1>4, ThreeWindows
<1> DEFINE open == {w \in {before, p, after} : IsInside(w, i, zone)}
<1>6. PICK w : open = {w}
  BY <1>5
<1>7. Cardinality({w}) = 1   BY FS_Singleton
<1> QED BY <1>6, <1>7

\* Which holds of the question TellsTime asks.
LEMMA TellsTimeHandsOver == TellsTime => HandOver'
<1> SUFFICES ASSUME NEW period \in ActivePeriods, NEW zone \in Zones,
                    question' = [kind |-> "period", of |-> [period |-> period, zone |-> zone]]
             PROVE  HandOver'
  BY DEF TellsTime, Asks
<1>1. question'.of.period = period /\ question'.of.zone = zone   OBVIOUS
<1> SUFFICES ASSUME NEW cut \in 0..(Day - 1) \ {period.start, period.end}, NEW i \in DOMAIN zone,
                    IsInside([start |-> period.end, end |-> period.start], cut, [j \in {cut} |-> 0])
             PROVE  Cardinality({w \in {[start |-> cut, end |-> period.start], period,
                                        [start |-> period.end, end |-> cut]} : IsInside(w, i, zone)}) = 1
  BY <1>1 DEF HandOver
<1>2. PICK before : before = [start |-> cut, end |-> period.start]   OBVIOUS
<1>3. PICK after : after = [start |-> period.end, end |-> cut]   OBVIOUS
<1>4. Cardinality({w \in {before, period, after} : IsInside(w, i, zone)}) = 1
  BY <1>2, <1>3, OneIsOpen
<1> QED BY <1>2, <1>3, <1>4

-----------------------------------------------------------------------------
(***************************************************************************)
(* The document.                                                           *)
(***************************************************************************)
\* The parts of a sound document that its process needs, one at a time.
LEMMA StatesReached ==
  ASSUME NEW state, NEW devices, Store!StateFine(state, devices)
  PROVE  Store!SafeStateFine(state) /\ Store!CommandsExist(state, devices)
<1>1. CASE Store!Keys(devices) # {}
  BY <1>1 DEF Store!StateFine, Store!StateReachesDevices
<1>2. CASE Store!Keys(devices) = {}
  <2>1. Store!ParameterDevices(devices) = {}   BY <1>2 DEF Store!ParameterDevices
  <2> QED BY <2>1 DEF Store!StateFine, Store!SafeStateFine, Store!CommandsExist,
                      Store!BuiltInSafeStates, Store!UnEnergised
<1> QED BY <1>1, <1>2 DEF Store!StateFine

\* A window's end state is one the devices can be put in, and its times are such.
LEMMA PeriodStarts ==
  ASSUME NEW d, Store!ActivePeriodFine(d.active_period, d.devices), Store!ZoneFine(d.timezone)
  PROVE  /\ Store!ParseActivePeriod(d) <=>
              ~(/\ Store!IsMapping(d.active_period)
                /\ d.active_period.of.from = d.active_period.of.to)
         /\ Store!IsMapping(d.active_period) =>
              Store!CommandsExist(Store!Default(d.active_period.of.end_state, Store!UnEnergised),
                                  d.devices)
<1>1. CASE Store!IsMissing(d.active_period)
  BY <1>1 DEF Store!IsMissing, Store!IsMapping, Store!ParseActivePeriod
<1>2. CASE ~Store!IsMissing(d.active_period)
  <2>1. /\ Store!IsMapping(d.active_period)
        /\ Store!IsClockTime(d.active_period.of.from) /\ Store!IsClockTime(d.active_period.of.to)
        /\ Store!StateFine(Store!Default(d.active_period.of.end_state, Store!UnEnergised), d.devices)
    BY <1>2 DEF Store!ActivePeriodFine
  <2> QED BY <1>2, <2>1, StatesReached DEF Store!ParseActivePeriod
<1> QED BY <1>1, <1>2

\* Every rule of a valid document parses, with the names it may read.
LEMMA RulesParse ==
  ASSUME NEW d, Store!Structure(d), Store!RulesFine(d),
         NEW rule \in {Store!Slot(d.pid, "setpoint"), Store!Slot(d.pid, "input"),
                       Store!Slot(d.output, "max_level"), d.enable_when},
         Store!IsRule(rule)
  PROVE  Store!Parses(rule, Store!RuleNames(d))
<1>1. Store!IsMapping(d.inputs)   BY DEF Store!Structure, Store!EntriesFine
<1>2. Store!IsMapping(d.parameters) \/ Store!IsMissing(d.parameters)
  BY DEF Store!Structure, Store!ScalarsFine
<1> QED BY <1>1, <1>2 DEF Store!RulesFine

\* A rule that is given or absent starts.
LEMMA GivenRuleStarts ==
  ASSUME NEW d, NEW rule, rule = Store!Absent \/ Store!IsRule(rule),
         Store!IsRule(rule) => Store!Parses(rule, Store!RuleNames(d))
  PROVE  Store!OptionalRuleStarts(rule, d)
BY DEF Store!OptionalRuleStarts, Store!RuleStarts, Store!IsMissing, Store!Absent, Store!Word

\* The controller is built of a valid document.
LEMMA ControllerOfValid ==
  ASSUME NEW d, Store!Structure(d), Store!RulesFine(d)
  PROVE  Store!ControllerStarts(d)
<1>1. /\ Store!IsMapping(d.pid) /\ Store!IsRule(d.pid.of.setpoint) /\ Store!IsRule(d.pid.of.input)
      /\ \A gain \in {"kp", "ki", "kd"} : Store!Given(d.pid.of[gain], Store!IsNumber)
  BY DEF Store!Structure, Store!PidFine
<1>2. /\ Store!IsMapping(d.output) /\ Store!Given(d.output.of.max_level, Store!IsRule)
      /\ d.output.of.stages.of # <<>>
      /\ \A i \in DOMAIN d.output.of.stages.of :
           Store!StageFine(d.output.of.stages.of[i], d.devices)
  BY DEF Store!Structure, Store!StagesFine
<1>3. Store!BuildLadderStarts(d.output.of.stages)
  BY <1>2 DEF Store!BuildLadderStarts, Store!StageFine
<1>4. Store!RuleStarts(d.pid.of.setpoint, d) /\ Store!RuleStarts(d.pid.of.input, d)
  BY <1>1, RulesParse DEF Store!Slot, Store!RuleStarts
<1>5. Store!OptionalRuleStarts(d.output.of.max_level, d)
  BY <1>2, RulesParse, GivenRuleStarts DEF Store!Slot, Store!Given
<1> QED BY <1>1, <1>3, <1>4, <1>5 DEF Store!ControllerStarts

\* What is accepted starts but for an empty window.
LEMMA ValidDocumentRuns ==
  ASSUME NEW d, Store!ValidateControl(d)
  PROVE  /\ Store!ReachesItsStates(d)
         /\ Store!Starts(d) <=> ~(/\ Store!IsMapping(d.active_period)
                                  /\ d.active_period.of.from = d.active_period.of.to)
<1>1. Store!Structure(d) /\ Store!RulesFine(d)   BY DEF Store!ValidateControl
<1>2. Store!ScalarsFine(d) /\ Store!ActivePeriodFine(d.active_period, d.devices)
  BY <1>1 DEF Store!Structure
<1>3. /\ Store!Given(d.enabled, Store!IsBool) /\ Store!Given(d.enable_when, Store!IsRule)
      /\ Store!ZoneFine(d.timezone)
      /\ Store!StateFine(Store!Default(d.safe_state, Store!UnEnergised), d.devices)
  BY <1>2 DEF Store!ScalarsFine
<1>4. /\ Store!SafeStateFine(Store!Default(d.safe_state, Store!UnEnergised))
      /\ Store!CommandsExist(Store!Default(d.safe_state, Store!UnEnergised), d.devices)
  BY <1>3, StatesReached
<1>5. Store!IsBool(Store!Default(d.enabled, Store!Word("true")))
  BY <1>3 DEF Store!Given, Store!Default, Store!IsBool, Store!Word
<1>6. Store!OptionalRuleStarts(d.enable_when, d)
  BY <1>1, <1>3, RulesParse, GivenRuleStarts DEF Store!Given
<1>7. Store!GateStarts(d) <=> Store!ParseActivePeriod(d)
  BY <1>4, <1>5, <1>6 DEF Store!GateStarts
<1>8. Store!ControllerStarts(d)   BY <1>1, ControllerOfValid
<1>9. Store!GuardStarts(d)   BY <1>4 DEF Store!GuardStarts
<1>10. Store!Starts(d) <=> Store!ParseActivePeriod(d)   BY <1>7, <1>8, <1>9 DEF Store!Starts
<1>11. Store!ReachesItsStates(d)
  BY <1>2, <1>3, <1>4, PeriodStarts DEF Store!ReachesItsStates
<1> QED BY <1>2, <1>3, <1>10, <1>11, PeriodStarts

\* Which holds of the question ValidatesDocument asks.
LEMMA ValidatedRuns == ValidatesDocument => AcceptedRunsUnlessEmpty'
<1> SUFFICES ASSUME NEW d \in Documents, question' = [kind |-> "document", of |-> d],
                    answer' = Store!ValidateControl(d)
             PROVE  AcceptedRunsUnlessEmpty'
  BY DEF ValidatesDocument, Asks
<1>1. question'.of = d   OBVIOUS
<1>2. CASE Store!ValidateControl(d)
  BY <1>1, <1>2, ValidDocumentRuns DEF AcceptedRunsUnlessEmpty
<1>3. CASE ~Store!ValidateControl(d)
  BY <1>3 DEF AcceptedRunsUnlessEmpty
<1> QED BY <1>2, <1>3

-----------------------------------------------------------------------------
(***************************************************************************)
(* The window of the cycle.                                                *)
(***************************************************************************)
RungsOf(devices) == [level : Int, declared : Nat, states : [devices -> Int]]
Nearest(r, ladder, demand) ==
  \A s \in ladder : Magnitude(r.level - demand) <= Magnitude(s.level - demand)

\* A whole window on one rung, which does what a nearest one does; or a split
\* one, between two rungs on either side of the demand.
OnOne(plan, ladder, held, demand, seconds, driven) ==
  \E r, n \in ladder :
    /\ plan = <<plan[1]>> /\ plan[1].rung = Holding(r, held) /\ plan[1].seconds = seconds
    /\ Nearest(n, ladder, demand) /\ Holding(n, held).states = Holding(r, held).states
    /\ driven = {} => plan[1].level = r.level
OnTwo(plan, ladder, held, demand, seconds, min, driven) ==
  \E lower, upper \in ladder :
    /\ lower.level < demand /\ demand < upper.level
    /\ plan = <<plan[1], plan[2]>>
    /\ plan[1].rung = Holding(lower, held) /\ plan[1].level = lower.level
    /\ plan[2].rung = Holding(upper, held) /\ plan[2].level = upper.level
    /\ plan[2].seconds = (seconds * (demand - lower.level)) \div (upper.level - lower.level)
    /\ plan[1].seconds = seconds - plan[2].seconds
    /\ \A i \in {1, 2} : MinimumTransition(lower, upper, plan[i].seconds, min, driven)

\* What Holding leaves of a rung.
LEMMA HeldRung ==
  ASSUME NEW devices, NEW r \in RungsOf(devices), NEW held
  PROVE  /\ Holding(r, held).level = r.level
         /\ DOMAIN Holding(r, held).states = devices
         /\ \A d \in devices : Holding(r, held).states[d] =
                               IF d \in DOMAIN held THEN held[d] ELSE r.states[d]
         /\ DOMAIN held = {} => Holding(r, held) = r
BY DEF Holding, RungsOf

\* Of the rungs of a bracket, the nearer is a nearest of the ladder.
LEMMA NearerIsNearest ==
  ASSUME NEW ladder, IsLadder(ladder), ladder # {}, NEW demand \in Int,
         NEW b, b = Bracket(ladder, demand), b[1] # b[2],
         NEW nearer, nearer = IF 2 * (demand - b[1].level) >= b[2].level - b[1].level
                              THEN b[2] ELSE b[1]
  PROVE  nearer \in ladder /\ Nearest(nearer, ladder, demand)
<1>1. /\ b[1] \in ladder /\ b[2] \in ladder /\ b[1].level < demand /\ demand < b[2].level
      /\ \A r \in ladder : \E i \in {1, 2} :
           Magnitude(b[i].level - demand) <= Magnitude(r.level - demand)
  BY BracketOfLadder
<1>2. \A r \in ladder : r.level \in Int   BY DEF IsLadder
<1>3. \A i \in {1, 2} : Magnitude(nearer.level - demand) <= Magnitude(b[i].level - demand)
  BY <1>1, <1>2 DEF Magnitude
<1>4. nearer \in ladder   BY <1>1
<1>5. ASSUME NEW r \in ladder
      PROVE  Magnitude(nearer.level - demand) <= Magnitude(r.level - demand)
  <2>1. PICK i \in {1, 2} : Magnitude(b[i].level - demand) <= Magnitude(r.level - demand)
    BY <1>1
  <2>2. b[i] \in ladder   BY <1>1
  <2>3. \A s \in ladder : Magnitude(s.level - demand) \in Int   BY <1>2 DEF Magnitude
  <2> QED BY <1>3, <1>4, <2>1, <2>2, <2>3
<1> QED BY <1>4, <1>5 DEF Nearest

\* PlanWindow plans one or the other.
LEMMA PlannedWindow ==
  ASSUME NEW devices, NEW ladder, IsLadder(ladder), ladder # {}, ladder \subseteq RungsOf(devices),
         NEW demand \in Int, NEW seconds \in Nat, NEW min, NEW driven, NEW curve,
         NEW c, c = Bracket(curve, demand),
         NEW held, held = Interpolated(c[1], c[2], demand, driven),
         NEW plan, plan = PlanWindow(ladder, demand, seconds, min, driven, curve)
  PROVE  \/ OnOne(plan, ladder, held, demand, seconds, driven)
         \/ OnTwo(plan, ladder, held, demand, seconds, min, driven)
<1>1. PICK b : b = Bracket(ladder, demand)   OBVIOUS
<1> DEFINE lower == b[1]
           upper == b[2]
           span == upper.level - lower.level
           upperSeconds == (seconds * (demand - lower.level)) \div span
           lowerSeconds == seconds - upperSeconds
           kept == /\ MinimumTransition(lower, upper, lowerSeconds, min, driven)
                   /\ MinimumTransition(lower, upper, upperSeconds, min, driven)
           nearer == IF 2 * (demand - lower.level) >= span THEN upper ELSE lower
           atLower == Holding(lower, held)
           atUpper == Holding(upper, held)
           whole(rung, level) == <<[rung |-> rung, seconds |-> seconds, level |-> level]>>
<1>2. plan = IF lower = upper THEN whole(atLower, DwellLevel(atLower, curve, driven, demand))
             ELSE IF ~kept THEN whole(Holding(nearer, held), nearer.level)
             ELSE IF atLower.states = atUpper.states
                  THEN whole(atLower, DwellLevel(atLower, curve, driven, demand))
             ELSE <<[rung |-> atLower, seconds |-> lowerSeconds, level |-> lower.level],
                    [rung |-> atUpper, seconds |-> upperSeconds, level |-> upper.level]>>
  BY <1>1 DEF PlanWindow
<1>3. /\ lower \in ladder /\ upper \in ladder
      /\ lower = upper \/ (lower.level < demand /\ demand < upper.level)
      /\ \A r \in ladder : \E i \in {1, 2} :
           Magnitude(b[i].level - demand) <= Magnitude(r.level - demand)
  BY <1>1, BracketOfLadder
<1>4. ASSUME driven = {} PROVE DwellLevel(atLower, curve, driven, demand) = lower.level
  <2>1. atLower.level = lower.level   BY <1>3, HeldRung
  <2> QED BY <1>4, <2>1 DEF DwellLevel
<1>5. CASE lower = upper
  <2>1. plan = whole(atLower, DwellLevel(atLower, curve, driven, demand))   BY <1>2, <1>5
  <2>2. Nearest(lower, ladder, demand)   BY <1>3, <1>5 DEF Nearest
  <2>3. plan = <<plan[1]>> /\ plan[1].rung = Holding(lower, held) /\ plan[1].seconds = seconds
        /\ plan[1].level = DwellLevel(atLower, curve, driven, demand)
    BY <2>1
  <2> QED BY <1>3, <1>4, <2>2, <2>3 DEF OnOne
<1>6. ASSUME lower # upper PROVE nearer \in ladder /\ Nearest(nearer, ladder, demand)
  BY <1>1, <1>6, NearerIsNearest
<1>7. CASE lower # upper /\ ~kept
  <2>1. plan = whole(Holding(nearer, held), nearer.level)   BY <1>2, <1>7
  <2>2. plan = <<plan[1]>> /\ plan[1].rung = Holding(nearer, held) /\ plan[1].seconds = seconds
        /\ plan[1].level = nearer.level
    BY <2>1
  <2>3. nearer \in ladder /\ Nearest(nearer, ladder, demand)   BY <1>6, <1>7
  <2> HIDE DEF nearer
  <2> QED BY <2>2, <2>3 DEF OnOne
<1>8. CASE lower # upper /\ kept /\ atLower.states = atUpper.states
  <2>1. plan = whole(atLower, DwellLevel(atLower, curve, driven, demand))   BY <1>2, <1>8
  <2>2. plan = <<plan[1]>> /\ plan[1].rung = Holding(lower, held) /\ plan[1].seconds = seconds
        /\ plan[1].level = DwellLevel(atLower, curve, driven, demand)
    BY <2>1
  <2>3. nearer \in ladder /\ Nearest(nearer, ladder, demand)   BY <1>6, <1>8
  <2>4. Holding(nearer, held).states = Holding(lower, held).states   BY <1>8
  <2> HIDE DEF nearer
  <2> QED BY <1>3, <1>4, <2>2, <2>3, <2>4 DEF OnOne
<1>9. CASE lower # upper /\ kept /\ atLower.states # atUpper.states
  <2>1. plan = <<[rung |-> atLower, seconds |-> lowerSeconds, level |-> lower.level],
                 [rung |-> atUpper, seconds |-> upperSeconds, level |-> upper.level]>>
    BY <1>2, <1>9
  <2> HIDE DEF lowerSeconds, atLower, atUpper
  <2>2. /\ plan = <<plan[1], plan[2]>>
        /\ plan[1].rung = atLower /\ plan[1].level = lower.level /\ plan[1].seconds = lowerSeconds
        /\ plan[2].rung = atUpper /\ plan[2].level = upper.level /\ plan[2].seconds = upperSeconds
    BY <2>1
  <2>3. \A i \in {1, 2} : MinimumTransition(lower, upper, plan[i].seconds, min, driven)
    BY <1>9, <2>2
  <2> QED BY <1>3, <1>9, <2>2, <2>3 DEF OnTwo, lowerSeconds, atLower, atUpper
<1> QED BY <1>5, <1>7, <1>8, <1>9

\* Shares that are whole average out at the demand.
LEMMA SharesAreExact ==
  ASSUME NEW seconds \in Nat, NEW demand \in Int, NEW lower \in Int, NEW upper \in Int,
         lower < upper, (seconds * (demand - lower)) % (upper - lower) = 0,
         NEW share, share = (seconds * (demand - lower)) \div (upper - lower)
  PROVE  share \in Int /\ lower * (seconds - share) + upper * share = demand * seconds
<1>1. PICK x \in Int : x = seconds * (demand - lower)   OBVIOUS
<1>2. PICK span \in Int : span = upper - lower   OBVIOUS
<1>3. span > 0   BY <1>2
<1>4. x % span = 0 /\ share = x \div span   BY <1>1, <1>2
<1>5. share \in Int /\ x = span * share + (x % span)   BY <1>3, <1>4
<1>6. span * share = x   BY <1>4, <1>5
<1>7. span * share = upper * share - lower * share   BY <1>2, <1>5
<1>8. x = demand * seconds - lower * seconds   BY <1>1
<1>9. lower * (seconds - share) = lower * seconds - lower * share   BY <1>5
<1>10. /\ upper * share \in Int /\ lower * share \in Int
       /\ demand * seconds \in Int /\ lower * seconds \in Int
  BY <1>5
<1> QED BY <1>5, <1>6, <1>7, <1>8, <1>9, <1>10

\* What a window of a plan is planned on.
CurveOf(p) == CapLadder(BuildLadder(p.stages), p.cap)
LadderOf(p) == ReachableLadder(CurveOf(p), p.frozen \ p.driven, p.states)
Leaves(p, r) == \A d \in (p.frozen \cap DOMAIN p.states) \ p.driven : r.states[d] = p.states[d]

\* It is at or below the cap but for one rung, which is then the lowest; and all
\* of it leaves the frozen devices alone, or none.
LEMMA LadderOfPlan ==
  ASSUME NEW p \in Plans, NEW ladder, ladder = LadderOf(p)
  PROVE  /\ IsLadder(ladder) /\ ladder # {} /\ ladder \subseteq RungsOf(DOMAIN p.min)
         /\ \A r \in ladder : \E i \in DOMAIN p.stages : r.level = p.stages[i].level
         /\ (\A r \in ladder : r.level <= p.cap) \/ (\A r \in ladder : r = Bottom(ladder))
         /\ (\A r \in ladder : Leaves(p, r)) \/ (\A r \in ladder : ~Leaves(p, r))
<1> DEFINE built == BuildLadder(p.stages)
           curve == CurveOf(p)
<1>1. /\ IsLadder(built) /\ built # {}
      /\ \A r \in built : \E i \in DOMAIN p.stages : r.level = p.stages[i].level
  BY PlansAssumption, BuiltIsLadder
<1>2. built \subseteq RungsOf(DOMAIN p.min)
  BY PlansAssumption DEF BuildLadder, RungsOf
<1> HIDE DEF built
<1>3. curve \subseteq built /\ curve # {}
  BY <1>1, PlansAssumption, CappedLadder DEF built, CurveOf
<1>4. (\A r \in curve : r.level <= p.cap) \/ (\E b : curve = {b})
  BY DEF CapLadder, CurveOf
<1> HIDE DEF curve
<1> DEFINE keeps == {r \in curve : \A d \in (p.frozen \ p.driven) \cap DOMAIN p.states :
                                     r.states[d] = p.states[d]}
<1>5. /\ ladder \subseteq curve /\ ladder # {}
      /\ ladder = keeps \/ (ladder = curve /\ keeps = {})
  BY <1>3 DEF ReachableLadder, LadderOf, curve
<1>6. \A r \in curve : Leaves(p, r) <=> r \in keeps   BY DEF Leaves
<1>7. IsLadder(ladder)   BY <1>1, <1>3, <1>5, PartIsLadder
<1>8. ASSUME NEW b, curve = {b} PROVE \A r \in ladder : r = Bottom(ladder)
  <2>1. ladder = {b}   BY <1>5, <1>8
  <2>2. Bottom(ladder) \in ladder   BY <1>5, <1>7, BottomOfLadder
  <2> QED BY <2>1, <2>2
<1>9. (\A r \in ladder : r.level <= p.cap) \/ (\A r \in ladder : r = Bottom(ladder))
  BY <1>4, <1>5, <1>8
<1>10. (\A r \in ladder : Leaves(p, r)) \/ (\A r \in ladder : ~Leaves(p, r))
  <2> HIDE DEF keeps
  <2> QED BY <1>5, <1>6
<1> QED BY <1>1, <1>2, <1>3, <1>5, <1>7, <1>9, <1>10

\* A held rung leaves the frozen devices alone as the rung does.
LEMMA HeldLeaves ==
  ASSUME NEW p \in Plans, NEW r \in RungsOf(DOMAIN p.min), NEW held, DOMAIN held = p.driven
  PROVE  Leaves(p, Holding(r, held)) <=> Leaves(p, r)
BY PlansAssumption, HeldRung DEF Leaves

\* What holds of the answer to PlansWindow, case by case.
Kept(p, ladder, plan) ==
  /\ \A d \in Changing(plan, p.driven), i \in DOMAIN plan : plan[i].seconds >= p.min[d]
  /\ (\E r \in ladder : Leaves(p, r)) => \A i \in DOMAIN plan : Leaves(p, plan[i].rung)
  /\ \A d \in p.driven, i \in DOMAIN plan : plan[i].rung.states[d] = plan[1].rung.states[d]
Delivers(p, ladder, plan) ==
  /\ Length(plan) = Window
  /\ \A i \in DOMAIN plan : plan[i].rung \in ladder
  /\ \A i \in DOMAIN plan : plan[i].level <= p.cap \/ plan[i].rung = Bottom(ladder)
  /\ Len(plan) = 2 => DeliveredLevel(plan) = p.demand * Window
  /\ Len(plan) = 1 => \E r \in ladder : Nearest(r, ladder, p.demand) /\ r.states = plan[1].rung.states

\* A window on one rung keeps what is to be kept and delivers the nearest.
LEMMA WholeWindow ==
  ASSUME NEW p \in Plans, NEW ladder, ladder = LadderOf(p), NEW held, DOMAIN held = p.driven,
         NEW plan, OnOne(plan, ladder, held, p.demand, Window, p.driven)
  PROVE  Kept(p, ladder, plan) /\ (p.driven = {} => Delivers(p, ladder, plan))
<1>1. /\ ladder \subseteq RungsOf(DOMAIN p.min)
      /\ (\A r \in ladder : r.level <= p.cap) \/ (\A r \in ladder : r = Bottom(ladder))
      /\ (\A r \in ladder : Leaves(p, r)) \/ (\A r \in ladder : ~Leaves(p, r))
  BY LadderOfPlan
<1>2. PICK r \in ladder :
        \E n \in ladder :
          /\ plan = <<plan[1]>> /\ plan[1].rung = Holding(r, held) /\ plan[1].seconds = Window
          /\ Nearest(n, ladder, p.demand) /\ Holding(n, held).states = Holding(r, held).states
          /\ p.driven = {} => plan[1].level = r.level
  BY DEF OnOne
<1>3. PICK n \in ladder :
        /\ plan = <<plan[1]>> /\ plan[1].rung = Holding(r, held) /\ plan[1].seconds = Window
        /\ Nearest(n, ladder, p.demand) /\ Holding(n, held).states = Holding(r, held).states
        /\ p.driven = {} => plan[1].level = r.level
  BY <1>2
<1>4. DOMAIN plan = {1} /\ Len(plan) = 1   BY <1>3
<1>5. Kept(p, ladder, plan)
  <2>1. Changing(plan, p.driven) = {}   BY <1>4 DEF Changing
  <2>2. (\E s \in ladder : Leaves(p, s)) => Leaves(p, plan[1].rung)
    BY <1>1, <1>3, HeldLeaves
  <2> QED BY <1>4, <2>1, <2>2 DEF Kept
<1>6. ASSUME p.driven = {} PROVE Delivers(p, ladder, plan)
  <2>1. Holding(r, held) = r /\ Holding(n, held) = n   BY <1>1, <1>6, HeldRung
  <2>2. Length(plan) = Window   BY <1>3, <1>4, LengthOfOne, WindowAssumption
  <2> QED BY <1>1, <1>3, <1>4, <1>6, <2>1, <2>2 DEF Delivers
<1> QED BY <1>5, <1>6

\* And one split between two rungs, which averages out at the demand.
LEMMA SplitWindow ==
  ASSUME NEW p \in Plans, NEW ladder, ladder = LadderOf(p), NEW held, DOMAIN held = p.driven,
         NEW plan, OnTwo(plan, ladder, held, p.demand, Window, p.min, p.driven)
  PROVE  Kept(p, ladder, plan) /\ (p.driven = {} => Delivers(p, ladder, plan))
<1>1. /\ ladder \subseteq RungsOf(DOMAIN p.min)
      /\ \A r \in ladder : \E i \in DOMAIN p.stages : r.level = p.stages[i].level
      /\ (\A r \in ladder : r.level <= p.cap) \/ (\A r \in ladder : r = Bottom(ladder))
      /\ (\A r \in ladder : Leaves(p, r)) \/ (\A r \in ladder : ~Leaves(p, r))
  BY LadderOfPlan
<1> DEFINE Split(lower, upper) ==
             /\ lower.level < p.demand /\ p.demand < upper.level
             /\ plan = <<plan[1], plan[2]>>
             /\ plan[1].rung = Holding(lower, held) /\ plan[1].level = lower.level
             /\ plan[2].rung = Holding(upper, held) /\ plan[2].level = upper.level
             /\ plan[2].seconds = (Window * (p.demand - lower.level)) \div (upper.level - lower.level)
             /\ plan[1].seconds = Window - plan[2].seconds
             /\ \A i \in {1, 2} : MinimumTransition(lower, upper, plan[i].seconds, p.min, p.driven)
<1>2. PICK lower \in ladder : \E upper \in ladder : Split(lower, upper)   BY DEF OnTwo
<1>3. PICK upper \in ladder : Split(lower, upper)   BY <1>2
<1>4. DOMAIN plan = {1, 2} /\ Len(plan) = 2   BY <1>3
<1>5. lower \in RungsOf(DOMAIN p.min) /\ upper \in RungsOf(DOMAIN p.min)   BY <1>1
<1>6. Kept(p, ladder, plan)
  <2>1. ASSUME NEW d \in Changing(plan, p.driven), NEW i \in DOMAIN plan
        PROVE  plan[i].seconds >= p.min[d]
    <3>1. /\ d \in DOMAIN p.min /\ d \notin p.driven
          /\ Holding(lower, held).states[d] # Holding(upper, held).states[d]
      BY <1>3, <1>4, <1>5, HeldRung DEF Changing
    <3>2. d \in DOMAIN upper.states \ p.driven /\ lower.states[d] # upper.states[d]
      BY <1>5, <3>1, HeldRung DEF RungsOf
    <3>3. p.min[d] <= plan[i].seconds   BY <1>3, <1>4, <3>2 DEF MinimumTransition
    <3> QED BY <3>3
  <2>2. ASSUME NEW s \in ladder, Leaves(p, s), NEW i \in DOMAIN plan PROVE Leaves(p, plan[i].rung)
    <3>1. Leaves(p, lower) /\ Leaves(p, upper)   BY <1>1, <2>2
    <3>2. Leaves(p, Holding(lower, held)) /\ Leaves(p, Holding(upper, held))
      BY <1>5, <3>1, HeldLeaves
    <3> QED BY <1>3, <1>4, <3>2
  <2>3. ASSUME NEW d \in p.driven, NEW i \in DOMAIN plan
        PROVE  plan[i].rung.states[d] = plan[1].rung.states[d]
    <3>1. d \in DOMAIN p.min   BY PlansAssumption
    <3> QED BY <1>3, <1>4, <1>5, <3>1, HeldRung
  <2> QED BY <2>1, <2>2, <2>3 DEF Kept
<1>7. ASSUME p.driven = {} PROVE Delivers(p, ladder, plan)
  <2>1. Holding(lower, held) = lower /\ Holding(upper, held) = upper   BY <1>5, <1>7, HeldRung
  <2>2. lower.level \in Int /\ upper.level \in Int /\ p.demand \in Int /\ Window \in Nat
    BY <1>5, PlansAssumption, WindowAssumption DEF RungsOf
  <2>3. (Window * (p.demand - lower.level)) % (upper.level - lower.level) = 0
    <3>1. PICK i \in DOMAIN p.stages : lower.level = p.stages[i].level   BY <1>1
    <3>2. PICK j \in DOMAIN p.stages : upper.level = p.stages[j].level   BY <1>1
    <3>3. upper.level - lower.level > 0   BY <1>3, <2>2
    <3> QED BY <3>1, <3>2, <3>3, SharesAssumption
  <2>4. /\ plan[2].seconds \in Int
        /\ lower.level * (Window - plan[2].seconds) + upper.level * plan[2].seconds = p.demand * Window
    BY <1>3, <2>2, <2>3, SharesAreExact
  <2>5. plan[1].seconds \in Int   BY <1>3, <2>2, <2>4
  <2>6. Length(plan) = Window
    <3>1. Length(plan) = plan[1].seconds + plan[2].seconds   BY <1>4, <2>4, <2>5, LengthOfTwo
    <3> QED BY <1>3, <2>2, <2>4, <3>1
  <2>7. DeliveredLevel(plan) = p.demand * Window
    <3>1. DeliveredLevel(plan) = plan[1].level * plan[1].seconds + plan[2].level * plan[2].seconds
      BY <1>3, <1>4, <2>2, <2>4, <2>5, DeliveredByTwo
    <3> QED BY <1>3, <2>4, <3>1
  <2>8. \A i \in DOMAIN plan : plan[i].rung \in ladder   BY <1>3, <1>4, <2>1
  <2>9. \A i \in DOMAIN plan : plan[i].level <= p.cap \/ plan[i].rung = Bottom(ladder)
    BY <1>1, <1>3, <1>4, <2>1
  <2> QED BY <1>4, <2>6, <2>7, <2>8, <2>9 DEF Delivers
<1> QED BY <1>6, <1>7

\* Which holds of the question PlansWindow asks.
LEMMA PlansWindowDelivers == PlansWindow => WindowDelivers'
<1> SUFFICES ASSUME NEW p \in Plans, NEW curve, curve = CurveOf(p),
                    NEW ladder, ladder = LadderOf(p),
                    question' = [kind |-> "plan", of |-> [plan |-> p, ladder |-> ladder]],
                    answer' = PlanWindow(ladder, p.demand, Window, p.min, p.driven, curve)
             PROVE  WindowDelivers'
  BY DEF PlansWindow, Asks, CurveOf, LadderOf
<1>1. PICK c : c = Bracket(curve, p.demand)   OBVIOUS
<1>2. PICK held : held = Interpolated(c[1], c[2], p.demand, p.driven)   OBVIOUS
<1>3. DOMAIN held = p.driven   BY <1>2 DEF Interpolated
<1>4. PICK plan : plan = answer'   OBVIOUS
<1>5. \/ OnOne(plan, ladder, held, p.demand, Window, p.driven)
      \/ OnTwo(plan, ladder, held, p.demand, Window, p.min, p.driven)
  <2>1. IsLadder(ladder) /\ ladder # {} /\ ladder \subseteq RungsOf(DOMAIN p.min)   BY LadderOfPlan
  <2>2. p.demand \in Int /\ Window \in Nat   BY PlansAssumption, WindowAssumption
  <2>3. plan = PlanWindow(ladder, p.demand, Window, p.min, p.driven, curve)   BY <1>4
  <2> QED BY <1>1, <1>2, <2>1, <2>2, <2>3, PlannedWindow
<1>6. Kept(p, ladder, plan) /\ (p.driven = {} => Delivers(p, ladder, plan))
  BY <1>3, <1>5, WholeWindow, SplitWindow
<1>7. question'.of.plan = p /\ question'.of.ladder = ladder   OBVIOUS
<1>8. MinimumsKept'
  <2>1. Kept(p, ladder, answer')   BY <1>4, <1>6
  <2> QED BY <1>7, <2>1 DEF MinimumsKept, Kept, Leaves
<1>9. p.driven = {} => Delivers(p, ladder, answer')   BY <1>4, <1>6
<1> QED BY <1>7, <1>8, <1>9 DEF WindowDelivers, Delivers, Nearest

-----------------------------------------------------------------------------
(***************************************************************************)
(* The theorems.  Nothing is asked twice, and of a question of one kind    *)
(* the others say nothing.                                                 *)
(***************************************************************************)
Right == HandOver /\ WindowDelivers /\ AcceptedRunsUnlessEmpty

\* Before a question is asked nothing is wrong.
LEMMA RightInit == Init => Right
BY DEF Init, Right, Of, HandOver, WindowDelivers, AcceptedRunsUnlessEmpty

\* Whichever question is asked, its answer is right.
LEMMA RightStep == Right /\ [Decides]_vars => Right'
<1> SUFFICES ASSUME Right, [Decides]_vars PROVE Right'   OBVIOUS
<1>1. CASE TellsTime
  <2>1. ~Of("plan")' /\ ~Of("document")'   BY <1>1 DEF TellsTime, Asks, Of
  <2> QED BY <1>1, <2>1, TellsTimeHandsOver DEF Right, WindowDelivers, AcceptedRunsUnlessEmpty
<1>2. CASE PlansWindow
  <2>1. ~Of("period")' /\ ~Of("document")'   BY <1>2 DEF PlansWindow, Asks, Of
  <2> QED BY <1>2, <2>1, PlansWindowDelivers DEF Right, HandOver, AcceptedRunsUnlessEmpty
<1>3. CASE ValidatesDocument
  <2>1. ~Of("period")' /\ ~Of("plan")'   BY <1>3 DEF ValidatesDocument, Asks, Of
  <2> QED BY <1>3, <2>1, ValidatedRuns DEF Right, HandOver, WindowDelivers
<1>4. CASE UNCHANGED vars
  BY <1>4 DEF Right, vars, HandOver, WindowDelivers, MinimumsKept, AcceptedRunsUnlessEmpty, Of
<1> QED BY <1>1, <1>2, <1>3, <1>4 DEF Decides

\* So every answer is.
LEMMA AlwaysRight == DecisionSpec => []Right
BY RightInit, RightStep, PTL DEF DecisionSpec

(* Windows that meet hand over at every instant, for a day of any length and *)
(* any clock: no change of daylight saving, forward or back, leaves a gap or *)
(* an overlap between two controls.                                          *)
THEOREM WindowsHandOver == DecisionSpec => []HandOver
BY AlwaysRight, PTL DEF Right

(* For any ladder, demand, cap, minimums, frozen and driven devices, a       *)
(* window averages out at its demand or commands what a nearest rung does,   *)
(* stays under the cap, and asks no device to change and back too soon.      *)
THEOREM EveryWindowDelivers == DecisionSpec => []WindowDelivers
BY AlwaysRight, PTL DEF Right

(* Whatever document is accepted, its process can be constructed from it and *)
(* its devices put in the states its gate may ask for, but for an empty      *)
(* window of the day.                                                        *)
THEOREM ValidDocumentsRun == DecisionSpec => []AcceptedRunsUnlessEmpty
BY AlwaysRight, PTL DEF Right
=============================================================================
