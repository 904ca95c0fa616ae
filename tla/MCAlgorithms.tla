---------------------------- MODULE MCAlgorithms ----------------------------
(* A small instance of Algorithms for TLC. *)
EXTENDS Algorithms

MCValue == [x \in {"0", "1"} |-> IF x = "0" THEN 0 ELSE 1]
MCNames == {"dew"}
MCReadings == {Nan, Number(0), Fraction(1, 2), Number(-1)}

\* Every tree of three levels over one name and one literal, an operator of
\* each precedence, and the functions that choose.
Leaves == {Tree("dew", <<>>), Tree("1", <<>>)}
Over(low) ==
  {Tree(op, <<x>>) : op \in {"not", "-", "abs"}, x \in low}
    \cup {Tree(op, <<x, y>>) : op \in {"or", "and", "<", "-", "/", "max", "min"}, x \in low, y \in low}
MCTrees == Leaves \cup Over(Leaves) \cup Over(Over(Leaves))
             \cup {Tree(op, <<x, y, z>>) : op \in {"if", "clamp", "min"}, x \in Over(Leaves),
                                           y \in Leaves, z \in Leaves}

Alphabet == {"1", "dew", "not", "-", "<", "min", "(", ")", ","}
MCTexts == UNION {[1..n -> Alphabet] : n \in 1..5}
             \cup {<<"min", "(">> \o t : t \in [1..4 -> Alphabet]}

\* Two days on a clock that does not change, and on one that is set forward
\* and back.
MCZones == {[i \in 0..15 |-> 0],
            [i \in 0..15 |-> IF i < 3 THEN 0 ELSE IF i < 11 THEN 1 ELSE 0]}

Two(x, y) == [far |-> x, near |-> y]
Rung(l, x, y) == [level |-> l, states |-> Two(x, y)]
States == {Two(x, y) : x \in {0, 1}, y \in {0, 1, 4}} \cup {[near |-> 0]}

\* Ladders of two heaters, without and with two rungs of one level or of the
\* same states, and of a heater and a dimmer; every demand, cap and minimum, any
\* devices frozen, and a log that lacks one.
Ladders ==
  {[driven |-> {}, stages |-> s] :
     s \in {<<Rung(0, 0, 0), Rung(2, 0, 1), Rung(4, 1, 1)>>,
            <<Rung(0, 0, 0), Rung(4, 1, 1)>>,
            <<Rung(0, 0, 0), Rung(2, 0, 0), Rung(4, 0, 1)>>,
            <<Rung(4, 1, 1), Rung(0, 0, 0), Rung(2, 1, 0), Rung(2, 0, 1)>>}}
  \cup {[driven |-> {"near"}, stages |-> s] :
     s \in {<<Rung(0, 0, 0), Rung(2, 0, 4), Rung(4, 1, 4)>>,
            <<Rung(0, 0, 4), Rung(4, 1, 0)>>}}
MCPlans ==
  {[stages |-> l.stages, driven |-> l.driven, demand |-> demand, cap |-> cap,
    min |-> Two(far, near), frozen |-> frozen, states |-> states] :
     l \in Ladders, demand \in -1..5, cap \in {-1, 2, 3, 4}, far \in {0, 2, 3}, near \in {0, 1},
     frozen \in SUBSET {"far", "near"}, states \in States}

\* A sound document of a heater and a dimmer, what each part of it may hold in
\* its place, and every document that differs from it in two parts.
Given(x) == [is |-> "text", of |-> x]
Amount(n) == [is |-> "number", of |-> n]
Section(f) == [is |-> "mapping", of |-> f]
Nothing == {[is |-> "absent"], [is |-> "null"], [is |-> "list", of |-> <<>>]}
Expression(parses, reads) == [is |-> "rule", parses |-> parses, reads |-> reads]
Expressions == {Expression(TRUE, {"dew"}), Expression(TRUE, {"dusk"}), Expression(FALSE, {}),
                [is |-> "absent"], Amount(5)}
SafeStates == {Given("unenergised"), Given("energised"), Given("half"), Given("leave_unchanged"),
            Amount(40), Amount(120), Amount(-1), [is |-> "absent"], [is |-> "null"]}
Truths == {[is |-> "true"], [is |-> "false"], Given("yes"), [is |-> "absent"]}
Amounts == {Amount(1), Amount(0), [is |-> "infinite"], [is |-> "absent"], [is |-> "null"]}
Gap == [is |-> "absent"]
Device(source, device, instance, parameter, min) ==
  Section([source |-> source, device |-> device, instance |-> instance, parameter |-> parameter,
           min_transition_seconds |-> min])
Lamp(parameter) == Device(Given("hue"), Given("lamp"), Gap, parameter, Gap)
Heater == Device(Given("hue"), Given("heater"), Given("bridge"), Gap, Amount(1))
Entry(source, field, age) ==
  Section([source |-> source, field |-> field, instance |-> Gap, max_age |-> age])
Stage(level, lamp, heater) ==
  Section([level |-> level, set |-> Section([lamp |-> lamp, heater |-> heater])])
Stages(s) == [is |-> "list", of |-> s]
Output(cycle, cap, stages) ==
  Section([cycle_seconds |-> cycle, min_transition_seconds |-> Gap, max_level |-> cap,
           stages |-> stages])
Pid(input, setpoint, gain) ==
  Section([input |-> input, setpoint |-> setpoint, kp |-> gain, ki |-> Gap, kd |-> Gap])
Period(from, to, end) == Section([from |-> from, to |-> to, end_state |-> end])
Clock(m) == [is |-> "time", of |-> m]
Sound == Stages(<<Stage(Amount(0), Amount(0), [is |-> "false"]),
                  Stage(Amount(4), Amount(100), [is |-> "true"])>>)
Fair == Expression(TRUE, {"dew"})

SoundDocument ==
  [unknown |-> {}, name |-> "same", enabled |-> [is |-> "true"], timezone |-> Gap,
   enable_when |-> Gap, safe_state |-> Gap, active_period |-> Gap,
   parameters |-> Section([target |-> Amount(18)]),
   inputs |-> Section([dew |-> Entry(Given("openmeteo"), Given("dew"), Gap)]),
   devices |-> Section([lamp |-> Lamp(Given("brightness_pct")), heater |-> Heater]),
   pid |-> Pid(Fair, Fair, Amount(5)), output |-> Output(Gap, Gap, Sound)]
Parts ==
  [unknown |-> {{"pid"}}, name |-> {"absent", "other"}, enabled |-> Truths,
   timezone |-> {Given("London"), Given("Nowhere"), [is |-> "null"], Amount(1)},
   enable_when |-> Expressions, safe_state |-> SafeStates,
   active_period |-> Nothing \cup {Period(Clock(1), Clock(2), s) : s \in SafeStates}
     \cup {Period(Clock(1), Clock(1), Gap), Period(Amount(95), Clock(1), Gap)},
   parameters |-> Nothing \cup {Section([dew |-> Amount(1)]), Section([target |-> Given("x")])},
   inputs |-> Nothing \cup
     {Section([dew |-> Entry(s, Given("dew"), Gap)]) :
        s \in {Given("hue"), Given("off"), Given("none"), Given("")}}
     \cup {Section([dew |-> Entry(Given("hue"), f, n)]) : f \in {Given("dew"), Gap}, n \in Amounts},
   devices |-> Nothing \cup
     {Section([lamp |-> l, heater |-> h]) :
        l \in {Lamp(Gap), Lamp(Given("color_temp_k")), Lamp(Given("volume")), Lamp(Amount(1)),
              Device(Given("openmeteo"), Given("lamp"), Gap, Gap, Gap), Given("lamp")},
        h \in {Heater, Device(Given("hue"), Given("lamp"), Given("bridge"), Gap, Gap),
              Device(Given("hue"), Given("heater"), Given(""), Gap, Amount(0))}},
   pid |-> Nothing \cup {Pid(r, Fair, Gap) : r \in Expressions}
     \cup {Pid(Fair, r, g) : r \in Expressions, g \in {Gap, [is |-> "infinite"]}},
   output |-> Nothing \cup {Output(n, Gap, Sound) : n \in Amounts}
     \cup {Output(Gap, r, Sound) : r \in Expressions}
     \cup {Output(Gap, Gap, Stages(s)) :
             s \in {<<>>, <<Given("all on")>>, <<Stage(Given("0"), Amount(0), [is |-> "true"])>>,
                   <<Stage(Amount(0), [is |-> "true"], Amount(0))>>,
                   <<Stage(Amount(0), [is |-> "true"], [is |-> "true"])>>,
                   <<Section([level |-> Amount(0), set |-> Section([lamp |-> Amount(1)])])>>}}]
Changed(d) == UNION {{[d EXCEPT ![part] = v] : v \in Parts[part]} : part \in DOMAIN Parts}
MCDocuments == {SoundDocument} \cup UNION {Changed(d) : d \in Changed(SoundDocument)}

MCSources == {"hue", "openmeteo", "off"}
MCDrivable == [hue |-> {"brightness_pct", "color_temp_k"}]
=============================================================================
