------------------------------ MODULE Staging ------------------------------
(***************************************************************************)
(* The ladder and the window planner of src/toinflux/staging.py, as        *)
(* operators.  A rung is a record: the level it delivers, its place in the *)
(* document, and the state it gives every device.  A switched device is 1  *)
(* or 0; a driven one, a member of driven, holds a value.                  *)
(*                                                                         *)
(* Levels, values and seconds are integers.  The program divides reals,    *)
(* so an instance takes spans that divide its cycle and its values: every  *)
(* \div below is then exact.                                               *)
(***************************************************************************)
EXTENDS Integers, Sequences, FiniteSets, SequencesExt, FiniteSetsExt

\* A ladder is the set of its rungs, in the order of their levels, those of one
\* level as they were declared.
Precedes(r, s) == r.level < s.level \/ (r.level = s.level /\ r.declared < s.declared)
Bottom(ladder) == CHOOSE r \in ladder : \A s \in ladder \ {r} : Precedes(r, s)
Top(ladder) == CHOOSE r \in ladder : \A s \in ladder \ {r} : Precedes(s, r)
Adjacent(ladder) == {p \in ladder \X ladder :
                       /\ Precedes(p[1], p[2])
                       /\ ~\E r \in ladder : Precedes(p[1], r) /\ Precedes(r, p[2])}
Magnitude(n) == IF n < 0 THEN -n ELSE n

\* The rungs of a document, in its order the place each was declared in.
BuildLadder(stages) ==
  {[level |-> stages[i].level, declared |-> i, states |-> stages[i].states] :
     i \in DOMAIN stages}

\* The rungs a demand sits between, the same one twice where it sits on one.
\* Of the rungs that share a level, the first declared.
Bracket(ladder, demand) ==
  LET at == {r \in ladder : r.level = demand}
      below == {r \in ladder : r.level < demand}
      above == {r \in ladder : r.level > demand}
      lower == Bottom({r \in below : r.level = Top(below).level})
  IN IF demand <= Bottom(ladder).level THEN <<Bottom(ladder), Bottom(ladder)>>
     ELSE IF demand >= Top(ladder).level THEN <<Top(ladder), Top(ladder)>>
     ELSE IF at # {} THEN <<Bottom(at), Bottom(at)>>
     ELSE <<lower, Bottom(above)>>

\* The plausible bug of a cap below every rung: it caps nothing.
CapLifted(ladder, cap) ==
  LET allowed == {r \in ladder : r.level <= cap}
  IN IF allowed = {} THEN ladder ELSE allowed
\* The rungs at or below a cap, the lowest alone where there is none.
CapLadder(ladder, cap) ==
  LET allowed == {r \in ladder : r.level <= cap}
  IN IF allowed = {} THEN {Bottom(ladder)} ELSE allowed

\* The rungs that leave every frozen device where the log has it, the whole
\* ladder where none does.  A device the log has no state for pins nothing.
ReachableLadder(ladder, frozen, states) ==
  LET available == {r \in ladder :
                      \A d \in frozen \cap DOMAIN states : r.states[d] = states[d]}
  IN IF available = {} THEN ladder ELSE available

\* The value each driven device takes at a demand between two rungs.
Interpolated(lower, upper, demand, driven) ==
  LET span == upper.level - lower.level
  IN [d \in driven |->
        lower.states[d] +
          (IF span = 0 THEN 0
           ELSE ((upper.states[d] - lower.states[d]) * (demand - lower.level)) \div span)]

Holding(rung, values) ==
  [rung EXCEPT !.states =
     [d \in DOMAIN rung.states |-> IF d \in DOMAIN values THEN values[d] ELSE rung.states[d]]]

\* Whether every device that changes between two rungs may change and then
\* stays put for its minimum; a driven device holds one value all window and
\* does not count.
MinimumTransition(lower, upper, seconds, min, driven) ==
  \A d \in DOMAIN upper.states \ driven :
    lower.states[d] # upper.states[d] => min[d] <= seconds

\* Where states sit along the stretch between two adjacent rungs: the level
\* each driven device puts them at, none where a device rules the stretch out.
Positions(states, lower, upper, driven) ==
  LET moving == {d \in DOMAIN states \cap driven : lower.states[d] # upper.states[d]}
      fixed == DOMAIN states \ moving
      span == upper.level - lower.level
      lo(d) == Min({lower.states[d], upper.states[d]})
      hi(d) == Max({lower.states[d], upper.states[d]})
      at(d) == lower.level + (span * (states[d] - lower.states[d]))
                               \div (upper.states[d] - lower.states[d])
  IN IF \/ span = 0
        \/ \E d \in fixed : ~(states[d] = lower.states[d] /\ states[d] = upper.states[d])
        \/ \E d \in moving : states[d] \notin lo(d)..hi(d)
     THEN <<>>
     ELSE [d \in moving |-> at(d)]

\* The places on a curve that states stand for, on a rung or on the stretch
\* above one: exact where the driven devices agree, at the mean of their
\* positions where they do not.
Fits(states, curve, driven) ==
  LET position(p) == Positions(states, p[1], p[2], driven)
      placed == {p \in Adjacent(curve) : DOMAIN position(p) # {}}
      agree(p) == \A d, e \in DOMAIN position(p) : position(p)[d] = position(p)[e]
      mean(p) == MapThenSumSet(LAMBDA d : position(p)[d], DOMAIN position(p))
                   \div Cardinality(DOMAIN position(p))
      fit(p) == [level |-> mean(p), rung |-> p[1], stretch |-> TRUE]
  IN [exact |-> {[level |-> r.level, rung |-> r, stretch |-> FALSE] :
                   r \in {s \in curve : s.states = states}}
                  \cup {fit(p) : p \in {q \in placed : agree(q)}},
      approximate |-> {fit(p) : p \in {q \in placed : ~agree(q)}}]

\* The level one rung's states stand for: the nearest that fits, exact ones
\* first, of two as near the first on the curve, rungs before stretches; the
\* rung's own where no driven device carries it.
DwellLevel(rung, curve, driven, near) ==
  LET found == Fits(rung.states, curve, driven)
      fits == IF found.exact # {} THEN found.exact ELSE found.approximate
      away(f) == Magnitude(f.level - near)
      First(f, g) == IF f.stretch = g.stretch THEN Precedes(f.rung, g.rung) ELSE g.stretch
      nearest == CHOOSE f \in fits :
                   \A g \in fits \ {f} :
                     \/ away(f) < away(g)
                     \/ away(f) = away(g) /\ First(f, g)
  IN IF DOMAIN rung.states \cap driven = {} \/ fits = {} THEN rung.level
     ELSE nearest.level

\* How a window of seconds is split between rungs to average out at a demand:
\* one dwell on a rung or beyond an end, one on the nearer rung where a device
\* that would change could not stay put long enough, else two.
PlanWindow(ladder, demand, seconds, min, driven, curve) ==
  LET b == Bracket(ladder, demand)
      lower == b[1]
      upper == b[2]
      c == Bracket(curve, demand)
      held == Interpolated(c[1], c[2], demand, driven)
      span == upper.level - lower.level
      upperSeconds == (seconds * (demand - lower.level)) \div span
      lowerSeconds == seconds - upperSeconds
      kept == /\ MinimumTransition(lower, upper, lowerSeconds, min, driven)
              /\ MinimumTransition(lower, upper, upperSeconds, min, driven)
      nearer == IF 2 * (demand - lower.level) >= span THEN upper ELSE lower
      whole(rung, level) == <<[rung |-> rung, seconds |-> seconds, level |-> level]>>
      atLower == Holding(lower, held)
      atUpper == Holding(upper, held)
  IN IF lower = upper THEN whole(atLower, DwellLevel(atLower, curve, driven, demand))
     ELSE IF ~kept THEN whole(Holding(nearer, held), nearer.level)
     ELSE IF atLower.states = atUpper.states
          THEN whole(atLower, DwellLevel(atLower, curve, driven, demand))
     ELSE <<[rung |-> atLower, seconds |-> lowerSeconds, level |-> lower.level],
            [rung |-> atUpper, seconds |-> upperSeconds, level |-> upper.level]>>

\* A dwell whose states are what the curve gives at its own level.
Carried(dwell, curve, driven) ==
  \E f \in Fits(dwell.rung.states, curve, driven).exact : f.level = dwell.level

\* A plan with some driven devices kept at the values they hold; a dwell whose
\* values carried its level stands for the level they now stand for.
PinnedPlan(plan, pinned, curve, driven) ==
  LET pin(dwell) ==
        LET rung == Holding(dwell.rung, pinned)
        IN [rung |-> rung, seconds |-> dwell.seconds,
            level |-> IF Carried(dwell, curve, driven)
                      THEN DwellLevel(rung, curve, driven, dwell.level) ELSE dwell.level]
  IN IF DOMAIN pinned = {} THEN plan ELSE [i \in DOMAIN plan |-> pin(plan[i])]

Length(plan) == FoldLeft(LAMBDA sum, dwell : sum + dwell.seconds, 0, plan)

\* The level a plan delivers over its window, as the sum of level and seconds:
\* the program divides it by the window's length.
DeliveredLevel(plan) ==
  FoldLeft(LAMBDA sum, dwell : sum + dwell.level * dwell.seconds, 0, plan)

=============================================================================
