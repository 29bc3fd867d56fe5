---------------------- MODULE CorrelationEngineProofs ----------------------
(***************************************************************************)
(* What the operations of the correlation engine preserve: the lemmas the  *)
(* proofs about replica coordination rest on.                              *)
(***************************************************************************)
EXTENDS CorrelationEngine, FiniteSetTheorems, WellFoundedInduction, TLAPS

-----------------------------------------------------------------------------
(* Extrema of finite sets of naturals *)

LEMMA MinExists ==
    ASSUME NEW S \in SUBSET Nat, S # {}
    PROVE  \E x \in S : \A y \in S : x <= y
<1> DEFINE R == {ss \in Nat \X Nat : ss[1] < ss[2]}
<1>1. IsWellFoundedOn(R, Nat)
    BY NatLessThanWellFounded DEF OpToRel
<1>2. \A x, y \in Nat : <<y, x>> \in R <=> y < x
    OBVIOUS
<1> HIDE DEF R
<1>3. PICK x \in S : \A y \in S : ~(<<y, x>> \in R)
    BY <1>1, WFMin
<1>4. ASSUME NEW y \in S PROVE x <= y
    <2>1. x \in Nat /\ y \in Nat
        OBVIOUS
    <2>2. ~(y < x)
        BY <1>2, <1>3, <2>1
    <2> QED BY <2>1, <2>2
<1> QED BY <1>4

LEMMA MinMember ==
    ASSUME NEW S \in SUBSET Nat, S # {}
    PROVE  Min(S) \in S
BY MinExists DEF Min

\* The element with the fewest elements above it is the largest.
LEMMA MaxExists ==
    ASSUME NEW S \in SUBSET Nat, IsFiniteSet(S), S # {}
    PROVE  \E x \in S : \A y \in S : x >= y
<1> DEFINE above(x) == {y \in S : y > x}
           counts == {Cardinality(above(x)) : x \in S}
<1>1. \A x \in S : IsFiniteSet(above(x)) /\ Cardinality(above(x)) \in Nat
    BY FS_Subset, FS_CardinalityType
<1>2. counts \in SUBSET Nat /\ counts # {}
    BY <1>1
<1>3. PICK c \in counts : \A d \in counts : c <= d
    BY <1>2, MinExists
<1>4. PICK x \in S : c = Cardinality(above(x))
    BY <1>3
<1>5. ASSUME NEW y \in S, ~(x >= y) PROVE FALSE
    <2>1. x \in Nat /\ y \in Nat /\ y > x
        BY <1>5
    <2>2. above(y) \in SUBSET above(x)
        <3>1. ASSUME NEW z \in S, z > y PROVE z > x
            <4>1. z \in Nat
                OBVIOUS
            <4> QED BY <2>1, <3>1, <4>1
        <3> QED BY <3>1
    <2>3. y \in above(x) /\ y \notin above(y)
        BY <2>1
    <2>4. Cardinality(above(y)) <= Cardinality(above(x))
          /\ (Cardinality(above(x)) = Cardinality(above(y)) => above(x) = above(y))
        <3>1. PICK A, B : A = above(x) /\ B = above(y)
            OBVIOUS
        <3>2. IsFiniteSet(A) /\ B \in SUBSET A
            BY <1>1, <2>2, <3>1
        <3>3. Cardinality(B) <= Cardinality(A)
              /\ (Cardinality(A) = Cardinality(B) => A = B)
            BY <3>2, FS_Subset
        <3> QED BY <3>1, <3>3
    <2>5. Cardinality(above(x)) # Cardinality(above(y))
        BY <2>3, <2>4
    <2>6. Cardinality(above(y)) \in counts
        OBVIOUS
    <2>7. c <= Cardinality(above(y))
        BY <1>3, <2>6
    <2> HIDE DEF above, counts
    <2>8. Cardinality(above(x)) \in Nat /\ Cardinality(above(y)) \in Nat
        BY <1>1
    <2> QED BY <1>4, <2>4, <2>5, <2>7, <2>8
<1> QED BY <1>5

LEMMA MaxMember ==
    ASSUME NEW S \in SUBSET Nat, IsFiniteSet(S), S # {}
    PROVE  Max(S) \in S
BY MaxExists DEF Max

\* Ingest finds a most recently active group among those that match.
LEMMA LatestExists ==
    ASSUME NEW e \in Engine, NEW M \in SUBSET GroupId, M # {},
           \A g \in M : Members(e, g) # {}
    PROVE  \E g \in M : \A h \in M : Max(Members(e, g)) >= Max(Members(e, h))
<1> DEFINE V == {Max(Members(e, g)) : g \in M}
<1>1. ASSUME NEW g \in M PROVE Max(Members(e, g)) \in Alarm
    <2>1. PICK S : S = Members(e, g)
        OBVIOUS
    <2>2. S \in SUBSET Alarm /\ S # {}
        BY <2>1 DEF Members
    <2>3. S \in SUBSET Nat /\ IsFiniteSet(S)
        BY <2>2, EngineAssumption, FS_Subset
    <2> QED BY <2>1, <2>2, <2>3, MaxMember
<1>2. V \in SUBSET Alarm /\ V # {}
    BY <1>1
<1>3. V \in SUBSET Nat /\ IsFiniteSet(V)
    <2> HIDE DEF V
    <2> QED BY <1>2, EngineAssumption, FS_Subset
<1>4. PICK v \in V : \A w \in V : v >= w
    <2> HIDE DEF V
    <2> QED BY <1>2, <1>3, MaxExists
<1>5. PICK g \in M : v = Max(Members(e, g))
    BY <1>4
<1>6. \A h \in M : Max(Members(e, h)) \in V
    OBVIOUS
<1> HIDE DEF V
<1> QED BY <1>4, <1>5, <1>6

-----------------------------------------------------------------------------
(* What every engine satisfies *)

\* The conditions under which applySuppression hides an alarm.
Hides(e, a) ==
    /\ e.enabled /\ e.where[a] \in e.open /\ a \notin Critical
    /\ e.root[e.where[a]] # a
    /\ e.root[e.where[a]] \in Members(e, e.where[a])
    /\ e.state[a] \in {"active", "suppressed"}

\* An alarm is hidden exactly when those conditions hold: no operation leaves an
\* alarm hidden that the policy does not hide, or the other way round.
Exact(e) == \A a \in Alarm : e.state[a] = "suppressed" <=> Hides(e, a)

\* Every group with members, and every open group, has a root.
Rooted(e) == /\ \A a \in Alarm : e.where[a] \in GroupId => e.root[e.where[a]] # Nobody
             /\ \A g \in e.open : e.root[g] # Nobody

\* The root of an open group is not cleared, if it is in the group at all.
RootLive(e) == \A g \in e.open : \A a \in Members(e, g) :
                   a = e.root[g] => e.state[a] # "cleared"

GoodEngine(e) == e \in Engine /\ Exact(e) /\ Rooted(e)

\* Two engines that differ at most in what they hide.
Same(e, f) == /\ e.where = f.where /\ e.root = f.root /\ e.open = f.open
              /\ \A a \in Alarm : Restored(e.state[a]) = Restored(f.state[a])

\* Assigning fields of an engine.
LEMMA SetField ==
    ASSUME NEW e \in Engine, NEW v
    PROVE  /\ [e EXCEPT !.where = v] =
                  [where |-> v, state |-> e.state, root |-> e.root,
                   open |-> e.open, enabled |-> e.enabled]
           /\ [e EXCEPT !.state = v] =
                  [where |-> e.where, state |-> v, root |-> e.root,
                   open |-> e.open, enabled |-> e.enabled]
           /\ [e EXCEPT !.open = v] =
                  [where |-> e.where, state |-> e.state, root |-> e.root,
                   open |-> v, enabled |-> e.enabled]
           /\ [e EXCEPT !.enabled = v] =
                  [where |-> e.where, state |-> e.state, root |-> e.root,
                   open |-> e.open, enabled |-> v]
BY DEF Engine

LEMMA SetWhereOpen ==
    ASSUME NEW e \in Engine, NEW u, NEW v
    PROVE  [e EXCEPT !.where = u, !.open = v] =
               [where |-> u, state |-> e.state, root |-> e.root, open |-> v, enabled |-> e.enabled]
<1>1. PICK x : x = [e EXCEPT !.where = u]
    OBVIOUS
<1>2. x = [where |-> u, state |-> e.state, root |-> e.root, open |-> e.open, enabled |-> e.enabled]
    BY <1>1, SetField
<1>3. x \in [where : {u}, state : {e.state}, root : {e.root}, open : {e.open},
              enabled : {e.enabled}]
    BY <1>2
<1>4. [e EXCEPT !.where = u, !.open = v] = [x EXCEPT !.open = v]
    BY <1>1
<1>5. [x EXCEPT !.open = v] =
          [where |-> x.where, state |-> x.state, root |-> x.root, open |-> v, enabled |-> x.enabled]
    BY <1>3
<1> QED BY <1>2, <1>4, <1>5

LEMMA SetWhereState ==
    ASSUME NEW e \in Engine, NEW u, NEW v
    PROVE  [e EXCEPT !.where = u, !.state = v] =
               [where |-> u, state |-> v, root |-> e.root, open |-> e.open, enabled |-> e.enabled]
<1>1. PICK x : x = [e EXCEPT !.where = u]
    OBVIOUS
<1>2. x = [where |-> u, state |-> e.state, root |-> e.root, open |-> e.open, enabled |-> e.enabled]
    BY <1>1, SetField
<1>3. x \in [where : {u}, state : {e.state}, root : {e.root}, open : {e.open},
              enabled : {e.enabled}]
    BY <1>2
<1>4. [e EXCEPT !.where = u, !.state = v] = [x EXCEPT !.state = v]
    BY <1>1
<1>5. [x EXCEPT !.state = v] =
          [where |-> x.where, state |-> v, root |-> x.root, open |-> x.open, enabled |-> x.enabled]
    BY <1>3
<1> QED BY <1>2, <1>4, <1>5

LEMMA SetOpenState ==
    ASSUME NEW e \in Engine, NEW u, NEW v
    PROVE  [e EXCEPT !.open = u, !.state = v] =
               [where |-> e.where, state |-> v, root |-> e.root, open |-> u, enabled |-> e.enabled]
<1>1. PICK x : x = [e EXCEPT !.open = u]
    OBVIOUS
<1>2. x = [where |-> e.where, state |-> e.state, root |-> e.root, open |-> u, enabled |-> e.enabled]
    BY <1>1, SetField
<1>3. x \in [where : {e.where}, state : {e.state}, root : {e.root}, open : {u},
              enabled : {e.enabled}]
    BY <1>2
<1>4. [e EXCEPT !.open = u, !.state = v] = [x EXCEPT !.state = v]
    BY <1>1
<1>5. [x EXCEPT !.state = v] =
          [where |-> x.where, state |-> v, root |-> x.root, open |-> x.open, enabled |-> x.enabled]
    BY <1>3
<1> QED BY <1>2, <1>4, <1>5

LEMMA EmptyGood == GoodEngine(EmptyEngine) /\ RootLive(EmptyEngine)
BY EngineAssumption DEF GoodEngine, Engine, Exact, Rooted, RootLive, EmptyEngine,
   Hides, Members, Untracked, Ungrouped, Nobody, AlarmState

\* Same groups, same policy: the same alarms are hidden.
LEMMA SameState ==
    ASSUME NEW e \in Engine, NEW f \in Engine, Exact(e), Exact(f), Same(e, f),
           e.enabled = f.enabled
    PROVE  e.state = f.state
<1>1. ASSUME NEW a \in Alarm PROVE e.state[a] = f.state[a]
    <2>1. Restored(e.state[a]) = Restored(f.state[a])
        BY DEF Same
    <2>2. e.state[a] \in {"active", "suppressed"}
              <=> f.state[a] \in {"active", "suppressed"}
        BY <2>1 DEF Restored, Engine, AlarmState
    <2>3. Hides(e, a) <=> Hides(f, a)
        BY <2>2 DEF Hides, Same, Members
    <2>4. e.state[a] = "suppressed" <=> f.state[a] = "suppressed"
        BY <2>3 DEF Exact
    <2> QED BY <2>1, <2>4 DEF Restored
<1> QED BY <1>1 DEF Engine

-----------------------------------------------------------------------------
(* joinGroup and formGroup *)

Seeded(e, g, as) ==
    [e EXCEPT !.where = [b \in Alarm |-> IF b \in as THEN g ELSE @[b]]]

Joiners(e, g, as) == as \cup Admitted(Seeded(e, g, as), g)

\* What a member of a group looks like after applySuppression.
Shown(e, root, a) ==
    IF e.enabled /\ a # root /\ a \notin Critical
       /\ e.state[a] \in {"active", "suppressed"}
    THEN "suppressed" ELSE Restored(e.state[a])

Eligible(e, x, g) == {a \in Members(x, g) : e.state[a] # "cleared"}

\* The engine x after alarms as, and those they bring in, were grouped in g.
GroupedTo(e, g, as, x) ==
    /\ x \in Engine /\ x.enabled = e.enabled /\ x.open = e.open \cup {g}
    /\ \A b \in Alarm :
           x.where[b] = IF b \in Joiners(e, g, as) THEN g ELSE e.where[b]
    /\ Joiners(e, g, as) \subseteq as \cup Pending(e)
    /\ \A h \in GroupId \ {g} : x.root[h] = e.root[h]
    /\ x.root[g] = Min(Eligible(e, x, g))
    /\ x.root[g] \in Eligible(e, x, g)
    /\ \A a \in Alarm : x.state[a] = IF a \in Members(x, g)
                                     THEN Shown(e, x.root[g], a) ELSE e.state[a]

LEMMA GroupedShape ==
    ASSUME NEW e \in Engine, NEW g \in GroupId, NEW as \in SUBSET Alarm,
           \E m \in as : e.state[m] # "cleared"
    PROVE  GroupedTo(e, g, as, Grouped(e, g, as))
<1> DEFINE seeded == Seeded(e, g, as)
           more == Admitted(seeded, g)
           w == [b \in Alarm |-> IF b \in Joiners(e, g, as) THEN g ELSE e.where[b]]
           joined == [where |-> w, state |-> e.state, root |-> e.root,
                      open |-> e.open \cup {g}, enabled |-> e.enabled]
           x == Grouped(e, g, as)
<1>1. seeded = [where |-> [b \in Alarm |-> IF b \in as THEN g ELSE e.where[b]],
                state |-> e.state, root |-> e.root, open |-> e.open,
                enabled |-> e.enabled]
    <2>1. PICK v : v = [b \in Alarm |-> IF b \in as THEN g ELSE e.where[b]]
        OBVIOUS
    <2>2. seeded = [e EXCEPT !.where = v]
        BY <2>1 DEF Seeded
    <2> QED BY <2>1, <2>2, SetField
<1>2. more \subseteq Pending(seeded)
    BY DEF Admitted
<1> HIDE DEF seeded
<1>3. Joiners(e, g, as) = as \cup more /\ more \subseteq Alarm
      /\ Joiners(e, g, as) \subseteq as \cup Pending(e)
    <2>1. Joiners(e, g, as) = as \cup more
        BY DEF Joiners, seeded
    <2> HIDE DEF more
    <2>2. more \subseteq Alarm
        BY <1>2 DEF Pending
    <2>3. ASSUME NEW b \in more, b \notin as PROVE b \in Pending(e)
        <3>1. b \in Alarm /\ seeded.where[b] = Ungrouped
            BY <1>2 DEF Pending
        <3>2. e.where[b] = Ungrouped
            BY <1>1, <2>3, <3>1
        <3> QED BY <3>1, <3>2 DEF Pending
    <2> QED BY <2>1, <2>2, <2>3
<1> HIDE DEF more
<1>4. [seeded EXCEPT !.where = [b \in Alarm |-> IF b \in more THEN g ELSE @[b]],
                     !.open = @ \cup {g}] = joined
    <2>1. [b \in Alarm |-> IF b \in more THEN g ELSE seeded.where[b]] = w
        BY <1>1, <1>3
    <2>2. PICK v : v = [b \in Alarm |-> IF b \in more THEN g ELSE seeded.where[b]]
        OBVIOUS
    <2>3. [seeded EXCEPT !.where = v, !.open = @ \cup {g}] =
              [where |-> v, state |-> e.state, root |-> e.root,
               open |-> e.open \cup {g}, enabled |-> e.enabled]
        <3>1. seeded \in Engine
            BY <1>1 DEF Engine
        <3>2. PICK s \in Engine : s = seeded
            BY <3>1
        <3>3. PICK o : o = s.open \cup {g}
            OBVIOUS
        <3>4. [s EXCEPT !.where = v, !.open = o] =
                  [where |-> v, state |-> s.state, root |-> s.root,
                   open |-> o, enabled |-> s.enabled]
            BY SetWhereOpen
        <3>5. [seeded EXCEPT !.where = v, !.open = @ \cup {g}] =
                  [s EXCEPT !.where = v, !.open = o]
            BY <3>2, <3>3
        <3> QED BY <1>1, <3>2, <3>3, <3>4, <3>5
    <2> QED BY <2>1, <2>2, <2>3
<1>5. x = ApplySuppression(ElectRootCause(joined, g), g)
    BY <1>4 DEF Grouped, more, seeded, Seeded
<1>6. w \in [Alarm -> {Untracked, Ungrouped} \cup GroupId] /\ joined \in Engine
    BY DEF Engine
<1> DEFINE el == {a \in Members(joined, g) : e.state[a] # "cleared"}
<1>7. el # {} /\ el \in SUBSET Alarm
    BY <1>3 DEF Members
<1>8. el \in SUBSET Nat
    BY <1>7, EngineAssumption
<1>9. Min(el) \in el
    <2> HIDE DEF el
    <2> QED BY <1>7, <1>8, MinMember
<1> DEFINE elected == [where |-> w, state |-> e.state,
                       root |-> [h \in GroupId |-> IF h = g THEN Min(el)
                                                   ELSE e.root[h]],
                       open |-> e.open \cup {g}, enabled |-> e.enabled]
<1>10. ElectRootCause(joined, g) = elected
    <2>1. ElectRootCause(joined, g) = [joined EXCEPT !.root[g] = Min(el)]
        BY <1>7 DEF ElectRootCause
    <2> HIDE DEF el
    <2> QED BY <2>1 DEF Engine
<1>11. Members(elected, g) = Members(joined, g) /\ elected.root[g] = Min(el)
       /\ Min(el) \in Members(elected, g)
    <2>1. Members(elected, g) = Members(joined, g)
        BY DEF Members
    <2>2. Min(el) \in Members(elected, g)
        BY <1>9, <2>1
    <2> HIDE DEF el
    <2> QED BY <2>1, <2>2
<1> HIDE DEF el
<1> DEFINE st == [a \in Alarm |->
                     IF a \in Members(joined, g) THEN Shown(e, Min(el), a)
                     ELSE e.state[a]]
<1>12. x = [elected EXCEPT !.state = st]
    <2>1. x = ApplySuppression(elected, g)
        BY <1>5, <1>10
    <2>2. ASSUME NEW a \in Alarm
          PROVE (IF a \notin Members(elected, g) THEN e.state[a]
                 ELSE IF /\ elected.enabled /\ a # elected.root[g]
                         /\ elected.root[g] \in Members(elected, g)
                         /\ a \notin Critical /\ e.state[a] \in {"active", "suppressed"}
                      THEN "suppressed" ELSE Restored(e.state[a])) = st[a]
        BY <1>11 DEF Shown
    <2>3. ApplySuppression(elected, g) =
              [elected EXCEPT !.state = [a \in Alarm |->
                  IF a \notin Members(elected, g) THEN e.state[a]
                  ELSE IF /\ elected.enabled /\ a # elected.root[g]
                          /\ elected.root[g] \in Members(elected, g)
                          /\ a \notin Critical
                          /\ e.state[a] \in {"active", "suppressed"}
                       THEN "suppressed" ELSE Restored(e.state[a])]]
        BY DEF ApplySuppression
    <2>4. [a \in Alarm |->
              IF a \notin Members(elected, g) THEN e.state[a]
              ELSE IF /\ elected.enabled /\ a # elected.root[g]
                      /\ elected.root[g] \in Members(elected, g)
                      /\ a \notin Critical
                      /\ e.state[a] \in {"active", "suppressed"}
                   THEN "suppressed" ELSE Restored(e.state[a])] = st
        BY <2>2
    <2> QED BY <2>1, <2>3, <2>4
<1>13. x.where = w /\ x.root = elected.root /\ x.open = e.open \cup {g}
       /\ x.enabled = e.enabled /\ x.state = st
       /\ x = [where |-> w, state |-> st, root |-> elected.root,
               open |-> e.open \cup {g}, enabled |-> e.enabled]
    BY <1>12
<1>14. Members(x, g) = Members(joined, g)
    BY <1>13 DEF Members
<1>15. el = Eligible(e, x, g)
    BY <1>14 DEF el, Eligible
<1>16. st \in [Alarm -> AlarmState]
    BY DEF Shown, Restored, Engine, AlarmState
<1>17. elected.root \in [GroupId -> Alarm \cup {Nobody}]
    BY <1>7, <1>9 DEF Engine
<1>18. x \in Engine
    BY <1>6, <1>13, <1>16, <1>17 DEF Engine
<1> HIDE DEF x
<1>19. \A b \in Alarm : x.where[b] = IF b \in Joiners(e, g, as) THEN g ELSE e.where[b]
    BY <1>13
<1>20. \A a \in Alarm : x.state[a] = IF a \in Members(x, g)
                                      THEN Shown(e, x.root[g], a) ELSE e.state[a]
    BY <1>11, <1>13, <1>14
<1>21. GroupedTo(e, g, as, x)
    BY <1>3, <1>9, <1>11, <1>13, <1>14, <1>15, <1>18, <1>19, <1>20 DEF GroupedTo
<1> QED BY <1>21 DEF x

-----------------------------------------------------------------------------
(* The operations *)

\* Nothing outside these groups and alarms changed, but for what is hidden.
Covers(e, x, gs, as) ==
    /\ \A a \in Alarm \ as : /\ x.where[a] = e.where[a]
                             /\ Restored(x.state[a]) = Restored(e.state[a])
    /\ \A g \in GroupId \ gs : /\ x.root[g] = e.root[g]
                               /\ g \in x.open <=> g \in e.open

\* Marked groups exist, and with a marked alarm its group is marked.
Marked(e, gs, as) ==
    /\ \A g \in gs : e.root[g] # Nobody
    /\ \A a \in as : e.where[a] \in GroupId => e.where[a] \in gs

\* An operation on an engine: what it announces covers what it changed, and it
\* loses no alarm but those it forgets.
Announced(e, eff, old) ==
    /\ GoodEngine(eff.eng)
    /\ eff.groups \in SUBSET GroupId /\ eff.alarms \in SUBSET Alarm
    /\ Tracked(e) \ old \subseteq Tracked(eff.eng)
    /\ eff.alarms \ old \subseteq Tracked(eff.eng)
    /\ Covers(e, eff.eng, eff.groups, eff.alarms)
    /\ Marked(eff.eng, eff.groups, eff.alarms)
    /\ \A g \in GroupId : e.root[g] # Nobody => eff.eng.root[g] # Nobody
    /\ RootLive(e) => RootLive(eff.eng)

\* The same for an operation that leaves the policy alone.
SoundEffect(e, eff, old) == Announced(e, eff, old) /\ eff.eng.enabled = e.enabled

Fresh(e, a) == [e EXCEPT !.state[a] = "active"]

LEMMA EffectFields ==
    ASSUME NEW e, NEW gs, NEW as
    PROVE  /\ Effect(e, gs, as).eng = e /\ Effect(e, gs, as).groups = gs
           /\ Effect(e, gs, as).alarms = as
BY DEF Effect

LEMMA GroupEffectFields ==
    ASSUME NEW e, NEW gs
    PROVE  /\ GroupEffect(e, gs).eng = e /\ GroupEffect(e, gs).groups = gs
           /\ \A a : a \in GroupEffect(e, gs).alarms <=> \E g \in gs : a \in Members(e, g)
BY DEF Effect, GroupEffect

LEMMA NoEffectFields ==
    ASSUME NEW e
    PROVE  NoEffect(e).eng = e /\ NoEffect(e).groups = {} /\ NoEffect(e).alarms = {}
BY DEF Effect, NoEffect

LEMMA NoEffectSound ==
    ASSUME NEW e, GoodEngine(e)
    PROVE  SoundEffect(e, NoEffect(e), {})
<1>1. NoEffect(e).eng = e /\ NoEffect(e).groups = {} /\ NoEffect(e).alarms = {}
    BY NoEffectFields
<1> QED BY <1>1 DEF SoundEffect, Announced, Covers, Marked

LEMMA FreshFacts ==
    ASSUME NEW e, GoodEngine(e), NEW a \in Alarm, e.where[a] = Untracked
    PROVE  /\ Fresh(e, a) \in Engine /\ Fresh(e, a).where = e.where
           /\ Fresh(e, a).root = e.root /\ Fresh(e, a).open = e.open
           /\ Fresh(e, a).enabled = e.enabled
           /\ Fresh(e, a).state = [e.state EXCEPT ![a] = "active"]
           /\ GoodEngine(Fresh(e, a))
           /\ RootLive(e) => RootLive(Fresh(e, a))
<1>1. e \in Engine
    BY DEF GoodEngine
<1>2. PICK s : s = [e.state EXCEPT ![a] = "active"]
    OBVIOUS
<1>3. s \in [Alarm -> AlarmState] /\ s[a] = "active"
      /\ \A b \in Alarm : b # a => s[b] = e.state[b]
    BY <1>1, <1>2 DEF Engine, AlarmState
<1>4. Fresh(e, a) = [e EXCEPT !.state = s]
    BY <1>2 DEF Fresh
<1>5. PICK f : f = Fresh(e, a)
    OBVIOUS
<1>6. f = [where |-> e.where, state |-> s, root |-> e.root,
           open |-> e.open, enabled |-> e.enabled]
    BY <1>1, <1>4, <1>5, SetField
<1>7. f \in Engine
    BY <1>1, <1>3, <1>6 DEF Engine
<1>8. \A g : Members(f, g) = Members(e, g)
    BY <1>6 DEF Members
<1>9. Untracked \notin GroupId /\ e.open \subseteq GroupId
    BY <1>1, EngineAssumption DEF Untracked, Engine
<1>10. Exact(f)
    <2>1. ASSUME NEW b \in Alarm, b # a
          PROVE  f.state[b] = "suppressed" <=> Hides(f, b)
        <3>1. f.state[b] = e.state[b] /\ (Hides(f, b) <=> Hides(e, b))
            BY <1>3, <1>6, <1>8, <2>1 DEF Hides
        <3> QED BY <3>1 DEF GoodEngine, Exact
    <2>2. ~Hides(f, a) /\ f.state[a] # "suppressed"
        BY <1>3, <1>6, <1>9 DEF Hides
    <2> QED BY <2>1, <2>2 DEF Exact
<1>11. Rooted(f)
    BY <1>6 DEF GoodEngine, Rooted
<1>12. RootLive(e) => RootLive(f)
    <2>1. ASSUME NEW g \in e.open, NEW b \in Members(e, g), RootLive(e), b = e.root[g]
          PROVE  s[b] # "cleared"
        BY <1>3, <2>1 DEF RootLive, Members
    <2> QED BY <1>6, <1>8, <2>1 DEF RootLive
<1> QED BY <1>2, <1>5, <1>6, <1>7, <1>10, <1>11, <1>12 DEF GoodEngine

\* Forming or joining a group with a new alarm.
LEMMA GroupedSound ==
    ASSUME NEW e, GoodEngine(e), NEW a \in Alarm, e.where[a] = Untracked,
           NEW g \in GroupId, NEW as \in SUBSET Alarm, a \in as,
           as \ {a} \subseteq Pending(e)
    PROVE  /\ SoundEffect(e, GroupEffect(Grouped(Fresh(e, a), g, as), {g}), {})
           /\ Tracked(Grouped(Fresh(e, a), g, as)) = Tracked(e) \cup {a}
           /\ a \in Members(Grouped(Fresh(e, a), g, as), g)
<1>1. PICK f \in Engine : f = Fresh(e, a)
    BY FreshFacts
<1>2. /\ e \in Engine /\ f.where = e.where /\ f.root = e.root /\ f.open = e.open
      /\ f.enabled = e.enabled /\ f.state[a] = "active"
      /\ \A b \in Alarm : b # a => f.state[b] = e.state[b]
      /\ GoodEngine(f) /\ (RootLive(e) => RootLive(f))
    <2>1. /\ f.where = e.where /\ f.root = e.root /\ f.open = e.open
          /\ f.enabled = e.enabled /\ f.state = [e.state EXCEPT ![a] = "active"]
          /\ GoodEngine(f) /\ (RootLive(e) => RootLive(f))
        BY <1>1, FreshFacts
    <2>2. e \in Engine
        BY DEF GoodEngine
    <2>3. f.state[a] = "active" /\ \A b \in Alarm : b # a => f.state[b] = e.state[b]
        BY <2>1, <2>2 DEF Engine
    <2> QED BY <2>1, <2>2, <2>3
<1>3. PICK x : x = Grouped(f, g, as)
    OBVIOUS
<1>4. PICK J : J = Joiners(f, g, as)
    OBVIOUS
<1>5. \E m \in as : f.state[m] # "cleared"
    BY <1>2
<1>6. /\ x \in Engine /\ x.enabled = f.enabled /\ x.open = f.open \cup {g}
      /\ \A b \in Alarm : x.where[b] = IF b \in J THEN g ELSE f.where[b]
      /\ J \subseteq as \cup Pending(f)
      /\ \A h \in GroupId \ {g} : x.root[h] = f.root[h]
      /\ x.root[g] \in Eligible(f, x, g)
      /\ \A b \in Alarm : x.state[b] = IF b \in Members(x, g)
                                       THEN Shown(f, x.root[g], b) ELSE f.state[b]
    <2>1. GroupedTo(f, g, as, x)
        BY <1>3, <1>5, GroupedShape
    <2> QED BY <1>4, <2>1 DEF GroupedTo
<1>7. as \subseteq J
    BY <1>4 DEF Joiners
<1>8. J \subseteq Pending(e) \cup {a} /\ a \in J /\ J \subseteq Alarm
    BY <1>2, <1>6, <1>7 DEF Pending
<1>9. /\ Untracked \notin GroupId /\ Ungrouped \notin GroupId /\ Untracked # Ungrouped
      /\ g # Untracked /\ g # Ungrouped /\ Nobody \notin Alarm
    BY EngineAssumption DEF Untracked, Ungrouped, Nobody
<1>10. ASSUME NEW b \in J PROVE e.where[b] \notin GroupId /\ x.where[b] = g
                                /\ b \in Members(x, g)
    BY <1>6, <1>8, <1>9 DEF Pending, Members
<1>11. ASSUME NEW b \in Alarm \ J PROVE x.where[b] = e.where[b]
    BY <1>2, <1>6
<1>12. ASSUME NEW h \in GroupId, h # g PROVE Members(x, h) = Members(e, h)
    BY <1>8, <1>10, <1>11, <1>12 DEF Members
<1>13. x.root[g] \in Members(x, g) /\ f.state[x.root[g]] # "cleared"
       /\ x.root[g] \in Alarm
    BY <1>6 DEF Eligible, Members
<1>14. ASSUME NEW b \in Alarm, b \notin Members(x, g)
       PROVE  b \notin J /\ x.where[b] = e.where[b] /\ x.state[b] = e.state[b]
              /\ e.where[b] # g
    <2>1. b \notin J
        BY <1>10, <1>14
    <2> QED BY <1>2, <1>6, <1>8, <1>11, <1>14, <2>1 DEF Members
<1>15. Exact(x)
    <2>1. ASSUME NEW b \in Alarm, b \in Members(x, g)
          PROVE  x.state[b] = "suppressed" <=> Hides(x, b)
        <3>1. x.state[b] = Shown(f, x.root[g], b) /\ x.where[b] = g
            BY <1>6, <2>1 DEF Members
        <3>2. x.state[b] = "suppressed" <=>
                  /\ f.enabled /\ b # x.root[g] /\ b \notin Critical
                  /\ f.state[b] \in {"active", "suppressed"}
            BY <3>1 DEF Shown, Restored
        <3>3. x.state[b] \in {"active", "suppressed"}
                  <=> f.state[b] \in {"active", "suppressed"}
            BY <3>1 DEF Shown, Restored
        <3> QED BY <1>6, <1>13, <3>1, <3>2, <3>3 DEF Hides
    <2>2. ASSUME NEW b \in Alarm, b \notin Members(x, g)
          PROVE  x.state[b] = "suppressed" <=> Hides(x, b)
        <3>1. x.where[b] = e.where[b] /\ x.state[b] = e.state[b] /\ e.where[b] # g
            BY <1>14, <2>2
        <3>2. e.where[b] \in x.open <=> e.where[b] \in e.open
            BY <1>2, <1>6, <3>1
        <3>3. CASE e.where[b] \in e.open
            <4>1. e.where[b] \in GroupId
                BY <1>2, <3>3 DEF Engine
            <4>2. Members(x, e.where[b]) = Members(e, e.where[b])
                  /\ x.root[e.where[b]] = e.root[e.where[b]]
                BY <1>2, <1>6, <1>12, <3>1, <4>1
            <4>3. Hides(x, b) <=> Hides(e, b)
                BY <1>2, <1>6, <3>1, <3>2, <4>2 DEF Hides
            <4> QED BY <3>1, <4>3 DEF GoodEngine, Exact
        <3>4. CASE e.where[b] \notin e.open
            <4>1. ~Hides(x, b) /\ ~Hides(e, b)
                BY <3>1, <3>2, <3>4 DEF Hides
            <4> QED BY <3>1, <4>1 DEF GoodEngine, Exact
        <3> QED BY <3>3, <3>4
    <2> QED BY <2>1, <2>2 DEF Exact
<1>16. x.root[g] # Nobody
    BY <1>9, <1>13
<1>17. ASSUME NEW h \in GroupId, e.root[h] # Nobody PROVE x.root[h] # Nobody
    BY <1>2, <1>6, <1>16, <1>17
<1>18. Rooted(x)
    <2>1. ASSUME NEW b \in Alarm, x.where[b] \in GroupId
          PROVE  x.root[x.where[b]] # Nobody
        <3>1. CASE b \in J
            BY <1>10, <1>16, <3>1
        <3>2. CASE b \notin J
            BY <1>11, <1>17, <2>1, <3>2 DEF GoodEngine, Rooted
        <3> QED BY <3>1, <3>2
    <2>2. ASSUME NEW h \in x.open PROVE x.root[h] # Nobody
        <3>1. CASE h = g
            BY <1>16, <3>1
        <3>2. CASE h # g
            <4>1. h \in e.open /\ h \in GroupId
                BY <1>2, <1>6, <3>2 DEF Engine
            <4> QED BY <1>17, <4>1 DEF GoodEngine, Rooted
        <3> QED BY <3>1, <3>2
    <2> QED BY <2>1, <2>2 DEF Rooted
<1>19. RootLive(e) => RootLive(x)
    <2>1. ASSUME RootLive(e), NEW h \in x.open, NEW b \in Members(x, h), b = x.root[h]
          PROVE  x.state[b] # "cleared"
        <3>1. CASE h = g
            <4>1. x.state[b] = Shown(f, x.root[g], b) /\ f.state[b] # "cleared"
                BY <1>6, <1>13, <2>1, <3>1 DEF Members
            <4> QED BY <4>1 DEF Shown, Restored
        <3>2. CASE h # g
            <4>1. h \in e.open /\ h \in GroupId
                BY <1>2, <1>6, <3>2 DEF Engine
            <4>2. b \in Members(e, h) /\ b = e.root[h] /\ b \notin Members(x, g)
                BY <1>2, <1>6, <1>12, <2>1, <3>2, <4>1 DEF Members
            <4>3. b \in Alarm /\ x.state[b] = e.state[b]
                BY <1>14, <4>2 DEF Members
            <4> QED BY <2>1, <4>1, <4>2, <4>3 DEF RootLive
        <3> QED BY <3>1, <3>2
    <2> QED BY <2>1 DEF RootLive
<1>20. Tracked(x) = Tracked(e) \cup {a}
    <2>1. ASSUME NEW b \in J, b # a PROVE b \in Tracked(e)
        BY <1>8, <1>9, <2>1 DEF Pending, Tracked
    <2>2. ASSUME NEW b \in J PROVE b \in Tracked(x)
        BY <1>8, <1>9, <1>10 DEF Tracked
    <2>3. ASSUME NEW b \in Alarm \ J PROVE b \in Tracked(x) <=> b \in Tracked(e)
        BY <1>11 DEF Tracked
    <2> QED BY <1>8, <2>1, <2>2, <2>3 DEF Tracked
<1>21. PICK eff : eff = GroupEffect(x, {g})
    OBVIOUS
<1>22. eff.eng = x /\ eff.groups = {g} /\ eff.alarms = Members(x, g)
    <2>1. \A b : b \in eff.alarms <=> b \in Members(x, g)
        BY <1>21, GroupEffectFields
    <2>2. eff.eng = x /\ eff.groups = {g}
        BY <1>21, GroupEffectFields
    <2> QED BY <2>1, <2>2
<1>23. Covers(e, x, {g}, Members(x, g))
    <2>1. \A h \in GroupId \ {g} : x.root[h] = e.root[h] /\ (h \in x.open <=> h \in e.open)
        BY <1>2, <1>6
    <2> QED BY <1>14, <2>1 DEF Covers
<1>24. Marked(x, {g}, Members(x, g))
    BY <1>16 DEF Marked, Members
<1>25. Members(x, g) \subseteq Tracked(x) /\ Members(x, g) \in SUBSET Alarm
    BY <1>9 DEF Members, Tracked
<1>26. SoundEffect(e, eff, {})
    BY <1>2, <1>6, <1>15, <1>17, <1>18, <1>19, <1>20, <1>22, <1>23, <1>24, <1>25
       DEF SoundEffect, Announced, GoodEngine
<1> QED BY <1>1, <1>3, <1>8, <1>10, <1>20, <1>21, <1>26

\* An ingested alarm is tracked from then on, and announced if it was not.
IngestSound(e, a, eff) ==
    /\ SoundEffect(e, eff, {})
    /\ Tracked(eff.eng) = Tracked(e) \cup {a}
    /\ a \notin Tracked(e) => a \in eff.alarms

Matching(e, a) == {g \in e.open : \E m \in Members(e, g) : {a, m} \in Related}
Peers(e, a) == {b \in Pending(e) : e.state[b] # "cleared" /\ {a, b} \in Related}
Latest(e, a) == CHOOSE g \in Matching(e, a) : \A h \in Matching(e, a) :
                    Max(Members(e, g)) >= Max(Members(e, h))

LEMMA IngestCases ==
    ASSUME NEW e, NEW a, NEW n
    PROVE  Ingest(e, a, n) =
               IF e.where[a] # Untracked THEN NoEffect(e)
               ELSE IF Matching(e, a) # {}
                    THEN GroupEffect(Grouped(Fresh(e, a), Latest(e, a), {a}),
                                     {Latest(e, a)})
               ELSE IF Peers(e, a) # {}
                    THEN GroupEffect(Grouped(Fresh(e, a), n, {a} \cup Peers(e, a)), {n})
               ELSE Effect([Fresh(e, a) EXCEPT !.where[a] = Ungrouped], {}, {a})
BY DEF Ingest, Matching, Peers, Latest, Fresh

LEMMA LatestMatches ==
    ASSUME NEW e \in Engine, NEW a, Matching(e, a) # {}
    PROVE  Latest(e, a) \in Matching(e, a) /\ Latest(e, a) \in GroupId
<1>1. Matching(e, a) \in SUBSET GroupId
      /\ \A g \in Matching(e, a) : Members(e, g) # {}
    BY DEF Matching, Engine
<1>2. \E g \in Matching(e, a) : \A h \in Matching(e, a) :
          Max(Members(e, g)) >= Max(Members(e, h))
    <2>1. PICK M \in SUBSET GroupId : M = Matching(e, a)
        BY <1>1
    <2>2. \E g \in M : \A h \in M : Max(Members(e, g)) >= Max(Members(e, h))
        BY <1>1, <2>1, LatestExists
    <2> QED BY <2>1, <2>2
<1> QED BY <1>1, <1>2 DEF Latest

\* An alarm nothing matches waits.
LEMMA WaitSound ==
    ASSUME NEW e, GoodEngine(e), NEW a \in Alarm, e.where[a] = Untracked
    PROVE  IngestSound(e, a,
               Effect([Fresh(e, a) EXCEPT !.where[a] = Ungrouped], {}, {a}))
<1>1. PICK f \in Engine : f = Fresh(e, a)
    BY FreshFacts
<1>2. /\ f.where = e.where /\ f.root = e.root /\ f.open = e.open
      /\ f.enabled = e.enabled /\ f.state = [e.state EXCEPT ![a] = "active"]
      /\ GoodEngine(f) /\ (RootLive(e) => RootLive(f))
    BY <1>1, FreshFacts
<1>3. PICK w : w = [f.where EXCEPT ![a] = Ungrouped]
    OBVIOUS
<1>4. /\ w \in [Alarm -> {Untracked, Ungrouped} \cup GroupId] /\ w[a] = Ungrouped
      /\ \A b \in Alarm : b # a => w[b] = f.where[b]
    BY <1>3 DEF Engine
<1>5. PICK x : x = [f EXCEPT !.where[a] = Ungrouped]
    OBVIOUS
<1>6. x = [where |-> w, state |-> f.state, root |-> f.root, open |-> f.open,
           enabled |-> f.enabled]
    <2>1. x = [f EXCEPT !.where = w]
        BY <1>3, <1>5
    <2> QED BY <2>1, SetField
<1>7. x \in Engine
    BY <1>4, <1>6 DEF Engine
<1>8. /\ Untracked \notin GroupId /\ Ungrouped \notin GroupId /\ Untracked # Ungrouped
    BY EngineAssumption DEF Untracked, Ungrouped
<1>9. ASSUME NEW g \in GroupId PROVE Members(x, g) = Members(f, g)
    BY <1>2, <1>4, <1>6, <1>8 DEF Members
<1>10. f.open \subseteq GroupId
    BY DEF Engine
<1>11. Exact(x)
    <2>1. ASSUME NEW b \in Alarm, b # a
          PROVE  x.state[b] = "suppressed" <=> Hides(x, b)
        <3>1. x.where[b] = f.where[b] /\ x.state[b] = f.state[b]
            BY <1>4, <1>6, <2>1
        <3>2. Hides(x, b) <=> Hides(f, b)
            BY <1>6, <1>9, <1>10, <3>1 DEF Hides
        <3> QED BY <1>2, <3>1, <3>2 DEF GoodEngine, Exact
    <2>2. ~Hides(x, a) /\ ~Hides(f, a) /\ x.state[a] = f.state[a]
        BY <1>2, <1>4, <1>6, <1>8, <1>10 DEF Hides
    <2> QED BY <1>2, <2>1, <2>2 DEF Exact, GoodEngine
<1>12. Rooted(x)
    BY <1>2, <1>4, <1>6, <1>8 DEF GoodEngine, Rooted
<1>13. RootLive(e) => RootLive(x)
    BY <1>2, <1>6, <1>9, <1>10 DEF RootLive
<1>14. Tracked(x) = Tracked(e) \cup {a} /\ a \notin Tracked(e)
    BY <1>2, <1>4, <1>6, <1>8 DEF Tracked
<1>15. PICK eff : eff = Effect(x, {}, {a})
    OBVIOUS
<1>16. eff.eng = x /\ eff.groups = {} /\ eff.alarms = {a}
    BY <1>15, EffectFields
<1>17. Covers(e, x, {}, {a})
    <2>1. ASSUME NEW b \in Alarm \ {a} PROVE x.where[b] = e.where[b] /\ x.state[b] = e.state[b]
        BY <1>2, <1>4, <1>6 DEF GoodEngine, Engine
    <2> QED BY <1>2, <1>6, <2>1 DEF Covers
<1>18. Marked(x, {}, {a})
    BY <1>4, <1>6, <1>8 DEF Marked
<1>19. SoundEffect(e, eff, {})
    BY <1>2, <1>6, <1>7, <1>11, <1>12, <1>13, <1>14, <1>16, <1>17, <1>18
       DEF SoundEffect, Announced, GoodEngine
<1>20. IngestSound(e, a, eff)
    BY <1>14, <1>16, <1>19 DEF IngestSound
<1> QED BY <1>1, <1>5, <1>15, <1>20

LEMMA IngestIsSound ==
    ASSUME NEW e, GoodEngine(e), NEW a \in Alarm, NEW n \in GroupId
    PROVE  IngestSound(e, a, Ingest(e, a, n))
<1>1. PICK eff : eff = Ingest(e, a, n)
    OBVIOUS
<1>2. e \in Engine
    BY DEF GoodEngine
<1>3. ASSUME NEW g \in GroupId, NEW as \in SUBSET Alarm, a \in as,
             as \ {a} \subseteq Pending(e), e.where[a] = Untracked
      PROVE  IngestSound(e, a, GroupEffect(Grouped(Fresh(e, a), g, as), {g}))
    <2>1. PICK x : x = Grouped(Fresh(e, a), g, as)
        OBVIOUS
    <2>2. /\ SoundEffect(e, GroupEffect(x, {g}), {})
          /\ Tracked(x) = Tracked(e) \cup {a} /\ a \in Members(x, g)
        <3>1. /\ SoundEffect(e, GroupEffect(Grouped(Fresh(e, a), g, as), {g}), {})
              /\ Tracked(Grouped(Fresh(e, a), g, as)) = Tracked(e) \cup {a}
              /\ a \in Members(Grouped(Fresh(e, a), g, as), g)
            BY <1>3, GroupedSound
        <3> QED BY <2>1, <3>1
    <2>3. GroupEffect(x, {g}).eng = x /\ a \in GroupEffect(x, {g}).alarms
        BY <2>2, GroupEffectFields
    <2>4. IngestSound(e, a, GroupEffect(x, {g}))
        BY <2>2, <2>3 DEF IngestSound
    <2> QED BY <2>1, <2>4
<1>4. CASE e.where[a] # Untracked
    <2>1. eff = NoEffect(e)
        BY <1>1, <1>4, IngestCases
    <2>2. eff.eng = e /\ a \in Tracked(e) /\ SoundEffect(e, eff, {})
        BY <1>4, <2>1, NoEffectFields, NoEffectSound DEF Tracked
    <2> QED BY <1>1, <2>2 DEF IngestSound
<1>5. CASE e.where[a] = Untracked /\ Matching(e, a) # {}
    <2>1. PICK g \in GroupId : g = Latest(e, a)
        BY <1>2, <1>5, LatestMatches
    <2>2. PICK as \in SUBSET Alarm : as = {a}
        OBVIOUS
    <2>3. eff = GroupEffect(Grouped(Fresh(e, a), g, as), {g})
        BY <1>1, <1>5, <2>1, <2>2, IngestCases
    <2> QED BY <1>1, <1>3, <1>5, <2>2, <2>3
<1>6. CASE e.where[a] = Untracked /\ Matching(e, a) = {} /\ Peers(e, a) # {}
    <2>1. PICK as \in SUBSET Alarm : as = {a} \cup Peers(e, a)
        BY DEF Peers, Pending
    <2>2. as \ {a} \subseteq Pending(e) /\ a \in as
        BY <2>1 DEF Peers
    <2>3. eff = GroupEffect(Grouped(Fresh(e, a), n, as), {n})
        BY <1>1, <1>6, <2>1, IngestCases
    <2> QED BY <1>1, <1>3, <1>6, <2>2, <2>3
<1>7. CASE e.where[a] = Untracked /\ Matching(e, a) = {} /\ Peers(e, a) = {}
    <2>1. eff = Effect([Fresh(e, a) EXCEPT !.where[a] = Ungrouped], {}, {a})
        BY <1>1, <1>7, IngestCases
    <2> QED BY <1>1, <1>7, <2>1, WaitSound
<1> QED BY <1>4, <1>5, <1>6, <1>7

\* Acknowledging or clearing one alarm, the group aside.
StateSetTo(e, a, s, x) ==
    /\ GoodEngine(x) /\ x.where = e.where /\ x.root = e.root /\ x.open = e.open
    /\ x.enabled = e.enabled
    /\ \A b \in Alarm : x.state[b] = IF b = a THEN s ELSE e.state[b]

LEMMA StateSetShape ==
    ASSUME NEW e, GoodEngine(e), NEW a \in Alarm, NEW s \in {"acknowledged", "cleared"}
    PROVE  StateSetTo(e, a, s, [e EXCEPT !.state[a] = s])
<1>1. e \in Engine
    BY DEF GoodEngine
<1>2. PICK t : t = [e.state EXCEPT ![a] = s]
    OBVIOUS
<1>3. t \in [Alarm -> AlarmState]
      /\ \A b \in Alarm : t[b] = IF b = a THEN s ELSE e.state[b]
    BY <1>1, <1>2 DEF Engine, AlarmState
<1>4. PICK x : x = [e EXCEPT !.state[a] = s]
    OBVIOUS
<1>5. x = [where |-> e.where, state |-> t, root |-> e.root, open |-> e.open,
           enabled |-> e.enabled]
    <2>1. x = [e EXCEPT !.state = t]
        BY <1>2, <1>4
    <2> QED BY <1>1, <2>1, SetField
<1>6. x \in Engine
    BY <1>1, <1>3, <1>5 DEF Engine
<1>7. \A g : Members(x, g) = Members(e, g)
    BY <1>5 DEF Members
<1>8. Exact(x)
    <2>1. ASSUME NEW b \in Alarm, b # a
          PROVE  x.state[b] = "suppressed" <=> Hides(x, b)
        <3>1. x.state[b] = e.state[b] /\ (Hides(x, b) <=> Hides(e, b))
            BY <1>3, <1>5, <1>7, <2>1 DEF Hides
        <3> QED BY <3>1 DEF GoodEngine, Exact
    <2>2. ~Hides(x, a) /\ x.state[a] # "suppressed"
        BY <1>3, <1>5 DEF Hides
    <2> QED BY <2>1, <2>2 DEF Exact
<1>9. Rooted(x)
    BY <1>5 DEF GoodEngine, Rooted
<1>10. StateSetTo(e, a, s, x)
    BY <1>3, <1>5, <1>6, <1>8, <1>9 DEF StateSetTo, GoodEngine
<1> QED BY <1>4, <1>10

\* closeGroup
ClosedTo(e, gs, x) ==
    /\ GoodEngine(x) /\ x.where = e.where /\ x.root = e.root
    /\ x.open = e.open \ gs /\ x.enabled = e.enabled
    /\ \A b \in Alarm : x.state[b] = IF e.where[b] \in gs THEN Restored(e.state[b])
                                     ELSE e.state[b]

LEMMA CloseShape ==
    ASSUME NEW e, GoodEngine(e), NEW gs \in SUBSET GroupId
    PROVE  ClosedTo(e, gs, CloseGroups(e, gs))
<1>1. e \in Engine
    BY DEF GoodEngine
<1>2. PICK t : t = [b \in Alarm |-> IF e.where[b] \in gs THEN Restored(e.state[b])
                                    ELSE e.state[b]]
    OBVIOUS
<1>3. t \in [Alarm -> AlarmState]
      /\ \A b \in Alarm : t[b] = IF e.where[b] \in gs THEN Restored(e.state[b])
                                 ELSE e.state[b]
    BY <1>1, <1>2 DEF Engine, AlarmState, Restored
<1>4. PICK x : x = CloseGroups(e, gs)
    OBVIOUS
<1>5. PICK o : o = e.open \ gs
    OBVIOUS
<1>6. x = [where |-> e.where, state |-> t, root |-> e.root, open |-> o,
           enabled |-> e.enabled]
    <2>1. x = [e EXCEPT !.open = o, !.state = t]
        BY <1>2, <1>4, <1>5 DEF CloseGroups
    <2> QED BY <1>1, <2>1, SetOpenState
<1>7. x \in Engine
    BY <1>1, <1>3, <1>5, <1>6 DEF Engine
<1>8. \A g : Members(x, g) = Members(e, g)
    BY <1>6 DEF Members
<1>9. Exact(x)
    <2>1. ASSUME NEW b \in Alarm, e.where[b] \notin gs
          PROVE  x.state[b] = "suppressed" <=> Hides(x, b)
        <3>1. x.state[b] = e.state[b] /\ (Hides(x, b) <=> Hides(e, b))
            BY <1>3, <1>5, <1>6, <1>8, <2>1 DEF Hides
        <3> QED BY <3>1 DEF GoodEngine, Exact
    <2>2. ASSUME NEW b \in Alarm, e.where[b] \in gs
          PROVE  ~Hides(x, b) /\ x.state[b] # "suppressed"
        BY <1>3, <1>5, <1>6, <2>2 DEF Hides, Restored
    <2> QED BY <2>1, <2>2 DEF Exact
<1>10. Rooted(x)
    BY <1>5, <1>6 DEF GoodEngine, Rooted
<1>11. ClosedTo(e, gs, x)
    BY <1>3, <1>5, <1>6, <1>7, <1>9, <1>10 DEF ClosedTo, GoodEngine
<1> QED BY <1>4, <1>11

\* An operation on one alarm of an existing group, or on one that waits.
LEMMA OneAlarmSound ==
    ASSUME NEW e, GoodEngine(e), NEW a \in Alarm, NEW x, GoodEngine(x),
           x.where = e.where, x.root = e.root, x.enabled = e.enabled,
           RootLive(e) => RootLive(x),
           \/ /\ e.where[a] = Ungrouped /\ x.open = e.open
              /\ \A b \in Alarm : b # a => x.state[b] = e.state[b]
           \/ /\ e.where[a] \in GroupId
              /\ \A g \in GroupId : g # e.where[a] => (g \in x.open <=> g \in e.open)
              /\ \A b \in Alarm : e.where[b] # e.where[a] => x.state[b] = e.state[b]
    PROVE  SoundEffect(e, IF e.where[a] = Ungrouped THEN Effect(x, {}, {a})
                          ELSE GroupEffect(x, {e.where[a]}), {})
<1>1. PICK g : g = e.where[a]
    OBVIOUS
<1>2. PICK eff : eff = IF g = Ungrouped THEN Effect(x, {}, {a}) ELSE GroupEffect(x, {g})
    OBVIOUS
<1>3. /\ Untracked \notin GroupId /\ Ungrouped \notin GroupId /\ Untracked # Ungrouped
    BY EngineAssumption DEF Untracked, Ungrouped
<1>4. Tracked(x) = Tracked(e)
    BY DEF Tracked
<1>5. e \in Engine /\ x \in Engine
    BY DEF GoodEngine
<1>6. CASE g = Ungrouped
    <2>1. eff.eng = x /\ eff.groups = {} /\ eff.alarms = {a}
        BY <1>2, <1>6, EffectFields
    <2>2. a \in Tracked(x)
        BY <1>1, <1>3, <1>6 DEF Tracked
    <2>3. x.open = e.open /\ \A b \in Alarm : b # a => x.state[b] = e.state[b]
        BY <1>1, <1>3, <1>6
    <2>4. Covers(e, x, {}, {a})
        BY <2>3 DEF Covers
    <2>5. Marked(x, {}, {a})
        BY <1>1, <1>3, <1>6 DEF Marked
    <2>6. SoundEffect(e, eff, {})
        BY <1>4, <2>1, <2>2, <2>4, <2>5 DEF SoundEffect, Announced
    <2> QED BY <1>1, <1>2, <2>6
<1>7. CASE g # Ungrouped
    <2>1. eff.eng = x /\ eff.groups = {g}
          /\ \A b : b \in eff.alarms <=> b \in Members(x, g)
        BY <1>2, <1>7, GroupEffectFields
    <2>2. eff.alarms = Members(x, g)
        BY <2>1
    <2>3. g \in GroupId
        BY <1>1, <1>7
    <2>4. Members(x, g) \subseteq Tracked(x) /\ Members(x, g) \in SUBSET Alarm
        BY <1>3, <2>3 DEF Members, Tracked
    <2>5. \A b \in Alarm : b \notin Members(x, g) => x.state[b] = e.state[b]
        BY <1>1, <1>3, <1>7, <2>3 DEF Members
    <2>6. \A h \in GroupId : h # g => (h \in x.open <=> h \in e.open)
        BY <1>1, <1>3, <1>7
    <2>7. Covers(e, x, {g}, Members(x, g))
        BY <2>5, <2>6 DEF Covers
    <2>8. x.root[g] # Nobody
        BY <1>1, <2>3 DEF GoodEngine, Rooted
    <2>9. Marked(x, {g}, Members(x, g))
        BY <2>8 DEF Marked, Members
    <2>10. SoundEffect(e, eff, {})
        BY <1>4, <2>1, <2>2, <2>3, <2>4, <2>7, <2>9 DEF SoundEffect, Announced
    <2> QED BY <1>1, <1>2, <2>10
<1> QED BY <1>6, <1>7

LEMMA AcknowledgeSound ==
    ASSUME NEW e, GoodEngine(e), NEW a \in Alarm
    PROVE  SoundEffect(e, AlarmAcknowledged(e, a), {})
<1>1. PICK x : x = [e EXCEPT !.state[a] = "acknowledged"]
    OBVIOUS
<1>2. StateSetTo(e, a, "acknowledged", x)
    BY <1>1, StateSetShape
<1>3. CASE e.where[a] = Untracked \/ e.state[a] \notin {"active", "suppressed"}
    <2>1. AlarmAcknowledged(e, a) = NoEffect(e)
        BY <1>3 DEF AlarmAcknowledged
    <2> QED BY <2>1, NoEffectSound
<1>4. CASE ~(e.where[a] = Untracked \/ e.state[a] \notin {"active", "suppressed"})
    <2>1. AlarmAcknowledged(e, a) =
              IF e.where[a] = Ungrouped THEN Effect(x, {}, {a})
              ELSE GroupEffect(x, {e.where[a]})
        BY <1>1, <1>4 DEF AlarmAcknowledged
    <2>2. RootLive(e) => RootLive(x)
        <3>1. \A g : Members(x, g) = Members(e, g)
            BY <1>2 DEF StateSetTo, Members
        <3>2. \A g : \A b \in Members(e, g) :
                  e.state[b] # "cleared" => x.state[b] # "cleared"
            BY <1>2 DEF StateSetTo, Members
        <3> QED BY <1>2, <3>1, <3>2 DEF RootLive, StateSetTo
    <2>3. e.where[a] = Ungrouped \/ e.where[a] \in GroupId
        BY <1>4 DEF GoodEngine, Engine
    <2>4. /\ GoodEngine(x) /\ x.where = e.where /\ x.root = e.root
          /\ x.enabled = e.enabled /\ x.open = e.open
          /\ \A b \in Alarm : b # a => x.state[b] = e.state[b]
        BY <1>2 DEF StateSetTo
    <2>5. SoundEffect(e, IF e.where[a] = Ungrouped THEN Effect(x, {}, {a})
                         ELSE GroupEffect(x, {e.where[a]}), {})
        BY <2>2, <2>3, <2>4, OneAlarmSound
    <2> QED BY <2>1, <2>5
<1> QED BY <1>3, <1>4

LEMMA ClearSound ==
    ASSUME NEW e, GoodEngine(e), NEW a \in Alarm
    PROVE  SoundEffect(e, AlarmCleared(e, a), {})
<1>1. PICK x : x = [e EXCEPT !.state[a] = "cleared"]
    OBVIOUS
<1>2. StateSetTo(e, a, "cleared", x)
    BY <1>1, StateSetShape
<1>3. PICK g : g = e.where[a]
    OBVIOUS
<1>4. PICK y : y = CloseGroups(x, {g})
    OBVIOUS
<1>5. g \in GroupId => ClosedTo(x, {g}, y)
    <2>1. GoodEngine(x)
        BY <1>2 DEF StateSetTo
    <2> QED BY <1>4, <2>1, CloseShape
<1>6. \A h : Members(x, h) = Members(e, h)
    BY <1>2 DEF StateSetTo, Members
<1>7. e \in Engine /\ Ungrouped \notin GroupId /\ e.open \subseteq GroupId
    BY EngineAssumption DEF GoodEngine, Ungrouped, Engine
<1>8. CASE g = Untracked \/ e.state[a] = "cleared"
    <2>1. AlarmCleared(e, a) = NoEffect(e)
        BY <1>3, <1>8 DEF AlarmCleared
    <2> QED BY <2>1, NoEffectSound
<1>9. CASE ~(g = Untracked \/ e.state[a] = "cleared") /\ g \in e.open /\ e.root[g] = a
    <2>1. g \in GroupId /\ g # Ungrouped
        BY <1>7, <1>9
    <2>2. AlarmCleared(e, a) = GroupEffect(y, {g})
        BY <1>1, <1>3, <1>4, <1>9, <2>1 DEF AlarmCleared
    <2>3. /\ GoodEngine(y) /\ y.where = e.where /\ y.root = e.root
          /\ y.enabled = e.enabled /\ y.open = e.open \ {g}
          /\ \A b \in Alarm : e.where[b] # g => y.state[b] = e.state[b]
        BY <1>2, <1>3, <1>5, <2>1 DEF StateSetTo, ClosedTo
    <2>4. RootLive(e) => RootLive(y)
        <3>1. ASSUME RootLive(e), NEW h \in y.open, NEW b \in Members(y, h), b = y.root[h]
              PROVE  y.state[b] # "cleared"
            <4>1. h \in e.open /\ h # g /\ b \in Members(e, h) /\ b = e.root[h]
                BY <2>3, <3>1 DEF Members
            <4>2. b \in Alarm /\ y.state[b] = e.state[b]
                BY <2>3, <4>1 DEF Members
            <4> QED BY <3>1, <4>1, <4>2 DEF RootLive
        <3> QED BY <3>1 DEF RootLive
    <2>5. SoundEffect(e, IF e.where[a] = Ungrouped THEN Effect(y, {}, {a})
                         ELSE GroupEffect(y, {e.where[a]}), {})
        BY <1>3, <2>1, <2>3, <2>4, OneAlarmSound
    <2> QED BY <1>3, <2>1, <2>2, <2>5
<1>10. CASE ~(g = Untracked \/ e.state[a] = "cleared") /\ ~(g \in e.open /\ e.root[g] = a)
    <2>1. AlarmCleared(e, a) =
              IF e.where[a] = Ungrouped THEN Effect(x, {}, {a})
              ELSE GroupEffect(x, {e.where[a]})
        BY <1>1, <1>3, <1>10 DEF AlarmCleared
    <2>2. RootLive(e) => RootLive(x)
        <3>1. ASSUME RootLive(e), NEW h \in e.open, NEW b \in Members(e, h), b = e.root[h]
              PROVE  x.state[b] # "cleared"
            <4>1. b # a
                BY <1>3, <1>10, <3>1 DEF Members
            <4>2. x.state[b] = e.state[b]
                BY <1>2, <4>1 DEF StateSetTo, Members
            <4> QED BY <3>1, <4>2 DEF RootLive
        <3> QED BY <1>2, <1>6, <3>1 DEF RootLive, StateSetTo
    <2>3. e.where[a] = Ungrouped \/ e.where[a] \in GroupId
        BY <1>3, <1>10 DEF GoodEngine, Engine
    <2>4. /\ GoodEngine(x) /\ x.where = e.where /\ x.root = e.root
          /\ x.enabled = e.enabled /\ x.open = e.open
          /\ \A b \in Alarm : b # a => x.state[b] = e.state[b]
        BY <1>2 DEF StateSetTo
    <2>5. SoundEffect(e, IF e.where[a] = Ungrouped THEN Effect(x, {}, {a})
                         ELSE GroupEffect(x, {e.where[a]}), {})
        BY <2>2, <2>3, <2>4, OneAlarmSound
    <2> QED BY <2>1, <2>5
<1> QED BY <1>8, <1>9, <1>10

\* sweep: only the pending alarms it forgets are no longer tracked.
LEMMA SweepSound ==
    ASSUME NEW e, GoodEngine(e), NEW idle \in SUBSET e.open,
           NEW old \in SUBSET Pending(e)
    PROVE  SoundEffect(e, Sweep(e, idle, old), old)
<1>1. e \in Engine /\ e.open \subseteq GroupId
    BY DEF GoodEngine, Engine
<1>2. PICK x : x = CloseGroups(e, idle)
    OBVIOUS
<1>3. ClosedTo(e, idle, x)
    BY <1>1, <1>2, CloseShape
<1>4. x \in Engine /\ Exact(x)
    BY <1>3 DEF ClosedTo, GoodEngine
<1>5. PICK w, t : /\ w = [a \in Alarm |-> IF a \in old THEN Untracked ELSE x.where[a]]
                  /\ t = [a \in Alarm |-> IF a \in old THEN "active" ELSE x.state[a]]
    OBVIOUS
<1>6. PICK y : y = [x EXCEPT !.where = w, !.state = t]
    OBVIOUS
<1>7. y = [where |-> w, state |-> t, root |-> x.root, open |-> x.open,
           enabled |-> x.enabled]
    BY <1>4, <1>6, SetWhereState
<1>8. PICK as : as = (UNION {Members(e, g) : g \in idle}) \cup old
    OBVIOUS
<1>9. PICK eff : eff = Effect(y, idle, as)
    OBVIOUS
<1>10. eff = Sweep(e, idle, old)
    BY <1>2, <1>5, <1>6, <1>8, <1>9 DEF Sweep
<1>11. eff.eng = y /\ eff.groups = idle /\ eff.alarms = as
    BY <1>9 DEF Effect
<1>12. /\ w \in [Alarm -> {Untracked, Ungrouped} \cup GroupId]
       /\ t \in [Alarm -> AlarmState]
       /\ \A a \in Alarm : w[a] = IF a \in old THEN Untracked ELSE e.where[a]
       /\ \A a \in Alarm : t[a] = IF a \in old THEN "active" ELSE x.state[a]
    BY <1>3, <1>4, <1>5 DEF Engine, AlarmState, ClosedTo
<1>13. y \in Engine
    BY <1>4, <1>7, <1>12 DEF Engine
<1>14. /\ Untracked \notin GroupId /\ Ungrouped \notin GroupId /\ Untracked # Ungrouped
    BY EngineAssumption DEF Untracked, Ungrouped
<1>15. old \subseteq Alarm /\ \A a \in old : e.where[a] = Ungrouped
    BY DEF Pending
<1>16. ASSUME NEW g \in GroupId PROVE Members(y, g) = Members(e, g)
    BY <1>7, <1>12, <1>14, <1>15 DEF Members
<1>17. \A g : Members(x, g) = Members(e, g)
    BY <1>3 DEF ClosedTo, Members
<1>18. /\ y.where = w /\ y.state = t /\ y.root = e.root /\ y.open = e.open \ idle
       /\ y.enabled = e.enabled /\ x.where = e.where /\ x.root = e.root
       /\ x.open = e.open \ idle /\ x.enabled = e.enabled
       /\ \A b \in Alarm : x.state[b] = IF e.where[b] \in idle THEN Restored(e.state[b])
                                        ELSE e.state[b]
    BY <1>3, <1>7 DEF ClosedTo
<1>19. Exact(y)
    <2>1. ASSUME NEW b \in Alarm, b \notin old
          PROVE  y.state[b] = "suppressed" <=> Hides(y, b)
        <3>1. y.where[b] = x.where[b] /\ y.state[b] = x.state[b]
            BY <1>12, <1>18, <2>1
        <3>2. Hides(y, b) <=> Hides(x, b)
            BY <1>1, <1>16, <1>17, <1>18, <3>1 DEF Hides
        <3> QED BY <1>4, <3>1, <3>2 DEF Exact
    <2>2. ASSUME NEW b \in old PROVE ~Hides(y, b) /\ y.state[b] # "suppressed"
        BY <1>1, <1>12, <1>14, <1>15, <1>18 DEF Hides
    <2> QED BY <2>1, <2>2 DEF Exact
<1>20. Rooted(y)
    BY <1>12, <1>14, <1>18 DEF GoodEngine, Rooted
<1>21. RootLive(e) => RootLive(y)
    <2>1. ASSUME RootLive(e), NEW h \in y.open, NEW b \in Members(y, h), b = y.root[h]
          PROVE  y.state[b] # "cleared"
        <3>1. h \in e.open /\ h \notin idle /\ h \in GroupId /\ b \in Members(e, h)
              /\ b = e.root[h]
            BY <1>1, <1>16, <1>18, <2>1
        <3>2. b \in Alarm /\ b \notin old /\ e.where[b] = h
            BY <1>14, <1>15, <3>1 DEF Members
        <3>3. y.state[b] = e.state[b]
            BY <1>12, <1>18, <3>1, <3>2
        <3> QED BY <2>1, <3>1, <3>3 DEF RootLive
    <2> QED BY <2>1 DEF RootLive
<1>22. \A a : a \in as <=> a \in old \/ \E g \in idle : a \in Members(e, g)
    <2>1. PICK M : M = {Members(e, g) : g \in idle}
        OBVIOUS
    <2>2. \A a : a \in UNION M <=> \E g \in idle : a \in Members(e, g)
        BY <2>1
    <2>3. as = (UNION M) \cup old
        BY <1>8, <2>1
    <2> QED BY <2>2, <2>3
<1>23. as \in SUBSET Alarm /\ Tracked(e) \ old \subseteq Tracked(y)
       /\ as \ old \subseteq Tracked(y)
    <2>1. as \in SUBSET Alarm
        BY <1>15, <1>22 DEF Members
    <2>2. Tracked(e) \ old \subseteq Tracked(y)
        BY <1>12, <1>18 DEF Tracked
    <2>3. ASSUME NEW a \in as, a \notin old PROVE a \in Tracked(e)
        BY <1>1, <1>14, <1>22, <2>3 DEF Members, Tracked
    <2> QED BY <2>1, <2>2, <2>3
<1>24. Covers(e, y, idle, as)
    <2>1. ASSUME NEW a \in Alarm \ as PROVE y.where[a] = e.where[a] /\ y.state[a] = e.state[a]
        <3>1. a \notin old /\ e.where[a] \notin idle
            BY <1>22 DEF Members
        <3> QED BY <1>12, <1>18, <3>1
    <2> QED BY <1>18, <2>1 DEF Covers
<1>25. Marked(y, idle, as)
    <2>1. \A g \in idle : y.root[g] # Nobody
        BY <1>18 DEF GoodEngine, Rooted
    <2>2. ASSUME NEW a \in as, y.where[a] \in GroupId PROVE y.where[a] \in idle
        <3>1. a \in Alarm /\ a \notin old
            BY <1>12, <1>14, <1>18, <1>23, <2>2
        <3>2. y.where[a] = e.where[a] /\ \E g \in idle : a \in Members(e, g)
            BY <1>12, <1>18, <1>22, <3>1
        <3> QED BY <3>2 DEF Members
    <2> QED BY <2>1, <2>2 DEF Marked
<1>26. SoundEffect(e, eff, old)
    BY <1>1, <1>11, <1>13, <1>18, <1>19, <1>20, <1>21, <1>23, <1>24, <1>25
       DEF SoundEffect, Announced, GoodEngine
<1> QED BY <1>10, <1>26

-----------------------------------------------------------------------------
(* The policy, and adopting rows *)

\* No alarm is hidden outside an open group.
Unhidden(e) == \A a \in Alarm : e.where[a] \notin e.open => e.state[a] # "suppressed"

\* The engine x after its policy was set, from an engine that may hide alarms its
\* policy does not ask for: exact, and otherwise the same.
PolicyTo(e, on, x) ==
    /\ GoodEngine(x) /\ x.enabled = on /\ Same(x, e)
    /\ RootLive(e) => RootLive(x)

LEMMA PolicyShape ==
    ASSUME NEW e \in Engine, Rooted(e), Unhidden(e), NEW on \in BOOLEAN
    PROVE  /\ PolicyTo(e, on, SetSuppressionPolicy(e, on).eng)
           /\ SetSuppressionPolicy(e, on).groups = e.open
           /\ SetSuppressionPolicy(e, on).alarms \in SUBSET Alarm
           /\ SetSuppressionPolicy(e, on).alarms \subseteq Tracked(e)
           /\ Marked(SetSuppressionPolicy(e, on).eng, e.open,
                     SetSuppressionPolicy(e, on).alarms)
<1> DEFINE hide(a) == /\ on /\ a # e.root[e.where[a]]
                      /\ e.root[e.where[a]] \in Members(e, e.where[a])
                      /\ a \notin Critical /\ e.state[a] \in {"active", "suppressed"}
<1>1. PICK s : s = [e EXCEPT !.enabled = on]
    OBVIOUS
<1>2. s = [where |-> e.where, state |-> e.state, root |-> e.root, open |-> e.open,
           enabled |-> on]
    BY <1>1, SetField
<1>3. s \in Engine
    BY <1>2 DEF Engine
<1>4. \A g : Members(s, g) = Members(e, g)
    BY <1>2 DEF Members
<1>5. ASSUME NEW a \in Alarm
      PROVE  ApplySuppression(s, e.where[a]).state[a] =
                 IF hide(a) THEN "suppressed" ELSE Restored(e.state[a])
    <2>1. PICK g : g = e.where[a]
        OBVIOUS
    <2>2. PICK t : t = [b \in Alarm |->
              IF b \notin Members(s, g) THEN s.state[b]
              ELSE IF /\ s.enabled /\ b # s.root[g] /\ s.root[g] \in Members(s, g)
                      /\ b \notin Critical /\ s.state[b] \in {"active", "suppressed"}
                   THEN "suppressed" ELSE Restored(s.state[b])]
        OBVIOUS
    <2>3. ApplySuppression(s, g) = [s EXCEPT !.state = t]
        BY <2>2 DEF ApplySuppression
    <2>4. ApplySuppression(s, g).state = t
        BY <1>3, <2>3, SetField
    <2>5. a \in Members(s, g)
        BY <1>2, <2>1 DEF Members
    <2>6. t[a] = IF hide(a) THEN "suppressed" ELSE Restored(e.state[a])
        BY <1>2, <1>4, <2>1, <2>2, <2>5
    <2> QED BY <2>1, <2>4, <2>6
<1>6. PICK t : t = [a \in Alarm |-> IF e.where[a] \in e.open
                                    THEN ApplySuppression(s, e.where[a]).state[a]
                                    ELSE s.state[a]]
    OBVIOUS
<1>7. PICK x : x = [s EXCEPT !.state = t]
    OBVIOUS
<1>8. PICK eff : eff = SetSuppressionPolicy(e, on)
    OBVIOUS
<1>9. eff = GroupEffect(x, e.open)
    BY <1>1, <1>6, <1>7, <1>8 DEF SetSuppressionPolicy
<1>10. \A a \in Alarm : t[a] = IF e.where[a] \in e.open
                               THEN IF hide(a) THEN "suppressed"
                                    ELSE Restored(e.state[a])
                               ELSE e.state[a]
    BY <1>2, <1>5, <1>6
<1>11. x = [where |-> e.where, state |-> t, root |-> e.root, open |-> e.open,
            enabled |-> on]
    <2>1. x = [where |-> s.where, state |-> t, root |-> s.root, open |-> s.open,
               enabled |-> s.enabled]
        BY <1>3, <1>7, SetField
    <2> QED BY <1>2, <2>1
<1>12. t \in [Alarm -> AlarmState]
    <2>1. ASSUME NEW a \in Alarm PROVE t[a] \in AlarmState
        BY <1>10 DEF Restored, AlarmState, Engine
    <2> QED BY <1>6, <2>1
<1>13. x \in Engine
    BY <1>11, <1>12 DEF Engine
<1>14. \A g : Members(x, g) = Members(e, g)
    BY <1>11 DEF Members
<1>15. Exact(x)
    <2>1. ASSUME NEW a \in Alarm PROVE x.state[a] = "suppressed" <=> Hides(x, a)
        <3>1. CASE e.where[a] \in e.open
            <4>1. x.state[a] = IF hide(a) THEN "suppressed" ELSE Restored(e.state[a])
                BY <1>10, <1>11, <3>1
            <4>2. x.state[a] = "suppressed" <=> hide(a)
                BY <4>1 DEF Restored
            <4>3. x.state[a] \in {"active", "suppressed"}
                      <=> e.state[a] \in {"active", "suppressed"}
                BY <4>1 DEF Restored
            <4>4. Hides(x, a) <=> hide(a)
                BY <1>11, <1>14, <3>1, <4>3 DEF Hides
            <4> QED BY <4>2, <4>4
        <3>2. CASE e.where[a] \notin e.open
            BY <1>10, <1>11, <3>2 DEF Hides, Unhidden
        <3> QED BY <3>1, <3>2
    <2> QED BY <2>1 DEF Exact
<1>16. Rooted(x)
    BY <1>11 DEF Rooted
<1>17. ASSUME NEW a \in Alarm PROVE Restored(x.state[a]) = Restored(e.state[a])
    BY <1>10, <1>11 DEF Restored
<1>18. Same(x, e)
    BY <1>11, <1>17 DEF Same
<1>19. RootLive(e) => RootLive(x)
    <2>1. ASSUME NEW a \in Alarm, e.state[a] # "cleared" PROVE x.state[a] # "cleared"
        BY <1>17, <2>1 DEF Restored
    <2> QED BY <1>11, <1>14, <2>1 DEF RootLive, Members
<1>20. PolicyTo(e, on, x)
    BY <1>11, <1>13, <1>15, <1>16, <1>18, <1>19 DEF PolicyTo, GoodEngine
<1>21. eff.eng = x /\ eff.groups = e.open
       /\ \A a : a \in eff.alarms <=> \E g \in e.open : a \in Members(x, g)
    BY <1>9, GroupEffectFields
<1>22. e.open \subseteq GroupId /\ Untracked \notin GroupId
    BY EngineAssumption DEF Engine, Untracked
<1>23. eff.alarms \in SUBSET Alarm /\ eff.alarms \subseteq Tracked(e)
    BY <1>14, <1>21, <1>22 DEF Members, Tracked
<1>24. Marked(x, e.open, eff.alarms)
    <2>1. \A a \in eff.alarms : x.where[a] \in e.open
        BY <1>21 DEF Members
    <2>2. \A g \in e.open : x.root[g] # Nobody
        BY <1>11 DEF Rooted
    <2> QED BY <2>1, <2>2 DEF Marked
<1> QED BY <1>8, <1>20, <1>21, <1>23, <1>24

\* Setting the policy announces every group whose alarms it may show or hide.
LEMMA PolicyAnnounced ==
    ASSUME NEW e, GoodEngine(e), NEW on \in BOOLEAN
    PROVE  /\ Announced(e, SetSuppressionPolicy(e, on), {})
           /\ PolicyTo(e, on, SetSuppressionPolicy(e, on).eng)
<1>1. e \in Engine /\ Rooted(e) /\ Unhidden(e)
    BY DEF GoodEngine, Exact, Hides, Unhidden
<1>2. PICK eff : eff = SetSuppressionPolicy(e, on)
    OBVIOUS
<1>3. /\ PolicyTo(e, on, eff.eng) /\ eff.groups = e.open
      /\ eff.alarms \in SUBSET Alarm /\ eff.alarms \subseteq Tracked(e)
      /\ Marked(eff.eng, e.open, eff.alarms)
    BY <1>1, <1>2, PolicyShape
<1>4. Same(eff.eng, e) /\ GoodEngine(eff.eng) /\ (RootLive(e) => RootLive(eff.eng))
    BY <1>3 DEF PolicyTo
<1>5. Tracked(eff.eng) = Tracked(e)
    BY <1>4 DEF Same, Tracked
<1>6. Covers(e, eff.eng, eff.groups, eff.alarms)
    BY <1>4 DEF Same, Covers
<1>7. eff.groups \in SUBSET GroupId
    BY <1>1, <1>3 DEF Engine
<1>8. Announced(e, eff, {})
    BY <1>3, <1>4, <1>5, <1>6, <1>7 DEF Announced, Same
<1> QED BY <1>2, <1>3, <1>8

LEMMA GoodIsUnhidden ==
    ASSUME NEW e, GoodEngine(e)
    PROVE  e \in Engine /\ Rooted(e) /\ Unhidden(e)
BY DEF GoodEngine, Exact, Hides, Unhidden

\* The engine x adopted from group rows and alarm rows.
HydratedTo(groups, alarms, x) ==
    /\ x \in Engine /\ Rooted(x) /\ Unhidden(x)
    /\ x.root = groups.root /\ x.open = groups.open
    /\ \A a \in Alarm : x.where[a] = IF /\ alarms.where[a] \in GroupId
                                        /\ groups.root[alarms.where[a]] = Nobody
                                     THEN Untracked ELSE alarms.where[a]
    /\ \A a \in Alarm : Restored(x.state[a]) = IF x.where[a] = Untracked THEN "active"
                                               ELSE Restored(alarms.state[a])

LEMMA HydrateShape ==
    ASSUME NEW groups, NEW alarms,
           groups.root \in [GroupId -> Alarm \cup {Nobody}],
           groups.open \in SUBSET GroupId,
           alarms.where \in [Alarm -> {Untracked, Ungrouped} \cup GroupId],
           alarms.state \in [Alarm -> AlarmState],
           \A g \in groups.open : groups.root[g] # Nobody
    PROVE  HydratedTo(groups, alarms, Hydrate(groups, alarms))
<1>1. PICK w : w = [a \in Alarm |-> IF /\ alarms.where[a] \in GroupId
                                       /\ groups.root[alarms.where[a]] = Nobody
                                    THEN Untracked ELSE alarms.where[a]]
    OBVIOUS
<1>2. PICK t : t = [a \in Alarm |->
                       IF w[a] = Untracked THEN "active"
                       ELSE IF w[a] \in groups.open THEN alarms.state[a]
                       ELSE Restored(alarms.state[a])]
    OBVIOUS
<1>3. PICK x : x = [where |-> w, root |-> groups.root, open |-> groups.open,
                    enabled |-> FALSE, state |-> t]
    OBVIOUS
<1>4. x = Hydrate(groups, alarms)
    BY <1>1, <1>2, <1>3 DEF Hydrate
<1>5. w \in [Alarm -> {Untracked, Ungrouped} \cup GroupId]
    BY <1>1
<1>6. t \in [Alarm -> AlarmState]
    BY <1>2 DEF Restored, AlarmState
<1>7. x \in Engine
    BY <1>3, <1>5, <1>6 DEF Engine
<1>8. Rooted(x)
    <2>1. Untracked \notin GroupId
        BY EngineAssumption DEF Untracked
    <2> QED BY <1>1, <1>3, <2>1 DEF Rooted
<1>9. Unhidden(x)
    BY <1>2, <1>3 DEF Unhidden, Restored
<1>10. \A a \in Alarm : Restored(x.state[a]) = IF x.where[a] = Untracked THEN "active"
                                               ELSE Restored(alarms.state[a])
    BY <1>2, <1>3 DEF Restored
<1>11. HydratedTo(groups, alarms, x)
    BY <1>1, <1>3, <1>7, <1>8, <1>9, <1>10 DEF HydratedTo
<1> QED BY <1>4, <1>11

-----------------------------------------------------------------------------
(* Engines that are the same stay the same *)

LEMMA SameBasics ==
    ASSUME NEW e, NEW f, Same(e, f)
    PROVE  /\ \A g : Members(e, g) = Members(f, g)
           /\ Pending(e) = Pending(f) /\ Tracked(e) = Tracked(f)
           /\ \A a \in Alarm : /\ e.state[a] = "cleared" <=> f.state[a] = "cleared"
                               /\ e.state[a] \in {"active", "suppressed"}
                                      <=> f.state[a] \in {"active", "suppressed"}
<1>1. /\ \A g : Members(e, g) = Members(f, g)
      /\ Pending(e) = Pending(f) /\ Tracked(e) = Tracked(f)
    BY DEF Same, Members, Pending, Tracked
<1>2. ASSUME NEW a \in Alarm
      PROVE  /\ e.state[a] = "cleared" <=> f.state[a] = "cleared"
             /\ e.state[a] \in {"active", "suppressed"}
                    <=> f.state[a] \in {"active", "suppressed"}
    <2>1. Restored(e.state[a]) = Restored(f.state[a])
        BY DEF Same
    <2> QED BY <2>1 DEF Restored
<1> QED BY <1>1, <1>2

LEMMA SameIsEquivalence ==
    ASSUME NEW e, NEW f, NEW h, Same(e, f)
    PROVE  Same(e, e) /\ Same(f, e) /\ (Same(f, h) => Same(e, h))
BY DEF Same

LatestIn(M, w) ==
    CHOOSE g \in M : \A h \in M : Max({a \in Alarm : w[a] = g})
                                      >= Max({a \in Alarm : w[a] = h})

LEMMA SameLatest ==
    ASSUME NEW e, NEW f, Same(e, f), NEW a
    PROVE  Matching(e, a) = Matching(f, a) /\ Latest(e, a) = Latest(f, a)
<1>1. Matching(e, a) = Matching(f, a)
    <2>1. \A g : Members(e, g) = Members(f, g)
        BY SameBasics
    <2>2. e.open = f.open
        BY DEF Same
    <2>3. \A g : g \in Matching(e, a) <=> g \in Matching(f, a)
        BY <2>1, <2>2, Zenon DEF Matching
    <2> QED BY <2>3 DEF Matching
<1>2. /\ Latest(e, a) = LatestIn(Matching(e, a), e.where)
      /\ Latest(f, a) = LatestIn(Matching(f, a), f.where)
    BY DEF Latest, LatestIn, Members
<1>3. e.where = f.where
    BY DEF Same
<1> QED BY <1>1, <1>2, <1>3

LEMMA SameJoiners ==
    ASSUME NEW e \in Engine, NEW f \in Engine, Same(e, f),
           NEW g \in GroupId, NEW as \in SUBSET Alarm
    PROVE  Joiners(e, g, as) = Joiners(f, g, as)
<1>1. PICK s, t : s = Seeded(e, g, as) /\ t = Seeded(f, g, as)
    OBVIOUS
<1>2. PICK w : w = [b \in Alarm |-> IF b \in as THEN g ELSE e.where[b]]
    OBVIOUS
<1>3. s = [e EXCEPT !.where = w] /\ t = [f EXCEPT !.where = w]
    BY <1>1, <1>2 DEF Seeded, Same
<1>4. s.where = w /\ s.state = e.state /\ t.where = w /\ t.state = f.state
    BY <1>3, SetField
<1>5. Members(s, g) = Members(t, g)
    BY <1>4 DEF Members
<1>6. {b \in Pending(s) : s.state[b] # "cleared"} = {b \in Pending(t) : t.state[b] # "cleared"}
    BY <1>4, SameBasics DEF Pending
<1>7. PICK C, M : C = {b \in Pending(s) : s.state[b] # "cleared"} /\ M = Members(s, g)
    OBVIOUS
<1> DEFINE A == {b \in C : \A S \in SUBSET C :
                    (\A d \in C \ S : \A m \in M \cup S : {d, m} \notin Related)
                        => b \in S}
<1>8. Admitted(s, g) = A
    BY <1>7 DEF Admitted
<1>9. Admitted(t, g) = A
    BY <1>5, <1>6, <1>7 DEF Admitted
<1> QED BY <1>1, <1>8, <1>9 DEF Joiners

LEMMA SameGrouped ==
    ASSUME NEW e \in Engine, NEW f \in Engine, Same(e, f),
           NEW g \in GroupId, NEW as \in SUBSET Alarm,
           \E m \in as : e.state[m] # "cleared"
    PROVE  Same(Grouped(e, g, as), Grouped(f, g, as))
<1>1. PICK x, y : x = Grouped(e, g, as) /\ y = Grouped(f, g, as)
    OBVIOUS
<1>2. \E m \in as : f.state[m] # "cleared"
    BY SameBasics
<1>3. GroupedTo(e, g, as, x) /\ GroupedTo(f, g, as, y)
    BY <1>1, <1>2, GroupedShape
<1>4. Joiners(e, g, as) = Joiners(f, g, as)
    BY SameJoiners
<1>5. x \in Engine /\ y \in Engine
    BY <1>3 DEF GroupedTo
<1>6. x.where = y.where
    <2>1. PICK J : J = Joiners(e, g, as) /\ J = Joiners(f, g, as)
        BY <1>4
    <2>2. /\ \A b \in Alarm : x.where[b] = IF b \in J THEN g ELSE e.where[b]
          /\ \A b \in Alarm : y.where[b] = IF b \in J THEN g ELSE f.where[b]
        BY <1>3, <2>1 DEF GroupedTo
    <2>3. e.where = f.where
        BY DEF Same
    <2>4. \A b \in Alarm : x.where[b] = y.where[b]
        BY <2>2, <2>3
    <2>5. /\ x.where \in [Alarm -> {Untracked, Ungrouped} \cup GroupId]
          /\ y.where \in [Alarm -> {Untracked, Ungrouped} \cup GroupId]
        BY <1>5 DEF Engine
    <2> QED BY <2>4, <2>5
<1>7. Eligible(e, x, g) = Eligible(f, y, g)
    BY <1>6, SameBasics DEF Eligible, Members
<1>8. x.root[g] = y.root[g]
    BY <1>3, <1>7 DEF GroupedTo
<1>9. x.root = y.root
    <2>1. \A h \in GroupId : x.root[h] = y.root[h]
        BY <1>3, <1>8 DEF GroupedTo, Same
    <2> QED BY <1>5, <2>1 DEF Engine
<1>10. x.open = y.open
    BY <1>3 DEF GroupedTo, Same
<1>11. ASSUME NEW a \in Alarm PROVE Restored(x.state[a]) = Restored(y.state[a])
    <2>1. Restored(x.state[a]) = Restored(e.state[a])
        BY <1>3 DEF GroupedTo, Shown, Restored
    <2>2. Restored(y.state[a]) = Restored(f.state[a])
        BY <1>3 DEF GroupedTo, Shown, Restored
    <2> QED BY <2>1, <2>2 DEF Same
<1> QED BY <1>1, <1>6, <1>9, <1>10, <1>11 DEF Same

LEMMA SameIngest ==
    ASSUME NEW e, NEW f, GoodEngine(e), GoodEngine(f), Same(e, f),
           NEW a \in Alarm, NEW n \in GroupId
    PROVE  Same(Ingest(e, a, n).eng, Ingest(f, a, n).eng)
<1>1. e.where[a] = f.where[a] /\ e \in Engine /\ f \in Engine
    BY DEF Same, GoodEngine
<1>2. Matching(e, a) = Matching(f, a) /\ Latest(e, a) = Latest(f, a)
    BY SameLatest
<1>3. Peers(e, a) = Peers(f, a)
    <2>1. Pending(e) = Pending(f) /\ Pending(e) \subseteq Alarm
          /\ \A b \in Alarm : e.state[b] = "cleared" <=> f.state[b] = "cleared"
        BY SameBasics DEF Pending
    <2>2. \A b : b \in Peers(e, a) <=> b \in Peers(f, a)
        BY <2>1, Zenon DEF Peers
    <2> QED BY <2>2 DEF Peers
<1>4. CASE e.where[a] # Untracked
    <2>1. Ingest(e, a, n) = NoEffect(e) /\ Ingest(f, a, n) = NoEffect(f)
        BY <1>1, <1>4, IngestCases
    <2> QED BY <2>1, NoEffectFields
<1>5. CASE e.where[a] = Untracked
    <2>1. PICK x, y : x = Fresh(e, a) /\ y = Fresh(f, a)
        OBVIOUS
    <2>2. /\ x \in Engine /\ x.where = e.where /\ x.root = e.root /\ x.open = e.open
          /\ x.state = [e.state EXCEPT ![a] = "active"]
        BY <1>5, <2>1, FreshFacts
    <2>3. /\ y \in Engine /\ y.where = f.where /\ y.root = f.root /\ y.open = f.open
          /\ y.state = [f.state EXCEPT ![a] = "active"]
        BY <1>1, <1>5, <2>1, FreshFacts
    <2>4. x.state[a] = "active" /\ \A b \in Alarm : b # a => x.state[b] = e.state[b]
        BY <1>1, <2>2 DEF Engine
    <2>5. y.state[a] = "active" /\ \A b \in Alarm : b # a => y.state[b] = f.state[b]
        BY <1>1, <2>3 DEF Engine
    <2>6. Same(x, y)
        <3>1. ASSUME NEW b \in Alarm PROVE Restored(x.state[b]) = Restored(y.state[b])
            BY <2>4, <2>5 DEF Same
        <3> QED BY <2>2, <2>3, <3>1 DEF Same
    <2>7. ASSUME NEW g \in GroupId, NEW as \in SUBSET Alarm, a \in as
          PROVE  Same(GroupEffect(Grouped(x, g, as), {g}).eng,
                      GroupEffect(Grouped(y, g, as), {g}).eng)
        <3>1. \E m \in as : x.state[m] # "cleared"
            BY <2>4, <2>7
        <3>2. Same(Grouped(x, g, as), Grouped(y, g, as))
            BY <2>2, <2>3, <2>6, <3>1, SameGrouped
        <3> QED BY <3>2, GroupEffectFields
    <2>8. CASE Matching(e, a) # {}
        <3>1. PICK g \in GroupId : g = Latest(e, a)
            BY <1>1, <2>8, LatestMatches
        <3>2. PICK as \in SUBSET Alarm : as = {a}
            OBVIOUS
        <3>3. Ingest(e, a, n) = GroupEffect(Grouped(x, g, as), {g})
            BY <1>5, <2>1, <2>8, <3>1, <3>2, IngestCases
        <3>4. Ingest(f, a, n) = GroupEffect(Grouped(y, g, as), {g})
            BY <1>1, <1>2, <1>5, <2>1, <2>8, <3>1, <3>2, IngestCases
        <3> QED BY <2>7, <3>2, <3>3, <3>4
    <2>9. CASE Matching(e, a) = {} /\ Peers(e, a) # {}
        <3>1. PICK as \in SUBSET Alarm : as = {a} \cup Peers(e, a)
            BY DEF Peers, Pending
        <3>2. Ingest(e, a, n) = GroupEffect(Grouped(x, n, as), {n})
            BY <1>5, <2>1, <2>9, <3>1, IngestCases
        <3>3. Ingest(f, a, n) = GroupEffect(Grouped(y, n, as), {n})
            BY <1>1, <1>2, <1>3, <1>5, <2>1, <2>9, <3>1, IngestCases
        <3> QED BY <2>7, <3>1, <3>2, <3>3
    <2>10. CASE Matching(e, a) = {} /\ Peers(e, a) = {}
        <3>1. PICK u, v : u = [x EXCEPT !.where[a] = Ungrouped]
                          /\ v = [y EXCEPT !.where[a] = Ungrouped]
            OBVIOUS
        <3>2. Ingest(e, a, n) = Effect(u, {}, {a})
            BY <1>5, <2>1, <2>10, <3>1, IngestCases
        <3>3. Ingest(f, a, n) = Effect(v, {}, {a})
            BY <1>1, <1>2, <1>3, <1>5, <2>1, <2>10, <3>1, IngestCases
        <3>4. PICK w : w = [x.where EXCEPT ![a] = Ungrouped]
            OBVIOUS
        <3>5. w = [y.where EXCEPT ![a] = Ungrouped]
            BY <2>6, <3>4 DEF Same
        <3>6. u = [x EXCEPT !.where = w] /\ v = [y EXCEPT !.where = w]
            BY <3>1, <3>4, <3>5
        <3>7. /\ u.where = w /\ u.state = x.state /\ u.root = x.root /\ u.open = x.open
              /\ v.where = w /\ v.state = y.state /\ v.root = y.root /\ v.open = y.open
            BY <2>2, <2>3, <3>6, SetField
        <3>8. Same(u, v)
            BY <2>6, <3>7 DEF Same
        <3>9. Ingest(e, a, n).eng = u /\ Ingest(f, a, n).eng = v
            BY <3>2, <3>3 DEF Effect
        <3> QED BY <3>8, <3>9
    <2> QED BY <2>8, <2>9, <2>10
<1> QED BY <1>4, <1>5

LEMMA SameAcknowledge ==
    ASSUME NEW e, NEW f, GoodEngine(e), GoodEngine(f), Same(e, f), NEW a \in Alarm
    PROVE  Same(AlarmAcknowledged(e, a).eng, AlarmAcknowledged(f, a).eng)
<1>1. PICK x, y : x = [e EXCEPT !.state[a] = "acknowledged"]
                  /\ y = [f EXCEPT !.state[a] = "acknowledged"]
    OBVIOUS
<1>2. StateSetTo(e, a, "acknowledged", x) /\ StateSetTo(f, a, "acknowledged", y)
    BY <1>1, StateSetShape
<1>3. Same(x, y)
    <2>1. ASSUME NEW b \in Alarm PROVE Restored(x.state[b]) = Restored(y.state[b])
        BY <1>2 DEF Same, StateSetTo
    <2> QED BY <1>2, <2>1 DEF Same, StateSetTo
<1>4. e.where[a] = f.where[a]
    BY DEF Same
<1>5. e.state[a] \in {"active", "suppressed"} <=> f.state[a] \in {"active", "suppressed"}
    BY SameBasics
<1>6. CASE e.where[a] = Untracked \/ e.state[a] \notin {"active", "suppressed"}
    <2>1. AlarmAcknowledged(e, a) = NoEffect(e) /\ AlarmAcknowledged(f, a) = NoEffect(f)
        BY <1>4, <1>5, <1>6 DEF AlarmAcknowledged
    <2> QED BY <2>1, NoEffectFields
<1>7. CASE ~(e.where[a] = Untracked \/ e.state[a] \notin {"active", "suppressed"})
    <2>1. AlarmAcknowledged(e, a).eng = x
        BY <1>1, <1>7 DEF AlarmAcknowledged, Effect, GroupEffect
    <2>2. AlarmAcknowledged(f, a).eng = y
        BY <1>1, <1>4, <1>5, <1>7 DEF AlarmAcknowledged, Effect, GroupEffect
    <2> QED BY <1>3, <2>1, <2>2
<1> QED BY <1>6, <1>7

LEMMA SameClear ==
    ASSUME NEW e, NEW f, GoodEngine(e), GoodEngine(f), Same(e, f), NEW a \in Alarm
    PROVE  Same(AlarmCleared(e, a).eng, AlarmCleared(f, a).eng)
<1>1. PICK x, y : x = [e EXCEPT !.state[a] = "cleared"]
                  /\ y = [f EXCEPT !.state[a] = "cleared"]
    OBVIOUS
<1>2. StateSetTo(e, a, "cleared", x) /\ StateSetTo(f, a, "cleared", y)
    BY <1>1, StateSetShape
<1>3. Same(x, y) /\ GoodEngine(x) /\ GoodEngine(y)
    <2>1. ASSUME NEW b \in Alarm PROVE Restored(x.state[b]) = Restored(y.state[b])
        BY <1>2 DEF Same, StateSetTo
    <2> QED BY <1>2, <2>1 DEF Same, StateSetTo
<1>4. PICK g : g = e.where[a]
    OBVIOUS
<1>5. f.where[a] = g /\ e.root = f.root /\ e.open = f.open
    BY <1>4 DEF Same
<1>6. e.state[a] = "cleared" <=> f.state[a] = "cleared"
    BY SameBasics
<1>7. CASE g = Untracked \/ e.state[a] = "cleared"
    <2>1. AlarmCleared(e, a) = NoEffect(e) /\ AlarmCleared(f, a) = NoEffect(f)
        BY <1>4, <1>5, <1>6, <1>7 DEF AlarmCleared
    <2> QED BY <2>1, NoEffectFields
<1>8. CASE ~(g = Untracked \/ e.state[a] = "cleared") /\ g # Ungrouped
           /\ g \in e.open /\ e.root[g] = a
    <2>1. PICK gs \in SUBSET GroupId : gs = {g}
        BY <1>8 DEF GoodEngine, Engine
    <2>2. PICK u, v : u = CloseGroups(x, gs) /\ v = CloseGroups(y, gs)
        OBVIOUS
    <2>3. ClosedTo(x, gs, u) /\ ClosedTo(y, gs, v)
        BY <1>3, <2>2, CloseShape
    <2>4. ASSUME NEW b \in Alarm PROVE Restored(u.state[b]) = Restored(v.state[b])
        BY <1>3, <2>3 DEF Same, ClosedTo, Restored
    <2>5. Same(u, v)
        BY <1>3, <2>3, <2>4 DEF Same, ClosedTo
    <2>6. AlarmCleared(e, a) = GroupEffect(u, {g})
        BY <1>1, <1>4, <1>8, <2>1, <2>2 DEF AlarmCleared
    <2>7. AlarmCleared(f, a) = GroupEffect(v, {g})
        BY <1>1, <1>5, <1>6, <1>8, <2>1, <2>2 DEF AlarmCleared
    <2> QED BY <2>5, <2>6, <2>7, GroupEffectFields
<1>9. CASE ~(g = Untracked \/ e.state[a] = "cleared")
           /\ ~(g # Ungrouped /\ g \in e.open /\ e.root[g] = a)
    <2>1. AlarmCleared(e, a).eng = x
        BY <1>1, <1>4, <1>9 DEF AlarmCleared, Effect, GroupEffect
    <2>2. AlarmCleared(f, a).eng = y
        BY <1>1, <1>5, <1>6, <1>9 DEF AlarmCleared, Effect, GroupEffect
    <2> QED BY <1>3, <2>1, <2>2
<1> QED BY <1>7, <1>8, <1>9

-----------------------------------------------------------------------------
(* Applying an operation twice changes nothing more *)

LEMMA IngestTwice ==
    ASSUME NEW e, NEW a \in Alarm, NEW n, a \in Tracked(e)
    PROVE  Ingest(e, a, n) = NoEffect(e)
BY IngestCases DEF Tracked

LEMMA AcknowledgeTwice ==
    ASSUME NEW e, GoodEngine(e), NEW a \in Alarm
    PROVE  AlarmAcknowledged(AlarmAcknowledged(e, a).eng, a)
               = NoEffect(AlarmAcknowledged(e, a).eng)
<1>1. PICK x : x = [e EXCEPT !.state[a] = "acknowledged"]
    OBVIOUS
<1>2. x.where = e.where /\ x.state[a] = "acknowledged"
    <2>1. StateSetTo(e, a, "acknowledged", x)
        BY <1>1, StateSetShape
    <2> QED BY <2>1 DEF StateSetTo
<1>3. CASE e.where[a] = Untracked \/ e.state[a] \notin {"active", "suppressed"}
    <2>1. AlarmAcknowledged(e, a) = NoEffect(e)
        BY <1>3 DEF AlarmAcknowledged
    <2> QED BY <2>1, NoEffectFields
<1>4. CASE ~(e.where[a] = Untracked \/ e.state[a] \notin {"active", "suppressed"})
    <2>1. AlarmAcknowledged(e, a).eng = x
        BY <1>1, <1>4 DEF AlarmAcknowledged, Effect, GroupEffect
    <2>2. AlarmAcknowledged(x, a) = NoEffect(x)
        BY <1>2 DEF AlarmAcknowledged
    <2> QED BY <2>1, <2>2
<1> QED BY <1>3, <1>4

LEMMA ClearTwice ==
    ASSUME NEW e, GoodEngine(e), NEW a \in Alarm
    PROVE  AlarmCleared(AlarmCleared(e, a).eng, a) = NoEffect(AlarmCleared(e, a).eng)
<1>1. PICK x : x = [e EXCEPT !.state[a] = "cleared"]
    OBVIOUS
<1>2. StateSetTo(e, a, "cleared", x)
    BY <1>1, StateSetShape
<1>3. PICK g : g = e.where[a]
    OBVIOUS
<1>4. PICK u : u = CloseGroups(x, {g})
    OBVIOUS
<1>5. CASE g = Untracked \/ e.state[a] = "cleared"
    <2>1. AlarmCleared(e, a) = NoEffect(e)
        BY <1>3, <1>5 DEF AlarmCleared
    <2> QED BY <2>1, NoEffectFields
<1>6. CASE ~(g = Untracked \/ e.state[a] = "cleared") /\ g # Ungrouped
           /\ g \in e.open /\ e.root[g] = a
    <2>1. g \in GroupId /\ GoodEngine(x)
        BY <1>2, <1>6 DEF GoodEngine, Engine, StateSetTo
    <2>2. ClosedTo(x, {g}, u)
        BY <1>4, <2>1, CloseShape
    <2>3. u.state[a] = "cleared"
        BY <1>2, <2>2 DEF ClosedTo, StateSetTo, Restored
    <2>4. AlarmCleared(e, a).eng = u
        BY <1>1, <1>3, <1>4, <1>6 DEF AlarmCleared, Effect, GroupEffect
    <2>5. AlarmCleared(u, a) = NoEffect(u)
        BY <2>3 DEF AlarmCleared
    <2> QED BY <2>4, <2>5
<1>7. CASE ~(g = Untracked \/ e.state[a] = "cleared")
           /\ ~(g # Ungrouped /\ g \in e.open /\ e.root[g] = a)
    <2>1. AlarmCleared(e, a).eng = x
        BY <1>1, <1>3, <1>7 DEF AlarmCleared, Effect, GroupEffect
    <2>2. x.state[a] = "cleared"
        BY <1>2 DEF StateSetTo
    <2>3. AlarmCleared(x, a) = NoEffect(x)
        BY <2>2 DEF AlarmCleared
    <2> QED BY <2>1, <2>3
<1> QED BY <1>5, <1>6, <1>7

LEMMA OneAlarmWhere ==
    ASSUME NEW e, GoodEngine(e), NEW a \in Alarm
    PROVE  AlarmAcknowledged(e, a).eng.where = e.where
           /\ AlarmCleared(e, a).eng.where = e.where
<1>1. PICK x, y : x = [e EXCEPT !.state[a] = "acknowledged"]
                  /\ y = [e EXCEPT !.state[a] = "cleared"]
    OBVIOUS
<1>2. StateSetTo(e, a, "acknowledged", x) /\ StateSetTo(e, a, "cleared", y)
    BY <1>1, StateSetShape
<1>3. x.where = e.where /\ y.where = e.where /\ GoodEngine(y) /\ y.open = e.open
    BY <1>2 DEF StateSetTo
<1>4. PICK g : g = e.where[a]
    OBVIOUS
<1>5. PICK u : u = CloseGroups(y, {g})
    OBVIOUS
<1>6. AlarmAcknowledged(e, a).eng \in {e, x}
    BY <1>1 DEF AlarmAcknowledged, Effect, GroupEffect, NoEffect
<1>7. AlarmCleared(e, a).eng \in {e, y} \/ (g \in e.open /\ AlarmCleared(e, a).eng = u)
    BY <1>1, <1>4, <1>5 DEF AlarmCleared, Effect, GroupEffect, NoEffect
<1>8. g \in e.open => u.where = e.where
    <2>1. g \in e.open => g \in GroupId
        BY DEF GoodEngine, Engine
    <2>2. g \in e.open => ClosedTo(y, {g}, u)
        BY <1>3, <1>5, <2>1, CloseShape
    <2> QED BY <1>3, <2>2 DEF ClosedTo
<1> QED BY <1>3, <1>6, <1>7, <1>8

\* A forgetting sweep tracks nothing it did not track.
LEMMA SweepTracked ==
    ASSUME NEW e, GoodEngine(e), NEW idle \in SUBSET e.open,
           NEW old \in SUBSET Pending(e)
    PROVE  Tracked(Sweep(e, idle, old).eng) \subseteq Tracked(e)
<1>1. PICK x : x = CloseGroups(e, idle)
    OBVIOUS
<1>2. idle \in SUBSET GroupId
    BY DEF GoodEngine, Engine
<1>3. x \in Engine /\ x.where = e.where
    BY <1>1, <1>2, CloseShape DEF ClosedTo, GoodEngine
<1>4. PICK w, t : /\ w = [a \in Alarm |-> IF a \in old THEN Untracked ELSE x.where[a]]
                  /\ t = [a \in Alarm |-> IF a \in old THEN "active" ELSE x.state[a]]
    OBVIOUS
<1>5. PICK y : y = [x EXCEPT !.where = w, !.state = t]
    OBVIOUS
<1>6. y.where = w
    BY <1>3, <1>5, SetWhereState
<1>7. Sweep(e, idle, old).eng = y
    BY <1>1, <1>4, <1>5, EffectFields DEF Sweep
<1> QED BY <1>3, <1>4, <1>6, <1>7 DEF Tracked

\* sweep, field by field.
SweptTo(e, idle, old, y) ==
    /\ y.root = e.root /\ y.open = e.open \ idle
    /\ y.where = [a \in Alarm |-> IF a \in old THEN Untracked ELSE e.where[a]]
    /\ \A a \in Alarm : y.state[a] = IF a \in old THEN "active"
                                     ELSE IF e.where[a] \in idle THEN Restored(e.state[a])
                                     ELSE e.state[a]

LEMMA SweepShape ==
    ASSUME NEW e, GoodEngine(e), NEW idle \in SUBSET e.open, NEW old
    PROVE  SweptTo(e, idle, old, Sweep(e, idle, old).eng)
<1>1. PICK x : x = CloseGroups(e, idle)
    OBVIOUS
<1>2. idle \in SUBSET GroupId
    BY DEF GoodEngine, Engine
<1>3. ClosedTo(e, idle, x) /\ x \in Engine
    BY <1>1, <1>2, CloseShape DEF ClosedTo, GoodEngine
<1>4. PICK w, t : /\ w = [a \in Alarm |-> IF a \in old THEN Untracked ELSE x.where[a]]
                  /\ t = [a \in Alarm |-> IF a \in old THEN "active" ELSE x.state[a]]
    OBVIOUS
<1>5. PICK y : y = [x EXCEPT !.where = w, !.state = t]
    OBVIOUS
<1>6. y.where = w /\ y.state = t /\ y.root = x.root /\ y.open = x.open
    BY <1>3, <1>5, SetWhereState
<1>7. Sweep(e, idle, old).eng = y
    BY <1>1, <1>4, <1>5, EffectFields DEF Sweep
<1>8. w = [a \in Alarm |-> IF a \in old THEN Untracked ELSE e.where[a]]
    BY <1>3, <1>4 DEF ClosedTo
<1>9. \A a \in Alarm : t[a] = IF a \in old THEN "active"
                              ELSE IF e.where[a] \in idle THEN Restored(e.state[a])
                              ELSE e.state[a]
    BY <1>3, <1>4 DEF ClosedTo
<1>10. y.root = e.root /\ y.open = e.open \ idle
    BY <1>3, <1>6 DEF ClosedTo
<1> QED BY <1>6, <1>7, <1>8, <1>9, <1>10 DEF SweptTo

\* A sweep decided alike on the same engines.
LEMMA SameSweep ==
    ASSUME NEW e, NEW f, GoodEngine(e), GoodEngine(f), Same(e, f),
           NEW idle \in SUBSET e.open, NEW old
    PROVE  Same(Sweep(e, idle, old).eng, Sweep(f, idle, old).eng)
<1>1. PICK x, y : x = Sweep(e, idle, old).eng /\ y = Sweep(f, idle, old).eng
    OBVIOUS
<1>2. e.where = f.where /\ e.root = f.root /\ e.open = f.open
      /\ \A a \in Alarm : Restored(e.state[a]) = Restored(f.state[a])
    BY DEF Same
<1>3. SweptTo(e, idle, old, x) /\ SweptTo(f, idle, old, y)
    BY <1>1, <1>2, SweepShape
<1>4. x.where = y.where /\ x.root = y.root /\ x.open = y.open
    BY <1>2, <1>3 DEF SweptTo
<1>5. ASSUME NEW a \in Alarm PROVE Restored(x.state[a]) = Restored(y.state[a])
    BY <1>2, <1>3 DEF SweptTo, Restored
<1> QED BY <1>1, <1>4, <1>5 DEF Same

\* A sweep that finds nothing idle and nothing old.
LEMMA SweepNothing ==
    ASSUME NEW e, GoodEngine(e)
    PROVE  Same(Sweep(e, {}, {}).eng, e)
<1>1. PICK x : x = Sweep(e, {}, {}).eng
    OBVIOUS
<1>2. SweptTo(e, {}, {}, x)
    BY <1>1, SweepShape
<1>3. x.root = e.root /\ x.open = e.open /\ \A a \in Alarm : x.state[a] = e.state[a]
    BY <1>2 DEF SweptTo
<1>4. x.where = e.where
    <2>1. x.where = [a \in Alarm |-> e.where[a]]
        BY <1>2 DEF SweptTo
    <2>2. e.where \in [Alarm -> {Untracked, Ungrouped} \cup GroupId]
        BY DEF GoodEngine, Engine
    <2> QED BY <2>1, <2>2
<1> QED BY <1>1, <1>3, <1>4 DEF Same

\* What was marked before an operation, with what it announces, is marked after.
LEMMA MarkedMore ==
    ASSUME NEW e, NEW eff, NEW old, NEW gs \in SUBSET GroupId, NEW as \in SUBSET Alarm,
           Marked(e, gs, as), Announced(e, eff, old)
    PROVE  Marked(eff.eng, gs \cup eff.groups, as \cup eff.alarms)
<1>1. ASSUME NEW g \in gs \cup eff.groups PROVE eff.eng.root[g] # Nobody
    BY DEF Marked, Announced
<1>2. ASSUME NEW a \in as \cup eff.alarms, eff.eng.where[a] \in GroupId
      PROVE  eff.eng.where[a] \in gs \cup eff.groups
    <2>1. CASE a \in eff.alarms
        BY <1>2, <2>1 DEF Marked, Announced
    <2>2. CASE a \notin eff.alarms
        <3>1. a \in Alarm \ eff.alarms /\ a \in as
            BY <2>2
        <3>2. eff.eng.where[a] = e.where[a]
            BY <3>1 DEF Announced, Covers
        <3> QED BY <1>2, <3>1, <3>2 DEF Marked
    <2> QED BY <2>1, <2>2
<1> QED BY <1>1, <1>2 DEF Marked

\* Two operations, one after the other.
LEMMA AnnouncedTwice ==
    ASSUME NEW e, NEW d, NEW l, Announced(e, d, {}), Announced(d.eng, l, {}),
           NEW eff, eff.eng = l.eng, eff.groups = d.groups \cup l.groups,
           eff.alarms = d.alarms \cup l.alarms
    PROVE  Announced(e, eff, {})
<1>1. d.groups \in SUBSET GroupId /\ d.alarms \in SUBSET Alarm
      /\ l.groups \in SUBSET GroupId /\ l.alarms \in SUBSET Alarm
      /\ GoodEngine(eff.eng) /\ Marked(d.eng, d.groups, d.alarms)
    BY DEF Announced
<1>2. Marked(eff.eng, eff.groups, eff.alarms)
    <2>1. Marked(l.eng, d.groups \cup l.groups, d.alarms \cup l.alarms)
        BY <1>1, MarkedMore
    <2> QED BY <2>1
<1>3. Tracked(e) \subseteq Tracked(d.eng) /\ Tracked(d.eng) \subseteq Tracked(l.eng)
      /\ d.alarms \subseteq Tracked(d.eng) /\ l.alarms \subseteq Tracked(l.eng)
    BY DEF Announced
<1>4. Covers(e, eff.eng, eff.groups, eff.alarms)
    BY DEF Announced, Covers
<1>5. \A g \in GroupId : e.root[g] # Nobody => eff.eng.root[g] # Nobody
    BY DEF Announced
<1>6. RootLive(e) => RootLive(eff.eng)
    BY DEF Announced
<1>7. eff.groups \in SUBSET GroupId /\ eff.alarms \in SUBSET Alarm
    BY <1>1
<1> QED BY <1>1, <1>2, <1>3, <1>4, <1>5, <1>6, <1>7 DEF Announced

=============================================================================
