---------------------------- MODULE QuotaForecast ----------------------------
(***************************************************************************)
(* The forecast of an account's quota (manager/quota_forecast.py), the     *)
(* summary that gates a launch (manager/quota_reader.py) and the choice    *)
(* among Claude accounts (manager/claude_account_selector.py), over what   *)
(* was collected while quota was used and windows were reset.              *)
(*                                                                         *)
(* A snapshot has the numbers of some windows.  Of those since a window's  *)
(* last reset the forecast takes the rate of use, and from the rate what   *)
(* will be left at the next reset.                                         *)
(***************************************************************************)
EXTENDS Integers, Sequences, FiniteSets, FiniteSetsExt

CONSTANTS
    Accounts,      \* numbers, in the order of the accounts' ids
    Official(_),   \* the account's numbers are of an official source
    Credits(_),    \* the provider reports extra credits
    Windows,       \* sequence of the windows, the preferred one first
    Length(_),     \* of a window, in hours
    Levels,        \* what can remain of a window, in percent
    Start,         \* what may remain at the start
    Draw,          \* what an hour of use takes of every window
    Shapes,        \* what a source reports: of which windows, with which numbers, when they are reset
    MaxAge,        \* hours after which a snapshot is stale
    MaxNow,        \* bound of the model: the clock
    Repeats,       \* bound of the model: a source may be read twice in an hour
    MaxSnapshots,  \* bound of the model: snapshots of an account
    Unknown        \* a number that was not reported

VARIABLES
    now,
    left,          \* what remains of each window of each account
    reset,         \* when it is reset next
    cycle,         \* how often it has been reset, for BurnOfOneCycle
    snapshots      \* what was collected, in order

quotavars == <<now, left, reset, cycle, snapshots>>

WindowSet == {Windows[i] : i \in DOMAIN Windows}

Init ==
    /\ now = 0
    /\ left \in [Accounts -> [WindowSet -> Start]]
    /\ reset = [a \in Accounts |-> [w \in WindowSet |-> Length(w)]]
    /\ cycle = [a \in Accounts |-> [w \in WindowSet |-> 0]]
    /\ snapshots = [a \in Accounts |-> <<>>]

Item(a) == snapshots[a][Len(snapshots[a])]

Known(a) == snapshots[a] # <<>>

-----------------------------------------------------------------------------
(* calculate_window_burn_rate                                              *)

\* The snapshots that have a number for the window; of one time only the last.
Points(a, w) ==
    LET history == snapshots[a]
        HasNumber(i) == w \in DOMAIN history[i].rem /\ history[i].rem[w] # Unknown
        kept == {i \in DOMAIN history : /\ HasNumber(i)
                                        /\ ~\E j \in DOMAIN history : j > i /\ HasNumber(j)
                                                                      /\ history[j].at = history[i].at}
    IN [n \in 1 .. Cardinality(kept) |->
           history[CHOOSE i \in kept : Cardinality({j \in kept : j <= i}) = n]]

\* Mutant: a reset is only seen by what remains.
BoundaryMutant(p, q, w) == q.rem[w] > p.rem[w]

\* Between two snapshots the window was reset, or quota was given back.
Boundary(p, q, w) ==
    \/ q.rem[w] > p.rem[w]
    \/ p.resets[w] # Unknown /\ q.resets[w] # Unknown /\ p.resets[w] # q.resets[w]
    \/ p.resets[w] # Unknown /\ q.at > p.resets[w]

LastCycle(points, w) ==
    LET last == {i \in 1 .. Len(points) - 1 : Boundary(points[i], points[i + 1], w)}
    IN SubSeq(points, IF last = {} THEN 1 ELSE Max(last) + 1, Len(points))

Active(a, w) == LastCycle(Points(a, w), w)

NoRate == [used |-> 0, hours |-> 0]

RateOver(active, w) ==
    LET first == active[1]
        final == active[Len(active)]
    IN IF Len(active) < 2 THEN NoRate
       ELSE [used |-> first.rem[w] - final.rem[w], hours |-> final.at - first.at]

BurnRate(a, w) == RateOver(Active(a, w), w)

-----------------------------------------------------------------------------
(* forecast_window: what is said of one window.                            *)

Stale(a) == now - Item(a).at > MaxAge

Rem(a, w) == Item(a).rem[w]

HoursToReset(a, w) ==
    IF Rem(a, w) = Unknown \/ Item(a).resets[w] = Unknown THEN Unknown ELSE Item(a).resets[w] - now

\* No forecast is made without the time of the reset, after it, or without a rate.
Blind(rate, hours) == hours = Unknown \/ hours <= 0 \/ rate = NoRate

RunsDry(rate, rem, hours) == rate.used > 0 /\ rem * rate.hours < rate.used * hours

\* What is left at the reset is more than a number of percent.
MoreLeftThan(percent, rate, rem, hours) == rem * rate.hours - rate.used * hours > percent * rate.hours

Advice(rate, rem, hours) ==
    CASE Blind(rate, hours) -> "hold"
      [] ~Blind(rate, hours) /\ rem = 0 -> "exhausted"
      [] ~Blind(rate, hours) /\ rem # 0 /\ RunsDry(rate, rem, hours) -> "conserve"
      [] OTHER -> IF hours <= 2 /\ MoreLeftThan(10, rate, rem, hours) THEN "urgent_consume"
                  ELSE IF MoreLeftThan(10, rate, rem, hours) THEN "suggest_consume" ELSE "normal_use"

\* Nor is one made from old numbers.
Action(a, w) ==
    IF Stale(a) THEN "hold" ELSE Advice(BurnRate(a, w), Rem(a, w), HoursToReset(a, w))

-----------------------------------------------------------------------------
(* forecast_account and score_account_forecast                             *)

Reported(a) == DOMAIN Item(a).rem

Primary(a) ==
    Windows[Min({i \in DOMAIN Windows : Windows[i] \in Reported(a)})]

Reliable(a) ==
    ~Stale(a) /\ Official(a) /\ \E w \in Reported(a) : Rem(a, w) # Unknown

Exhausted(a) == \E w \in Reported(a) : Rem(a, w) = 0

\* Any window that is exhausted, or will run dry, has its way over the preferred one.
Overall(a) ==
    IF Exhausted(a) /\ Reliable(a) /\ Credits(a) THEN "credits"
    ELSE IF Exhausted(a) THEN "exhausted"
    ELSE IF \E w \in Reported(a) : Action(a, w) = "conserve" THEN "conserve"
    ELSE Action(a, Primary(a))

Dispatchable(a) ==
    /\ Reliable(a)
    /\ \/ Rem(a, Primary(a)) # Unknown /\ Rem(a, Primary(a)) > 0 /\ ~Exhausted(a)
       \/ Overall(a) = "credits"

Tier(overall) ==
    CASE overall = "urgent_consume" -> 4
      [] overall = "suggest_consume" -> 3
      [] overall = "conserve" -> 1
      [] OTHER -> 2

Urgency(tier, hours) ==
    IF tier >= 2 /\ hours # Unknown /\ hours > 0 /\ hours < 24 THEN 24 - hours ELSE 0

PrimaryLeft(a) == IF Rem(a, Primary(a)) = Unknown THEN 0 ELSE Rem(a, Primary(a))

Score(a) ==
    LET ScoreOf(tier) == <<tier, PrimaryLeft(a), Urgency(tier, HoursToReset(a, Primary(a))), a>>
    IN ScoreOf(Tier(Overall(a)))

\* Of two scores the first number that differs decides; ids are the last to count, and differ.
Above(s, t) ==
    \E i \in DOMAIN s : s[i] > t[i] /\ \A j \in 1 .. i - 1 : s[j] = t[j]

Better(a, b) == Above(Score(a), Score(b))

-----------------------------------------------------------------------------
(* select_claude_account                                                   *)

Candidates(ready) == {a \in ready : Known(a) /\ Official(a) /\ ~Stale(a)}

\* The accounts that the automatic choice may return: the best of those that can be dispatched
\* to, or the only candidate when no window of it was ever reported.
Chosen(ready) ==
    LET candidates == Candidates(ready)
        eligible == {a \in candidates : Reported(a) # {} /\ Dispatchable(a)}
    IN IF Cardinality(candidates) = 1 /\ \A a \in candidates : Reported(a) = {} THEN candidates
       ELSE {a \in eligible : \A b \in eligible \ {a} : ~Better(b, a)}

\* quota_reader: what a launch is gated by.
Usable(a) == Reliable(a) /\ ~Exhausted(a)

-----------------------------------------------------------------------------
(* What happens to the quota, and is collected of it.                      *)

\* A source may leave out windows, numbers and the times of resets.
Collect(a) ==
    /\ Len(snapshots[a]) < MaxSnapshots
    /\ IF Repeats \/ ~Known(a) THEN TRUE ELSE Item(a).at < now
    /\ \E shape \in Shapes :
         snapshots' = [snapshots EXCEPT ![a] = Append(@,
             [at     |-> now,
              rem    |-> [w \in shape.windows |-> IF w \in shape.numbers THEN left[a][w] ELSE Unknown],
              resets |-> [w \in shape.windows |-> IF shape.times THEN reset[a][w] ELSE Unknown],
              cycles |-> [w \in shape.windows |-> cycle[a][w]]])]
    /\ UNCHANGED <<now, left, reset, cycle>>

\* In an hour some accounts are used, if they can be, and the windows whose time has come are reset.
Hour ==
    /\ now < MaxNow /\ now' = now + 1
    /\ LET due == [a \in Accounts |-> {w \in WindowSet : reset[a][w] <= now'}]
       IN /\ \E used \in SUBSET {a \in Accounts : \A w \in WindowSet : left[a][w] > 0} :
               left' = [a \in Accounts |-> [w \in WindowSet |->
                          CASE w \in due[a] -> 100
                            [] w \notin due[a] /\ a \in used -> Max({0, left[a][w] - Draw})
                            [] OTHER -> left[a][w]]]
          /\ reset' = [a \in Accounts |-> [w \in WindowSet |->
                          IF w \in due[a] THEN now' + Length(w) ELSE reset[a][w]]]
          /\ cycle' = [a \in Accounts |-> [w \in WindowSet |->
                          IF w \in due[a] THEN cycle[a][w] + 1 ELSE cycle[a][w]]]
    /\ UNCHANGED snapshots

Next == Hour \/ \E a \in Accounts : Collect(a)

Spec == Init /\ [][Next]_quotavars

-----------------------------------------------------------------------------

TypeOK ==
    /\ now \in 0 .. MaxNow
    /\ left \in [Accounts -> [WindowSet -> Levels]]
    /\ \A a \in Accounts : Len(snapshots[a]) <= MaxSnapshots

(* The rate of a window is taken over one of its cycles: as long as the      *)
(* times of the resets are reported, no two snapshots that it spans have a   *)
(* reset between them, whatever was used before and after it                 *)
(* (quota_forecast.py:184-190).                                              *)
BurnOfOneCycle ==
    \A a \in Accounts : \A w \in WindowSet :
        LET active == Active(a, w)
        IN (\A i \in DOMAIN active : active[i].resets[w] # Unknown) =>
               \A i, j \in DOMAIN active : active[i].cycles[w] = active[j].cycles[w]

(* The account that is chosen without being named can be launched: it is     *)
(* logged in, its numbers are official and of the last hour, and a launch    *)
(* that looks at the summary, not at the forecast, finds no window of it     *)
(* exhausted, but for one that has credits or of which nothing is known.     *)
ChosenCanBeLaunched ==
    \A ready \in SUBSET Accounts : \A a \in Chosen(ready) :
        /\ a \in ready /\ Official(a) /\ now - Item(a).at <= MaxAge
        /\ Usable(a) \/ Credits(a) \/ (Reported(a) = {} /\ Candidates(ready) = {a})

(* At most one account is chosen, so that the order in which the registry    *)
(* lists them decides nothing.                                               *)
ChoiceIsOne == \A ready \in SUBSET Accounts : Cardinality(Chosen(ready)) <= 1

(* An account that must pay with its own quota is chosen although one of its *)
(* windows is going to run dry only if that is so of every account that      *)
(* could be chosen instead.                                                  *)
DryOnesLast ==
    LET Dry(a) == Overall(a) # "credits" /\ \E w \in Reported(a) : Action(a, w) = "conserve"
    IN \A ready \in SUBSET Accounts : \A a \in Chosen(ready) :
           (Reported(a) # {} /\ Dry(a)) =>
               \A b \in Candidates(ready) : (Reported(b) # {} /\ Dispatchable(b)) => Dry(b)
=============================================================================
