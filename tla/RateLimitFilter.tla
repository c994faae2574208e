-------------------------- MODULE RateLimitFilter --------------------------
(***************************************************************************)
(* RateLimitFilter: of the values of one context and path those are passed *)
(* on that are more than an interval newer than the last one passed on.    *)
(***************************************************************************)
EXTENDS MappedProcess

CONSTANTS
  RateLimits,       \* interval per path, where one is configured
  DefaultInterval

ASSUME RateLimitAssumption ==
  /\ DOMAIN RateLimits \subseteq Paths
  /\ \A p \in DOMAIN RateLimits : RateLimits[p] \in Nat
  /\ DefaultInterval \in Nat

VARIABLES
  lastSeen,  \* per context and path: time of the last value passed on
  passed     \* history: the values passed on, in order

rateLimitVars == <<lastSeen, passed>>

Limiter == 3
Never == MaxTime + 1

RateLimitInit ==
  /\ lastSeen = [c \in Contexts |-> [p \in Paths |-> Never]]
  /\ passed = <<>>

Interval(p) == IF p \in DOMAIN RateLimits THEN RateLimits[p] ELSE DefaultInterval

(* Mutant: timestamp.Before(svm.Timestamp). *)
Passes_NoInterval(v) ==
  \/ lastSeen[v.context][v.path] = Never
  \/ lastSeen[v.context][v.path] < v.time

(* timestamp.Before(svm.Timestamp.Add(-interval)) *)
Passes(v) ==
  \/ lastSeen[v.context][v.path] = Never
  \/ lastSeen[v.context][v.path] + Interval(v.path) < v.time

PassValue ==
  /\ LET v == Head(todo[Limiter])
     IN  /\ NextValue(Limiter, <<v>>)
         /\ Passes(v)
         /\ lastSeen' = [lastSeen EXCEPT ![v.context][v.path] = v.time]
         /\ passed' = Append(passed, v)

(* Mutant: a dropped value restarts the interval. *)
DropValue_Restarts ==
  /\ NextValue(Limiter, <<>>)
  /\ ~Passes(Head(todo[Limiter]))
  /\ lastSeen' = [lastSeen EXCEPT ![Head(todo[Limiter]).context]
                                   [Head(todo[Limiter]).path] = Head(todo[Limiter]).time]
  /\ UNCHANGED passed

DropValue ==
  /\ NextValue(Limiter, <<>>)
  /\ ~Passes(Head(todo[Limiter]))
  /\ UNCHANGED rateLimitVars

PublishLimited ==
  /\ Publish(Limiter, result[Limiter])
  /\ UNCHANGED rateLimitVars

RateLimitNext == PassValue \/ DropValue \/ PublishLimited

-----------------------------------------------------------------------------
(* Properties. *)

SameSeries(v, w) == v.context = w.context /\ v.path = w.path

(* Whatever order values arrive in, those passed on of one context and     *)
(* path are in the order of time and more than the interval apart.         *)
Spaced ==
  \A i, j \in 1 .. Len(passed) :
    i < j /\ SameSeries(passed[i], passed[j])
      => passed[i].time + Interval(passed[i].path) < passed[j].time

(* Every value is passed on or has one that was passed on before it, and   *)
(* is at most the interval older.  A value older than one passed on is     *)
(* dropped, however far apart they are: one wrong timestamp in the future  *)
(* silences its path until then.                                           *)
Represented ==
  \A i \in 1 .. Len(looked[Limiter]) :
    LET v == looked[Limiter][i].value
    IN  \E j \in 1 .. i :
          LET w == looked[Limiter][j].value
          IN  /\ w \in Range(passed) /\ SameSeries(v, w)
              /\ v.time <= w.time + Interval(v.path)

=============================================================================
