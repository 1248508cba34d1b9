---------------------------- MODULE SessionTiming ----------------------------
(***************************************************************************)
(* From a session's records to its timing, and from timings to hours       *)
(* (src/mybench/normalizer/session_timing.py, scorer/agent_hours.py).      *)
(*                                                                         *)
(* A session is [source, started, ended, records]: started and ended are   *)
(* the hook's observations or None, in order if both are there, as         *)
(* _check_input_sessions sees to; records is the sequence of the admitted  *)
(* records, each with                                                      *)
(*   attribution "subject" or "unknown"                                    *)
(*   marker      "open", "close", "plain", or "malformed" (not JSON)       *)
(*   at          its timestamp, or None                                    *)
(* Timestamps are canonical, so that they compare as numbers do.           *)
(***************************************************************************)
EXTENDS Integers, FiniteSets, FiniteSetsExt, SequencesExt

CONSTANTS None, IdleGap

(* Only the subject's own records are evidence of time. *)
Decoded(s) == {i \in DOMAIN s.records : s.records[i].attribution = "subject"}

Dated(s) == {i \in DOMAIN s.records : /\ s.records[i].marker # "malformed"
                                      /\ s.records[i].at # None}

Marked(s, marker) == {i \in Decoded(s) : s.records[i].marker = marker}

First(S) == CHOOSE i \in S : \A j \in S : i <= j
Final(S) == CHOOSE i \in S : \A j \in S : j <= i

(* A Claude transcript states its boundaries; a Codex rollout's are        *)
(* inferred from records that are written for another purpose.             *)
MarkerStatus(s) == IF s.source = "codex" THEN "scan-inferred" ELSE "observed"

(* The open boundary: the hook's word before the transcript's.  index is   *)
(* where the marker stands even when it has no date.                       *)
Opened(s) ==
    LET marks == Marked(s, "open")
        index == IF marks = {} THEN None ELSE First(marks)
    IN  CASE s.started # None ->
               [at |-> s.started, status |-> "observed", index |-> None]
          [] s.started = None /\ marks # {} /\ First(marks) \in Dated(s) ->
               [at |-> s.records[First(marks)].at, status |-> MarkerStatus(s),
                index |-> index]
          [] OTHER -> [at |-> None, status |-> "unknown", index |-> index]

Closed(s) ==
    LET marks == Marked(s, "close")
        index == IF marks = {} THEN None ELSE Final(marks)
    IN  CASE s.ended # None ->
               [at |-> s.ended, status |-> "observed", index |-> None]
          [] s.ended = None /\ marks # {} /\ Final(marks) \in Dated(s) ->
               [at |-> s.records[Final(marks)].at, status |-> MarkerStatus(s),
                index |-> index]
          [] OTHER -> [at |-> None, status |-> "unknown", index |-> index]

(* Mutant: the order of the boundaries is not looked at. *)
InAnyOrder(s) == [open |-> Opened(s), close |-> Closed(s)]

(* A close before the open is no close, but still ends the records. *)
Boundaries(s) ==
    LET open  == Opened(s)
        close == Closed(s)
        reversed == /\ open.at # None
                    /\ close.at # None
                    /\ open.at > close.at
    IN  [open  |-> open,
         close |-> IF reversed
                     THEN [close EXCEPT !.at = None, !.status = "unknown"]
                     ELSE close]

Eligible(s, b) ==
    {i \in Decoded(s) : /\ b.open.index # None => b.open.index <= i
                        /\ b.close.index # None => i <= b.close.index}

(* The eligible records whose date lies within the boundaries. *)
Counted(s, b) ==
    {i \in Eligible(s, b) \cap Dated(s) :
        /\ b.open.at # None => b.open.at <= s.records[i].at
        /\ b.close.at # None => s.records[i].at <= b.close.at}

Timing(s) ==
    LET b == Boundaries(s)
        eligible == Eligible(s, b)
        counted  == Counted(s, b)
    IN  [open     |-> b.open.status,
         close    |-> b.close.status,
         openedAt |-> b.open.at,
         closedAt |-> b.close.at,
         observed |-> {s.records[i].at : i \in counted},
         coverage |-> CASE eligible = {} -> "unknown"
                        [] eligible # {} /\ counted = eligible -> "complete"
                        [] OTHER -> "partial"]

(* What SessionTiming's constructor asks of its fields. *)
Constructible(t) ==
    /\ t.openedAt = None <=> t.open = "unknown"
    /\ t.closedAt = None <=> t.close = "unknown"
    /\ t.openedAt # None /\ t.closedAt # None => t.openedAt <= t.closedAt
    /\ t.coverage = "unknown" => t.observed = {}

-----------------------------------------------------------------------------
(* Hours: what score_agent_hours adds up. *)

BoundaryKnown(t) == t.openedAt # None /\ t.closedAt # None

ActiveKnown(t) == BoundaryKnown(t) /\ t.coverage = "complete"

WallClock(t) == t.closedAt - t.openedAt

(* The sum of the gaps between neighbours in time, without the idle ones. *)
ActiveDuration(t) ==
    LET points == {t.openedAt, t.closedAt} \cup t.observed
        earlier == {p \in points : \E q \in points : p < q}
        gap(p) == First({q \in points : p < q}) - p
        Gap(p) == IF gap(p) <= IdleGap THEN gap(p) ELSE 0
    IN  MapThenSumSet(Gap, earlier)

(* Bands are half-open: cuts are the lower ends of all but the first. *)
Band(value, cuts) == Cardinality({c \in cuts : c <= value})

CoverageBand(part, whole) ==
    Cardinality({c \in {25, 50, 75, 90} : c * whole <= part * 100})

(* What is published of a set of sessions' timings; below MinSupport of    *)
(* them nothing is.                                                        *)
AgentHours(timings, hours, MinSupport) ==
    LET known  == {n \in DOMAIN timings : BoundaryKnown(timings[n])}
        active == {n \in DOMAIN timings : ActiveKnown(timings[n])}
        Sum(f(_), S) == IF S = {} THEN None ELSE Band(MapThenSumSet(f, S), hours)
    IN  IF Len(timings) < MinSupport
          THEN None
          ELSE [wall   |-> Sum(LAMBDA n : WallClock(timings[n]), known),
                active |-> Sum(LAMBDA n : ActiveDuration(timings[n]), active),
                boundaryCoverage |->
                  CoverageBand(Cardinality(known), Len(timings)),
                activeCoverage |->
                  CoverageBand(Cardinality(active), Len(timings))]

-----------------------------------------------------------------------------
(* What the profile promises of a session.                                 *)

(* Activity is time within the session: never more than its wall clock,    *)
(* and no longer idle stretch is counted as activity.                      *)
ActiveWithinSession(t) ==
    ActiveKnown(t) => ActiveDuration(t) \in 0 .. WallClock(t)

(* Full coverage is claimed only when every record of the subject between  *)
(* the markers is dated within the boundaries, and then one more undated   *)
(* or stray record would end it.                                           *)
CompleteIsEarned(s) ==
    LET b == Boundaries(s)
    IN  Timing(s).coverage = "complete" <=>
          /\ Eligible(s, b) # {}
          /\ Eligible(s, b) \subseteq Dated(s)
          /\ \A i \in Eligible(s, b) :
               /\ b.open.at # None => b.open.at <= s.records[i].at
               /\ b.close.at # None => s.records[i].at <= b.close.at

(* Records of another's, or of nobody's known, authorship change nothing.  *)
WithoutUnknown(s) ==
    [s EXCEPT !.records =
        [i \in DOMAIN @ |->
            IF @[i].attribution = "subject"
              THEN @[i]
              ELSE [attribution |-> "unknown", marker |-> "plain",
                    at |-> None]]]

TimingHonest(s) ==
    /\ Constructible(Timing(s))
    /\ ActiveWithinSession(Timing(s))
    /\ Timing(WithoutUnknown(s)) = Timing(s)
=============================================================================
