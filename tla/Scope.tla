------------------------------- MODULE Scope -------------------------------
(***************************************************************************)
(* The rules of one target's scope, and what they decide of a candidate.   *)
(*                                                                         *)
(* Rules are only ever added and superseded: a request reads a rule, marks *)
(* it, and writes the mark where the row is still live.  Decide walks the  *)
(* live rules from the oldest, for one gate: an exclude refuses, the first *)
(* include permits otherwise, and no match at all is not in scope.         *)
(*                                                                         *)
(* An address is a number of Width bits, a range the addresses that share  *)
(* its first bits, a host the sequence of its labels from the left.        *)
(***************************************************************************)
EXTENDS Naturals, Sequences
LOCAL INSTANCE SequencesExt

CONSTANTS
    Drafts,        \* what the requests ask to add: pattern, polarity, gate, kinds, tools
    Candidates,    \* what is asked about: kind, value, intensity
    Requests,
    Seat,          \* Seat[p]: the level of whoever sent p on the workspace (module Seats)
    Width,
    MaxRules       \* rules of the target, all told

VARIABLES
    rules,         \* the rows, from the oldest; gone[i] is who superseded rules[i]
    gone,
    job,           \* job[p]: the rule that p has read and is about to supersede, or 0
    told           \* told[i]: how often rules[i] was announced as superseded (history)

vars == <<rules, gone, job, told>>

Live == "live"
Intensities == {"passive", "light", "loud"}

-----------------------------------------------------------------------------
(* Rules.                                                                  *)

\* Kind.Gate: what a process can be pointed at spawns, everything else claims.
Gate(kind) == IF kind \in {"host", "cidr", "ip", "asn", "url"} THEN "spawn" ELSE "claim"

\* NewRule: what it refuses, and what it makes of what it accepts.
Valid(d) ==
    /\ d.kinds # {}
    /\ \A k \in d.kinds : Gate(k) = d.gate
    /\ d.gate = "claim" => d.tools = {}

NewRule(d) ==
    [d EXCEPT !.tools = IF d.gate = "spawn" /\ d.tools = {} THEN Intensities ELSE @]

\* kindNames, intensityNames and the row: stored as it is.
Row(d) == Append(rules, NewRule(d))

Add(d) ==
    /\ Valid(d)
    /\ Len(rules) < MaxRules
    /\ rules' = Row(d)
    /\ gone' = Append(gone, Live)
    /\ told' = Append(told, 0)
    /\ UNCHANGED job

\* Supersede reads the rule and refuses one that is superseded already.
ReadRule(p, i) ==
    /\ job[p] = 0
    /\ gone[i] = Live
    /\ job' = [job EXCEPT ![p] = i]
    /\ UNCHANGED <<rules, gone, told>>

\* The row where superseded_at is still null; the event only after it.
Mark(p) ==
    IF gone[job[p]] = Live
    THEN /\ gone' = [gone EXCEPT ![job[p]] = p]
         /\ told' = [told EXCEPT ![job[p]] = @ + 1]
    ELSE UNCHANGED <<gone, told>>

Supersede(p) ==
    /\ job[p] # 0
    /\ Mark(p)
    /\ job' = [job EXCEPT ![p] = 0]
    /\ UNCHANGED rules

-----------------------------------------------------------------------------
(* Decide.                                                                 *)

\* netip: the addresses of a range, and the range of one candidate in another.
Block(bits) == 2 ^ (Width - bits)
Within(a, r) == a \div Block(r.bits) = r.base \div Block(r.bits)
Covers(r, c) == Within(c.base, r) /\ r.bits <= c.bits

\* "*.suffix" is every host under the suffix, and never the suffix itself.
Under(host, suffix) ==
    /\ Len(host) > Len(suffix)
    /\ SubSeq(host, Len(host) - Len(suffix) + 1, Len(host)) = suffix

\* matchesSpawn: a range, an address, a wildcard, or the name itself.
MatchesSpawn(pattern, kind, value) ==
    \/ /\ pattern.form = "range"
       /\ \/ kind = "ip" /\ Within(value.base, pattern)
          \/ kind = "cidr" /\ Covers(pattern, value)
    \/ pattern.form = "address" /\ kind = "ip" /\ value.base = pattern.base
    \/ pattern.form = "under" /\ kind = "host" /\ Under(value.labels, pattern.labels)
    \/ /\ pattern.form = "name" /\ kind \in {"host", "asn", "url"}
       /\ value.labels = pattern.labels

\* matches: on the claim gate a pattern is the value or it is nothing.
Matches(r, c) ==
    IF r.gate = "spawn" THEN MatchesSpawn(r.pattern, c.kind, c.value)
    ELSE r.pattern.labels = c.value.labels

AllowsIntensity(r, i) == r.gate = "claim" \/ i \in r.tools

Applies(i, gate, c) ==
    /\ rules[i].gate = gate
    /\ c.kind \in rules[i].kinds
    /\ AllowsIntensity(rules[i], c.intensity)
    /\ Matches(rules[i], c)

\* LiveRulesForTarget, in the order they were made.
LiveRules == SelectSeq([i \in DOMAIN rules |-> i], LAMBDA i : gone[i] = Live)

Nothing == [verdict |-> "not_in_scope", winner |-> 0, include |-> 0, matched |-> {}]

\* Mutant: an exclude only carves out of what an include has permitted so far.
TurnCarves(out, i, gate, c) ==
    IF ~Applies(i, gate, c) THEN out
    ELSE LET seen == [out EXCEPT !.matched = @ \cup {i}] IN
         IF rules[i].polarity = "exclude"
         THEN IF out.verdict = "refused" \/ out.include = 0 THEN seen
              ELSE [seen EXCEPT !.verdict = "refused", !.winner = i]
         ELSE IF out.include = 0 THEN [seen EXCEPT !.include = i] ELSE seen

\* One turn of the loop.
Turn(out, i, gate, c) ==
    IF ~Applies(i, gate, c) THEN out
    ELSE LET seen == [out EXCEPT !.matched = @ \cup {i}] IN
         IF rules[i].polarity = "exclude"
         THEN IF out.verdict = "refused" THEN seen
              ELSE [seen EXCEPT !.verdict = "refused", !.winner = i]
         ELSE IF out.include = 0 THEN [seen EXCEPT !.include = i] ELSE seen

Decide(gate, c) ==
    LET out == FoldLeft(LAMBDA o, i : Turn(o, i, gate, c), Nothing, LiveRules) IN
    IF out.verdict = "refused" \/ out.include = 0 THEN out
    ELSE [out EXCEPT !.verdict = "permitted", !.winner = out.include]

\* The query: the live rules are read once and decided in memory.
Verdict(c) == Decide(Gate(c.kind), c).verdict

-----------------------------------------------------------------------------
TypeOK ==
    /\ Len(rules) <= MaxRules
    /\ \A i \in DOMAIN rules : rules[i] \in {NewRule(d) : d \in Drafts}
    /\ gone \in [DOMAIN rules -> Requests \cup {Live}]
    /\ job \in [Requests -> 0 .. Len(rules)]
    /\ told \in [DOMAIN rules -> Nat]

Init ==
    /\ rules = <<>>
    /\ gone = <<>>
    /\ told = <<>>
    /\ job = [p \in Requests |-> 0]

\* The handlers: who edits a scope is an admin of the workspace.
onTarget(p) == Seat[p] = "admin"
addRule(p) == onTarget(p) /\ \E d \in Drafts : Add(d)
supersedeRule(p) == onTarget(p) /\ \E i \in DOMAIN rules : ReadRule(p, i)

Next == \E p \in Requests : addRule(p) \/ supersedeRule(p) \/ Supersede(p)

Spec == Init /\ [][Next]_vars

-----------------------------------------------------------------------------
\* However many people supersede one rule at once, one of them has, and the
\* ledger hears of it once.
OneSupersedes == \A i \in DOMAIN rules : told[i] = (IF gone[i] = Live THEN 0 ELSE 1)

\* What Decide promises, without its loop: an applying exclude refuses, in
\* whatever order the rules were made, and the oldest one is cited; without
\* one the oldest applying include permits.
DecideIsTheRule == \A c \in Candidates :
    LET applying == {i \in DOMAIN rules : gone[i] = Live /\ Applies(i, Gate(c.kind), c)}
        excludes == {i \in applying : rules[i].polarity = "exclude"}
        Oldest(S) == CHOOSE i \in S : \A j \in S : i <= j
        out == Decide(Gate(c.kind), c) IN
    /\ out.matched = applying
    /\ <<out.verdict, out.winner>> =
         IF excludes # {} THEN <<"refused", Oldest(excludes)>>
         ELSE IF applying # {} THEN <<"permitted", Oldest(applying)>>
         ELSE <<"not_in_scope", 0>>

\* A scope that only lost includes or gained excludes permits nothing new: the
\* person who narrows it need not know in which order the rules were made.
Standing(polarity) == {i \in DOMAIN rules : gone[i] = Live /\ rules[i].polarity = polarity}
Narrowing ==
    /\ Standing("include")' \subseteq Standing("include")
    /\ Standing("exclude") \subseteq Standing("exclude")'
PermitsNothingNew == \A c \in Candidates : Verdict(c)' = "permitted" => Verdict(c) = "permitted"
NarrowingNeverPermits == [][Narrowing => PermitsNothingNew]_vars

\* "`10.0.0.0/8` is a statement about every address in it", and an exclude
\* beats an include: a range that is permitted holds no address that is refused.
ExcludesHoldInRanges == \A c \in Candidates :
    c.kind = "cidr" /\ Verdict(c) = "permitted" =>
        \A a \in Candidates :
            a.kind = "ip" /\ a.intensity = c.intensity /\ Within(a.value.base, c.value)
            => Verdict(a) # "refused"
=============================================================================
